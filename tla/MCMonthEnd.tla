------------------------------ MODULE MCMonthEnd ------------------------------
(* Small instances of MonthEnd for TLC.                                    *)
EXTENDS MonthEnd, TLC

CONSTANTS p1, p2, s1, s2, s3, h1, h2, h3, h4

MCLists == {<<h1, h4, h2, h3>>, <<h1>>}

(* Processes and fresh snapshot ids are interchangeable.                   *)
Symmetry == Permutations(Procs) \cup Permutations(Snapshots)
=============================================================================
