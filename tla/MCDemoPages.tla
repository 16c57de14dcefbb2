------------------------------ MODULE MCDemoPages ------------------------------
(* A small instance of DemoPages for TLC.                                   *)
EXTENDS DemoPages, TLC

CONSTANTS p1, p2, r1, r2

Symmetry == Permutations(Procs) \cup Permutations(Requests)
=============================================================================
