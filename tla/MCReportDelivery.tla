--------------------------- MODULE MCReportDelivery ---------------------------
(* Small instances of ReportDelivery for TLC.                              *)
EXTENDS ReportDelivery, TLC

CONSTANTS p1, p2, s1, s2, d1, d2

(* Processes, snapshots and digests are interchangeable.                   *)
Symmetry == Permutations(Procs) \cup Permutations(Snapshots) \cup Permutations(Digests)
=============================================================================
