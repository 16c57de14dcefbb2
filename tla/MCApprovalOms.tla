---------------------------- MODULE MCApprovalOms ----------------------------
(* Small instances of ApprovalOms for TLC.  The runs over one household,    *)
(* a run of two trades and a run of one, are the defaults of the .cfg files. *)
EXTENDS ApprovalOms, TLC

CONSTANTS p1, p2, a1, a2, r1, r2, t1, t2, b1, b2

MCTradesOf == r1 :> {t1, t2} @@ r2 :> {t1}
MCOneTrade == r1 :> {t1}
MCHouseholdOf == [a \in Requests |-> CHOOSE h \in Households : TRUE]

(* Sessions, requests and fresh order ids are interchangeable.             *)
Symmetry == Permutations(Procs) \cup Permutations(Requests) \cup Permutations(Batches)
=============================================================================
