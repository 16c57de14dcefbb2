----------------------------- MODULE SumsAndOrders -----------------------------
(***************************************************************************)
(* The sum of a function's values and the places of a list put in order:   *)
(* Python's sum and sorted, as the computations use them.                  *)
(***************************************************************************)
EXTENDS Integers, FiniteSets, Functions

Plus(x, y) == x + y
TotalOf(w) == FoldFunction(Plus, 0, w)

(* The order of a stable sort: what goes first, and of equals the earlier. *)
Stably(places, First(_, _)) ==
    {p \in places \X places : First(p[1], p[2]) \/ (~ First(p[2], p[1]) /\ p[1] < p[2])}

(* The places in the order before, a set of pairs that orders them.        *)
InOrder(places, before) ==
    [k \in 1..Cardinality(places) |->
        CHOOSE p \in places : Cardinality({q \in places : <<q, p>> \in before}) = k - 1]
=============================================================================
