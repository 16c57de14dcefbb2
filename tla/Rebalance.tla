------------------------------- MODULE Rebalance -------------------------------
(***************************************************************************)
(* The advised rebalance of a book: from its weights towards an optimum    *)
(* of the mean-variance programme, inside the bounds of the policy and no  *)
(* further than the turnover budget.                                       *)
(*                                                                         *)
(* Weights are whole numbers that sum to One. worth[s] is the market value *)
(* of the marked positions of a sleeve that is held, targets[s] a record   *)
(* [min, max, target] of a sleeve the policy has a target for. Which point *)
(* of the feasible region is the optimum is left open: optimum is given.   *)
(***************************************************************************)
EXTENDS SumsAndOrders

CONSTANTS
    One,            \* the whole book
    NoBudget,       \* the policy sets no turnover budget
    Infeasible      \* run_mv_rebalance raises

Magnitude(x) == IF x < 0 THEN -x ELSE x

CurrentWeights(worth, universe) ==
    [s \in universe |-> IF s \in DOMAIN worth THEN (worth[s] * One) \div TotalOf(worth) ELSE 0]

(* Sleeves the policy has no target for are free.                          *)
FloorOf(targets, s) == IF s \in DOMAIN targets THEN targets[s].min ELSE 0
CapOf(targets, s) == IF s \in DOMAIN targets THEN targets[s].max ELSE One

BoundsMeet(targets, universe) ==
    /\ TotalOf([s \in universe |-> FloorOf(targets, s)]) <= One
    /\ TotalOf([s \in universe |-> CapOf(targets, s)]) >= One

Clip(x, low, high) ==
    LET raised == IF x < low THEN low ELSE x
    IN  IF raised > high THEN high ELSE raised

(* The weights less a common amount, each kept within its bounds.          *)
Lowered(w, targets, by) ==
    [s \in DOMAIN w |-> Clip(w[s] - by, FloorOf(targets, s), CapOf(targets, s))]

(* Mutant: the weights are clipped and no common amount is looked for.     *)
Project_ClipOnly(w, targets) == Lowered(w, targets, 0)

(* project_capped_simplex: the amount for which the weights sum to One, on *)
(* the side of 0 that the sum of the clipped weights calls for.            *)
Project(w, targets) ==
    LET side == IF TotalOf(Lowered(w, targets, 0)) >= One THEN 0..One ELSE (-One)..(-1)
    IN  Lowered(w, targets, CHOOSE by \in side : TotalOf(Lowered(w, targets, by)) = One)

Turnover(from, to) == TotalOf([s \in DOMAIN to |-> Magnitude(to[s] - from[s])])

(* The whole way to the optimum, or the part of it the budget pays for.    *)
Advised(current, optimum, targets, budget) ==
    LET far == Turnover(current, optimum)
    IN  IF budget = NoBudget \/ far <= budget THEN optimum
        ELSE Project([s \in DOMAIN current |->
                        current[s] + (budget * (optimum[s] - current[s])) \div far], targets)

RunMvRebalance(worth, targets, budget, optimum) ==
    LET universe == DOMAIN worth \cup DOMAIN targets
        current == CurrentWeights(worth, universe)
        target == Advised(current, optimum, targets, budget)
    IN  IF TotalOf(worth) <= 0 \/ ~ BoundsMeet(targets, universe) THEN Infeasible
        ELSE IF TotalOf(target) # One THEN Infeasible
        ELSE [current |-> current, target |-> target, turnover |-> Turnover(current, target),
              cut |-> budget # NoBudget /\ Turnover(current, optimum) > budget,
              unbounded |-> universe \ DOMAIN targets,
              binding |-> {s \in DOMAIN targets : target[s] \in {targets[s].min, targets[s].max}}]

-----------------------------------------------------------------------------
(* What it is for.                                                         *)

InPolicy(w, targets) ==
    /\ TotalOf(w) = One
    /\ \A s \in DOMAIN w : FloorOf(targets, s) <= w[s] /\ w[s] <= CapOf(targets, s)

(* From a book inside its policy the advice goes straight towards the      *)
(* optimum, and as far as the budget allows.                               *)
OnTheWay(result, optimum, budget) ==
    /\ \A s \in DOMAIN optimum :
          \/ result.current[s] <= result.target[s] /\ result.target[s] <= optimum[s]
          \/ result.current[s] >= result.target[s] /\ result.target[s] >= optimum[s]
    /\ result.turnover = IF result.cut THEN budget ELSE Turnover(result.current, optimum)

KeepsPolicy(result, targets, optimum, budget) ==
    /\ InPolicy(result.target, targets)
    /\ InPolicy(result.current, targets) => OnTheWay(result, optimum, budget)
=============================================================================
