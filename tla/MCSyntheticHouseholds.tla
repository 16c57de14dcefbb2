------------------------- MODULE MCSyntheticHouseholds -------------------------
(* Every seed whose weights are at an end of their range: the shares the   *)
(* validator compares are quotients of linear forms of the weights, so     *)
(* they are extreme at the ends.                                           *)
EXTENDS SyntheticHouseholds

CONSTANTS Caps, Blocks

Ends(c) == {w \in [Sleeves -> UNION {{Precision * Ranges[k][s].lo, Precision * Ranges[k][s].hi} :
                                         k \in {c}, s \in Sleeves}] :
               \A s \in Sleeves : w[s] \in {Precision * Ranges[c][s].lo, Precision * Ranges[c][s].hi}}

CapsOf(c) == {k \in Caps : Priors[c].cap.lo <= k /\ k <= Priors[c].cap.hi}

MCDraws ==
    UNION {[cohort : {c}, raw : Ends(c), cap : CapsOf(c),
            blocks : Blocks, unlucky : BOOLEAN] : c \in Cohorts}
=============================================================================
