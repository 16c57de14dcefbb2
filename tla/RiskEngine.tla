------------------------------- MODULE RiskEngine -------------------------------
(***************************************************************************)
(* The risk of a portfolio: its shares of variance, its duration buckets,  *)
(* its liquidity and its stress, and what an overlay would change.         *)
(*                                                                         *)
(* A slot is a record                                                      *)
(*   class, weight     its asset class, and its weight out of the whole    *)
(*   tier, duration    1 liquid to 3 illiquid; years, or NoDuration        *)
(*   mode              "measurable", "fermi" or "auto"                     *)
(* A portfolio is a record [whole, slots]; a request divides its weights   *)
(* by the whole, here they stay whole numbers. An overlay is a record      *)
(* [drop, add, tilts, pack]. Shares of variance are numerators over the    *)
(* variance of the portfolio, returns numerators over whole.               *)
(***************************************************************************)
EXTENDS Rebalance, Sequences, SequencesExt

CONSTANTS
    Vol,            \* annual volatility of an asset class
    Rho(_, _),      \* correlation of two asset classes
    PlainVol,       \* what a measured volatility counts
    FermiVol,       \* what an estimated one does
    Shocks,         \* pack -> class -> return of the class under it
    Short, Long,    \* years from which a duration is no longer short, is long
    DaysOfTier,     \* days to liquidate a tier
    NoDuration, NoOverlay, NoPack

(* A ValueError in the place of a report or a portfolio.                   *)
Rejected == [rejected |-> TRUE]

ASSUME RiskAssumption ==
    /\ \A class \in DOMAIN Vol : Vol[class] \in Int
    /\ \A a, b \in DOMAIN Vol : Rho(a, b) \in Int
    /\ PlainVol \in Int /\ FermiVol \in Int
    /\ \A pack \in DOMAIN Shocks :
          \A class \in DOMAIN Shocks[pack] : Shocks[pack][class] \in Int

OfClass(slots, class) == {i \in DOMAIN slots : slots[i].class = class}
ClassesOf(slots) == {slots[i].class : i \in DOMAIN slots}
WeightOf(slots, some) == TotalOf([i \in some |-> slots[i].weight])

(* What AssetPortfolio and AllocationSlot accept.                          *)
IsPortfolio(p) ==
    /\ p.slots # <<>>
    /\ \A i \in DOMAIN p.slots : p.slots[i].weight \in 0..p.whole /\ p.slots[i].tier \in 1..3
    /\ WeightOf(p.slots, DOMAIN p.slots) = p.whole

-----------------------------------------------------------------------------
(* Levels 1 and 2: the variance and who contributes it.                    *)

IsFermi(slot) ==
    \/ slot.mode = "fermi"
    \/ slot.mode = "auto" /\ (slot.class = "alternatives" \/ slot.tier >= 2)

Volatility(slot) == (IF IsFermi(slot) THEN FermiVol ELSE PlainVol) * Vol[slot.class]

Marginal(slots) ==
    [i \in DOMAIN slots |->
        slots[i].weight * TotalOf([j \in DOMAIN slots |->
            slots[j].weight * Volatility(slots[i]) * Volatility(slots[j])
                            * Rho(slots[i].class, slots[j].class)])]

(* A portfolio without variance has shares of nothing.                     *)
VarianceShares(slots) ==
    IF TotalOf(Marginal(slots)) > 0 THEN Marginal(slots) ELSE [i \in DOMAIN slots |-> 0]

(* Shares looked up by class: of two slots of a class the later one's.     *)
ShareByClass(slots) ==
    [class \in ClassesOf(slots) |-> VarianceShares(slots)[Max(OfClass(slots, class))]]

Bucket(duration) ==
    CASE duration = NoDuration -> "undefined"
      [] duration # NoDuration /\ duration < Short  -> "short"
      [] duration # NoDuration /\ duration \in Short..Long -> "medium"
      [] OTHER -> "long"

DurationRisk(slots) ==
    LET shares == ShareByClass(slots)
        members(bucket) == {i \in DOMAIN slots : Bucket(slots[i].duration) = bucket}
    IN  [bucket \in {Bucket(slots[i].duration) : i \in DOMAIN slots} |->
            [weight |-> WeightOf(slots, members(bucket)),
             share |-> TotalOf([i \in members(bucket) |-> shares[slots[i].class]])]]

-----------------------------------------------------------------------------
(* Level 4 and liquidity.                                                  *)

StressOf(slots, shocks) ==
    LET shocked(i) == slots[i].weight
            * IF slots[i].class \in DOMAIN shocks THEN shocks[slots[i].class] ELSE 0
    IN  [return |-> TotalOf([i \in DOMAIN slots |-> shocked(i)]),
         by_class |-> [class \in ClassesOf(slots) |-> shocked(Max(OfClass(slots, class)))]]

(* A pack that is named is replayed alone.                                 *)
EvaluateStress(slots, pack) ==
    [name \in (IF pack = NoPack THEN DOMAIN Shocks ELSE {pack}) |-> StressOf(slots, Shocks[name])]

EvaluateLiquidity(slots) ==
    LET tier == [t \in {slots[i].tier : i \in DOMAIN slots} |->
                    WeightOf(slots, {i \in DOMAIN slots : slots[i].tier = t})]
    IN  [tiers |-> tier, days |-> TotalOf([t \in DOMAIN tier |-> tier[t] * DaysOfTier[t]])]

EvaluatePortfolioRisk(portfolio, pack) ==
    LET slots == portfolio.slots
        fermi == {i \in DOMAIN slots : IsFermi(slots[i])}
        shares == VarianceShares(slots)
        estimated == TotalOf([i \in fermi |-> shares[i]])
        variance == TotalOf(shares)
    IN  [whole |-> portfolio.whole, variance |-> variance,
         shares |-> shares, by_class |-> ShareByClass(slots),
         by_duration |-> DurationRisk(slots), stress |-> EvaluateStress(slots, pack),
         liquidity |-> EvaluateLiquidity(slots),
         measurable |-> WeightOf(slots, DOMAIN slots \ fermi),
         fermi |-> portfolio.whole - WeightOf(slots, DOMAIN slots \ fermi),
         fermi_share |-> IF estimated <= variance THEN estimated ELSE variance]

-----------------------------------------------------------------------------
(* An overlay drops, adds and tilts, and the weights are made whole again. *)

TiltOf(overlay, class) == IF class \in DOMAIN overlay.tilts THEN overlay.tilts[class] ELSE 0

PlainSlot(class) ==
    [class |-> class, weight |-> 0, tier |-> 1, duration |-> NoDuration, mode |-> "auto"]

(* Mutant: what a dropped sleeve looked like is remembered.                *)
Template_KeepsDropped(slots, overlay, class) ==
    LET added == OfClass(overlay.add, class)
        kept == OfClass(slots, class)
    IN  IF added # {} THEN overlay.add[Max(added)]
        ELSE IF kept # {} THEN slots[Min(kept)]
        ELSE PlainSlot(class)

(* The last slot added for a class, else the first one kept.               *)
Template(slots, overlay, class) ==
    LET added == OfClass(overlay.add, class)
        kept == IF class \in overlay.drop THEN {} ELSE OfClass(slots, class)
    IN  IF added # {} THEN overlay.add[Max(added)]
        ELSE IF kept # {} THEN slots[Min(kept)]
        ELSE PlainSlot(class)

ApplyOverlay(portfolio, overlay) ==
    LET slots == portfolio.slots
        kept == {i \in DOMAIN slots : slots[i].class \notin overlay.drop}
        classes == {slots[i].class : i \in kept} \cup ClassesOf(overlay.add) \cup DOMAIN overlay.tilts
        weight == [class \in classes |->
                      WeightOf(slots, kept \cap OfClass(slots, class))
                      + WeightOf(overlay.add, OfClass(overlay.add, class)) + TiltOf(overlay, class)]
        order == SetToSeq(classes)
    IN  IF (\E class \in classes : weight[class] < 0) \/ TotalOf(weight) <= 0 THEN Rejected
        ELSE [whole |-> TotalOf(weight),
              slots |-> [i \in DOMAIN order |->
                  [Template(slots, overlay, order[i]) EXCEPT !.weight = weight[order[i]]]]]

(* Mutant: a class the overlay removed has no delta.                       *)
DiffReports_ProposedOnly(baseline, proposed) ==
    [class \in DOMAIN proposed.by_class |->
        [from |-> IF class \in DOMAIN baseline.by_class THEN baseline.by_class[class] ELSE 0,
         to |-> proposed.by_class[class]]]

(* A delta is what a class contributed before and what it would after.     *)
DiffReports(baseline, proposed) ==
    [class \in DOMAIN baseline.by_class \cup DOMAIN proposed.by_class |->
        [from |-> IF class \in DOMAIN baseline.by_class THEN baseline.by_class[class] ELSE 0,
         to |-> IF class \in DOMAIN proposed.by_class THEN proposed.by_class[class] ELSE 0]]

Proposal(report, derived, proposed) ==
    [report |-> report, derived |-> derived, proposed |-> proposed,
     deltas |-> DiffReports(report, proposed)]

EvaluateDeltas(report, derived, pack) ==
    IF derived = Rejected \/ pack \notin DOMAIN Shocks \cup {NoPack} THEN Rejected
    ELSE Proposal(report, derived, EvaluatePortfolioRisk(derived, pack))

EvaluateRisk(portfolio, overlay) ==
    IF overlay = NoOverlay THEN [report |-> EvaluatePortfolioRisk(portfolio, NoPack)]
    ELSE EvaluateDeltas(EvaluatePortfolioRisk(portfolio, NoPack),
                         ApplyOverlay(portfolio, overlay), overlay.pack)

-----------------------------------------------------------------------------
(* What they are for.                                                      *)

NoClassTwice(slots) == Cardinality(ClassesOf(slots)) = Len(slots)

(* Each level of a report divides up the same portfolio.                   *)
LevelsAddUp(report) ==
    LET shareOf(bucket) == report.by_duration[bucket].share
        weightOf(bucket) == report.by_duration[bucket].weight
    IN  /\ TotalOf(report.by_class) = report.variance
        /\ TotalOf([b \in DOMAIN report.by_duration |-> shareOf(b)]) = report.variance
        /\ TotalOf([b \in DOMAIN report.by_duration |-> weightOf(b)]) = report.whole
        /\ TotalOf(report.liquidity.tiers) = report.whole
        /\ \A pack \in DOMAIN report.stress :
              TotalOf(report.stress[pack].by_class) = report.stress[pack].return

(* The deltas take the whole of the old variance to the whole of the new.  *)
DeltasAddUp(result) ==
    /\ TotalOf([c \in DOMAIN result.deltas |-> result.deltas[c].from]) = result.report.variance
    /\ TotalOf([c \in DOMAIN result.deltas |-> result.deltas[c].to]) = result.proposed.variance

Without(portfolio, classes) ==
    [portfolio EXCEPT !.slots = Restrict(@, {i \in DOMAIN @ : @[i].class \notin classes})]

(* What an overlay proposes is a portfolio a request could have named; its *)
(* levels and deltas add up; and of a dropped class nothing is left: the   *)
(* portfolio without it, under the overlay without the drop, is the same.  *)
OverlayIsSound(result, portfolio, overlay) ==
    /\ NoClassTwice(portfolio.slots) => LevelsAddUp(result.report)
    /\ IsPortfolio(result.derived) /\ NoClassTwice(result.derived.slots)
    /\ LevelsAddUp(result.proposed)
    /\ NoClassTwice(portfolio.slots) => DeltasAddUp(result)
    /\ result.derived = ApplyOverlay(Without(portfolio, overlay.drop), [overlay EXCEPT !.drop = {}])

(* The band of a report is low, then high: its width is the estimated      *)
(* share, which a hedge that is estimated makes negative.                  *)
BandIsOrdered(report) == report.fermi_share >= 0
=============================================================================
