-------------------------- MODULE SyntheticHouseholds --------------------------
(***************************************************************************)
(* The generator of synthetic households (research/synthetic): a seed      *)
(* draws sleeve weights from its cohort's ranges; a fixture of lots and    *)
(* one private fund is built from them, then a policy (IPS) for the        *)
(* fixture, and validate_ips judges the pair before it is sealed.  A       *)
(* sealed bundle is driven through the workflow smoke and may be stored.   *)
(*                                                                         *)
(* Weights are integers, 1/(100 * Precision) each, and sum to whatever     *)
(* they sum to: the code's normalisation divides by that sum, so here      *)
(* amounts are compared with shares of the net asset value instead.        *)
(* Amounts of money are in 200ths of a weight, which makes every share     *)
(* the code takes a whole number.  Left out: the quantisation of a weight  *)
(* to seven places, prices and dates, and the numerical legs of the smoke  *)
(* (risk, quadratic programme, advice), which succeed or not.              *)
(***************************************************************************)
EXTENDS Integers, Sequences

CONSTANTS
    Precision,  \* steps of a sampled weight in a hundredth
    Draws,      \* what a seed may draw
    MaxEmits    \* bound: how often one seed is emitted

VARIABLES
    draw,       \* what the seed draws, every time it is used
    order,      \* the emission at hand: rung, ablated, validate
    pc,         \* idle, sealed, refused, smoking, smoked, raised
    checks,     \* the legs of the smoke so far, with their verdicts
    emits,      \* emissions so far
    stored,     \* what the database has of the household
    securities, \* tickers whose security is stored
    priced      \* tickers with a stored price

smokeVars == <<pc, checks>>
dbVars == <<stored, securities, priced>>
generatorVars == <<draw, order, smokeVars, emits, dbVars>>

-----------------------------------------------------------------------------
Cohorts == {"general_hnw", "uhnw_inherited", "founder_executive", "concentrated_stress"}
Sleeves == {"equity", "fixed_income", "cash", "alternatives", "commodities"}
Tickers == {"VTI", "AAPL", "BND", "CASH", "DBC"}

Range(lo, hi) == [lo |-> lo, hi |-> hi]
None == Range(0, 0)

(* In hundredths; a sleeve a cohort does not have weighs nothing.          *)
Ranges == [
    general_hnw |-> [equity |-> Range(45, 65), fixed_income |-> Range(15, 30),
        cash |-> Range(5, 15), alternatives |-> Range(5, 15), commodities |-> None],
    uhnw_inherited |-> [equity |-> Range(35, 50), fixed_income |-> Range(10, 20),
        cash |-> Range(5, 10), alternatives |-> Range(20, 35), commodities |-> Range(2, 8)],
    founder_executive |-> [equity |-> Range(50, 80), fixed_income |-> Range(5, 15),
        cash |-> Range(5, 15), alternatives |-> Range(5, 20), commodities |-> None],
    concentrated_stress |-> [equity |-> Range(70, 90), fixed_income |-> Range(5, 15),
        cash |-> Range(5, 10), alternatives |-> None, commodities |-> None]]

(* Also in hundredths of the net asset value; cap: the draws of the        *)
(* concentration limit, which for a founder is a share of the equity       *)
(* sleeve.                                                                 *)
Priors == [
    general_hnw |-> [band |-> 5, floor |-> 75, cap |-> Range(12, 12)],
    uhnw_inherited |-> [band |-> 5, floor |-> 55, cap |-> Range(10, 10)],
    founder_executive |-> [band |-> 8, floor |-> 70, cap |-> Range(15, 45)],
    concentrated_stress |-> [band |-> 2, floor |-> 60, cap |-> Range(20, 25)]]

Weights == [Sleeves -> Nat]

(* blocks: AAPL lots, if the fixture splits its equity; unlucky: the draw  *)
(* of the restricted list. Capital calls are left out.                     *)
SeedDraws ==
    {d \in [cohort : Cohorts, raw : Weights, cap : Nat,
            blocks : 3..5, unlucky : BOOLEAN] :
        /\ \A s \in Sleeves :
              /\ Precision * Ranges[d.cohort][s].lo <= d.raw[s]
              /\ d.raw[s] <= Precision * Ranges[d.cohort][s].hi
        /\ Priors[d.cohort].cap.lo <= d.cap
        /\ d.cap <= Priors[d.cohort].cap.hi}

ASSUME DrawsAssumption ==
    /\ Precision \in Nat \ {0}
    /\ Draws \subseteq SeedDraws
    /\ MaxEmits \in Nat

Orders == [rung : {3, 4}, ablated : BOOLEAN, validate : BOOLEAN]

-----------------------------------------------------------------------------
(* The fixture.                                                            *)

Has(d, s) == Ranges[d.cohort][s].hi > 0

(* The ablation gives every sleeve of the cohort the same weight.          *)
WeightsOf(d, o) ==
    IF o.ablated THEN [s \in Sleeves |-> IF Has(d, s) THEN 1 ELSE 0] ELSE d.raw

Unit == 200

SleeveNav(w, s) == Unit * w[s]
Nav(w) == Unit * (w["equity"] + w["fixed_income"] + w["cash"]
                  + w["alternatives"] + w["commodities"])

(* AAPL's share of the equity sleeve, in hundredths.                       *)
Concentrate(d, o) ==
    CASE o.rung = 4 /\ d.cohort = "concentrated_stress" -> 40
      [] o.rung = 4 /\ d.cohort = "founder_executive"   -> 25
      [] OTHER -> 0

Issuer(d, o, w) == (Unit \div 100) * Concentrate(d, o) * w["equity"]

(* Market value of the lots of each ticker.                                *)
Holdings(d, o, w) ==
    [t \in Tickers |->
        CASE t = "VTI"  -> SleeveNav(w, "equity") - Issuer(d, o, w)
          [] t = "AAPL" -> Issuer(d, o, w)
          [] t = "BND"  -> SleeveNav(w, "fixed_income")
          [] t = "CASH" -> SleeveNav(w, "cash")
          [] t = "DBC"  -> SleeveNav(w, "commodities")]

LotsOf(d, o, w, t) ==
    IF Holdings(d, o, w)[t] = 0 THEN 0 ELSE IF t = "AAPL" THEN d.blocks ELSE 1

(* Mutant: a fund is committed to half as much again as it has called.      *)
Committed_Half(w) == 300 * w["alternatives"]

Committed(w) == 240 * w["alternatives"]
Called(w) == SleeveNav(w, "alternatives")
Unfunded(w) == Committed(w) - Called(w)

-----------------------------------------------------------------------------
(* The policy.                                                             *)

(* The quotient n/m to the nearest whole, halves to the even one.          *)
RoundHalfEven(n, m) ==
    LET q == n \div m
        r == n - q * m
    IN  IF 2 * r > m \/ (2 * r = m /\ q % 2 = 1) THEN q + 1 ELSE q

(* In hundredths of the net asset value.                                   *)
ConcentrationLimit(d, w) ==
    IF d.cohort = "founder_executive"
    THEN RoundHalfEven(d.cap * SleeveNav(w, "equity"), Nav(w))
    ELSE d.cap

(* Mutant: the stress cohort's equity is allowed what it has.              *)
Headroom_Ample(d, w, s) == (Nav(w) \div 100) * Priors[d.cohort].band

(* How far above its weight a sleeve may go: the stress cohort's equity    *)
(* half a hundredth less than it has.                                      *)
Headroom(d, w, s) ==
    IF d.cohort = "concentrated_stress" /\ s = "equity"
    THEN -(Nav(w) \div 200)
    ELSE (Nav(w) \div 100) * Priors[d.cohort].band

MaxNav(d, w, s) ==
    IF SleeveNav(w, s) + Headroom(d, w, s) > Nav(w) THEN Nav(w)
                                                   ELSE SleeveNav(w, s) + Headroom(d, w, s)

TargetNav(d, w, s) == IF Headroom(d, w, s) < 0 THEN MaxNav(d, w, s) ELSE SleeveNav(w, s)

MinNav(d, w, s) ==
    LET m == TargetNav(d, w, s) - (Nav(w) \div 100) * Priors[d.cohort].band
    IN  IF m < 0 THEN 0 ELSE m

Targets(w) == {s \in Sleeves : w[s] > 0}

Restricted(d, o) ==
    CASE o.rung = 4 /\ d.unlucky /\ d.cohort = "uhnw_inherited"    -> {"VTI"}
      [] o.rung = 4 /\ d.unlucky /\ d.cohort = "founder_executive" -> {"BND"}
      [] OTHER -> {}

-----------------------------------------------------------------------------
(* validate_ips: what of the policy the fixture runs into.                 *)

SleeveBinds(d, w, s) == SleeveNav(w, s) < MinNav(d, w, s) \/ SleeveNav(w, s) > MaxNav(d, w, s)

(* Only AAPL has an issuer; the other tickers stand for whole sleeves.     *)
IssuerBinds(d, o, w) == 100 * Issuer(d, o, w) > ConcentrationLimit(d, w) * Nav(w)

(* Lots are liquid, the fund is not, and what it may still call counts as  *)
(* if it were there.                                                       *)
LiquidityBinds(d, w) ==
    100 * (Nav(w) - Called(w)) < Priors[d.cohort].floor * (Nav(w) + Unfunded(w))

Binds(d, o, w) ==
    \/ \E s \in Targets(w) : SleeveBinds(d, w, s)
    \/ IssuerBinds(d, o, w)
    \/ LiquidityBinds(d, w)

(* A stress household must run into its policy, any other must not.        *)
Valid(d, o) == Binds(d, o, WeightsOf(d, o)) <=> d.cohort = "concentrated_stress"

-----------------------------------------------------------------------------
(* The drift report of the smoke, from views of the lots: the fund is not  *)
(* among them, and DBC, an ETF, counts as equity.                          *)

LotsNav(w) == Nav(w) - Called(w)

(* Mutant: BND is an ETF like any other.                                   *)
ViewNav_AllEquity(d, o, w, s) ==
    CASE s = "equity" -> LotsNav(w) - SleeveNav(w, "cash")
      [] s = "cash"   -> SleeveNav(w, "cash")
      [] OTHER        -> 0

ViewNav(d, o, w, s) ==
    CASE s = "equity"       -> LET h == Holdings(d, o, w) IN h["VTI"] + h["AAPL"] + h["DBC"]
      [] s = "fixed_income" -> Holdings(d, o, w)["BND"]
      [] s = "cash"         -> Holdings(d, o, w)["CASH"]
      [] OTHER              -> 0

SleeveAlert(d, o, w, s) ==
    LET view == ViewNav(d, o, w, s) * Nav(w)
    IN  \/ view < MinNav(d, w, s) * LotsNav(w)
        \/ view > MaxNav(d, w, s) * LotsNav(w)
        \/ view - TargetNav(d, w, s) * LotsNav(w) > (Nav(w) \div 20) * LotsNav(w)
        \/ TargetNav(d, w, s) * LotsNav(w) - view > (Nav(w) \div 20) * LotsNav(w)

DriftAlerts(d, o, w) == {s \in Targets(w) : SleeveAlert(d, o, w, s)}

(* The report takes each lot for an issuer of its own, whole sleeves too.  *)
LotAlerts(d, o, w) ==
    {t \in Tickers : 100 * Holdings(d, o, w)[t] >
                         ConcentrationLimit(d, w) * LotsNav(w) * LotsOf(d, o, w, t)}

Legs == <<"walk_forward_guard", "policy_monitoring", "rebalance_tax_overlay",
          "mv_rebalance_qp", "research_scenario", "pm_advise">>

(* What of the lots is of liquidity tier 1 or 2: all of them, commodities  *)
(* of the second and the others of the first. The fund is no lot.          *)
LiquidNav(w) == LotsNav(w)

LiquidityAlert(d, w) == 100 * LiquidNav(w) < Priors[d.cohort].floor * LotsNav(w)

(* The verdicts a leg may reach; the numerical legs catch what they raise. *)
LegVerdicts(d, o, leg) ==
    CASE leg = "policy_monitoring" ->
            LET w == WeightsOf(d, o)
            IN  {d.cohort = "concentrated_stress" =>
                     \/ DriftAlerts(d, o, w) # {}
                     \/ LiquidityAlert(d, w)
                     \/ LotAlerts(d, o, w) # {}}
      [] leg \in {"mv_rebalance_qp", "pm_advise"} -> BOOLEAN
      [] OTHER -> {TRUE}

(* Mutant: the scenario leg emits the richest fixture of the seed.         *)
LegRaises_Rung4(d, o, leg) ==
    leg = "research_scenario" /\ ~Valid(d, [o EXCEPT !.ablated = FALSE, !.rung = 4])

(* The scenario leg emits the cohort, seed and rung once more, sampled and *)
(* validated, and catches nothing.                                         *)
LegRaises(d, o, leg) ==
    leg = "research_scenario" /\ ~Valid(d, [o EXCEPT !.ablated = FALSE])

-----------------------------------------------------------------------------
Nothing == [rung |-> 0, tickers |-> {}, restricted |-> {}, flagged |-> {}]

GeneratorTypeOK ==
    /\ draw \in Draws
    /\ order \in Orders
    /\ pc \in {"idle", "refused", "sealed", "smoking", "smoked", "raised"}
    /\ checks \in Seq([leg : {Legs[i] : i \in DOMAIN Legs}, ok : BOOLEAN])
    /\ emits \in 0..MaxEmits
    /\ stored \in [rung : {0, 3, 4}, tickers : SUBSET Tickers,
                   restricted : SUBSET Tickers, flagged : SUBSET Tickers]
    /\ securities \subseteq Tickers
    /\ priced \subseteq Tickers

(* Other households of the generator may have stored their securities.     *)
GeneratorInit ==
    /\ draw \in Draws
    /\ order = [rung |-> 3, ablated |-> FALSE, validate |-> TRUE]
    /\ pc = "idle"
    /\ checks = <<>>
    /\ emits = 0
    /\ stored = Nothing
    /\ securities \in {{}, Tickers \ {"AAPL"}}
    /\ priced = securities

(* emit_synthetic_household, and emit_ablated_household.                   *)
Emit(o) ==
    /\ pc = "idle"
    /\ emits < MaxEmits
    /\ order' = o
    /\ pc' = IF o.validate /\ ~Valid(draw, o) THEN "refused" ELSE "sealed"
    /\ emits' = emits + 1
    /\ UNCHANGED <<draw, checks, dbVars>>

StartSmoke ==
    /\ pc = "sealed"
    /\ pc' = "smoking"
    /\ UNCHANGED <<draw, order, checks, emits, dbVars>>

Leg == Legs[Len(checks) + 1]

(* run_workflow_smoke, leg by leg.                                         *)
RunLeg ==
    /\ pc = "smoking"
    /\ ~LegRaises(draw, order, Leg)
    /\ \E ok \in LegVerdicts(draw, order, Leg) : checks' = Append(checks, [leg |-> Leg, ok |-> ok])
    /\ pc' = IF Len(checks') = Len(Legs) THEN "smoked" ELSE "smoking"
    /\ UNCHANGED <<draw, order, emits, dbVars>>

LegFails ==
    /\ pc = "smoking"
    /\ LegRaises(draw, order, Leg)
    /\ pc' = "raised"
    /\ UNCHANGED <<draw, order, checks, emits, dbVars>>

Held(d, o) == {t \in Tickers : LotsOf(d, o, WeightsOf(d, o), t) > 0}

(* Mutant: a household is stored again whatever the database has.          *)
IsStored_Never == FALSE

(* The household's policy is named by cohort and seed: its rung is not in  *)
(* the name.                                                               *)
IsStored == stored # Nothing

(* A session finds what is committed, not what it has just added: each of  *)
(* several lots of a new ticker adds the security again, and its price.    *)
AddsTwice(d, o) ==
    \E t \in Held(d, o) :
        /\ LotsOf(d, o, WeightsOf(d, o), t) > 1
        /\ t \notin securities \/ t \notin priced

(* seed_synthetic_household: rows that are there are left as they are.     *)
Store ==
    /\ pc \in {"sealed", "smoked"}
    /\ pc' = "idle"
    /\ checks' = <<>>
    /\ IF IsStored \/ AddsTwice(draw, order)
       THEN UNCHANGED dbVars
       ELSE LET held == Held(draw, order)
                new  == held \ stored.tickers
            IN  /\ stored' = [rung |-> order.rung,
                              tickers |-> stored.tickers \cup held,
                              restricted |-> Restricted(draw, order),
                              flagged |-> stored.flagged
                                          \cup (new \cap Restricted(draw, order))]
                /\ securities' = securities \cup held
                /\ priced' = priced \cup held
    /\ UNCHANGED <<draw, order, emits>>

(* The caller goes on without storing.                                     *)
Discard ==
    /\ pc \notin {"idle", "smoking"}
    /\ pc' = "idle"
    /\ checks' = <<>>
    /\ UNCHANGED <<draw, order, emits, dbVars>>

GeneratorNext ==
    \/ \E o \in Orders : Emit(o)
    \/ StartSmoke \/ RunLeg \/ LegFails
    \/ Store
    \/ Discard

GeneratorSpec == GeneratorInit /\ [][GeneratorNext]_generatorVars

-----------------------------------------------------------------------------
Emitted == pc # "idle"
AtHand == WeightsOf(draw, order)

(* validate_ips refuses no sampled household but founders whose equity is  *)
(* split at rung 4 and whose issuer cap is not above a quarter of it, and  *)
(* every one of those with a smaller cap: the ranges of weights, the       *)
(* unfunded commitment, the bands and the liquidity floors fit each other. *)
(* A stress household always passes, because it must run into its policy   *)
(* and does; a founder at rung 3 has no lot of an issuer to run into it    *)
(* with. ConcentratedCohortsFail is what the comments say of both.         *)
OnlyFoundersAreRefused ==
    LET split == draw.cohort = "founder_executive" /\ order.rung = 4
    IN  order.validate /\ ~order.ablated =>
            /\ pc = "refused" => split /\ draw.cap <= 25
            /\ Emitted /\ pc # "refused" => ~(split /\ draw.cap < 25)

(* The validator, which reads the fixture, and the drift report, which     *)
(* reads views of its lots by another classification, find a stress        *)
(* household out of the same sleeves' bands.                               *)
MonitorAgrees ==
    Emitted /\ draw.cohort = "concentrated_stress" =>
        DriftAlerts(draw, order, AtHand) = {s \in Targets(AtHand) : SleeveBinds(draw, AtHand, s)}

(* The smoke of a validated bundle reaches its end: the scenario leg emits *)
(* the household again, and that passes too.                               *)
ValidatedSmokeCompletes == order.validate => pc # "raised"

(* The lots of a stored household carry the restrictions of its stored     *)
(* policy, whichever bundles of its seed were stored in turn.              *)
StoredIsOneBundle == stored.flagged = stored.restricted \cap stored.tickers

-----------------------------------------------------------------------------
(* What the documentation says and the code does not do.                   *)

(* "Insert synthetic graph, lots, alts, and IPS": a bundle that was sealed *)
(* can be stored in a database that does not have the household.           *)
SealedIsStorable ==
    pc \in {"sealed", "smoked"} /\ ~IsStored => ~AddsTwice(draw, order)

(* "the concentrated cohorts (which fail IPS validation at this seed)"     *)
(* (workflow_smoke.py:34), of a founder at rung 3 and a stress household   *)
(* at rung 4, both of seed 42: OnlyFoundersAreRefused says that no seed    *)
(* does, and the limit on one name, which the comment in analyst_data.py   *)
(* gives for the reason, is why the stress household passes.               *)
ConcentratedCohortsFail ==
    /\ Emitted /\ order.validate /\ ~order.ablated
    /\ <<draw.cohort, order.rung>> \in
           {<<"founder_executive", 3>>, <<"concentrated_stress", 4>>}
    => pc = "refused"
=============================================================================
