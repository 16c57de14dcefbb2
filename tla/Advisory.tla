-------------------------------- MODULE Advisory --------------------------------
(***************************************************************************)
(* Advice on a household's book: the office manager's gate registers the   *)
(* request and hands it to the portfolio manager, who asks the specialists *)
(* for risk, policy, proposal and attribution and scores seven axioms.     *)
(*                                                                         *)
(* The lots are those of Analyst. A policy is a record                     *)
(*   targets     sleeve -> [min, max, target]                              *)
(*   limit       the most one name may weigh                               *)
(*   floor       the least the liquid tiers may weigh, or NoLimit          *)
(*   budget      the turnover budget, or NoBudget                          *)
(*   restricted  securities that are not to be sold                        *)
(* The verdicts of the risk engine are given: risk[i] for axiom i.         *)
(***************************************************************************)
EXTENDS Analyst

CONSTANTS
    DriftAlert,     \* a drift from a target beyond which there is an alert
    DriftWarn,      \* settings.pm_drift_warn
    BindingWarn,    \* settings.pm_binding_constraint_warn
    MaxRecords,     \* requests the register keeps
    Shown,          \* records a panel shows
    NoPolicy, Failed

ASSUME RegisterAssumption == MaxRecords \in Nat \ {0} /\ Shown \in Nat \ {0}

MarkedLots(lots) == {lot \in ToSet(lots) : lot.value # Unpriced}

WorthOf(some) == TotalOf([lot \in some |-> lot.value])

WorthBySleeve(lots) ==
    [s \in {lot.sleeve : lot \in MarkedLots(lots)} |->
        WorthOf({lot \in MarkedLots(lots) : lot.sleeve = s})]

-----------------------------------------------------------------------------
(* policy.check: the drift report.                                         *)

Weights(lots, targets) ==
    LET worth == WorthBySleeve(lots)
    IN  [s \in DOMAIN targets |-> IF s \notin DOMAIN worth \/ TotalOf(worth) <= 0 THEN 0
                                  ELSE (worth[s] * One) \div TotalOf(worth)]

DriftAlerts(weights, targets) ==
    UNION {{<<alert, s>> : alert \in
        {a \in {"min", "max", "drift"} :
            \/ a = "min" /\ weights[s] < targets[s].min
            \/ a = "max" /\ weights[s] > targets[s].max
            \/ a = "drift" /\ Magnitude(weights[s] - targets[s].target) > DriftAlert}} :
        s \in DOMAIN targets}

(* Each lot is held against the limit, not the lots of a name together.    *)
ConcentrationAlerts(lots, limit) ==
    LET all == WorthOf(MarkedLots(lots))
    IN  {lot.id : lot \in {l \in MarkedLots(lots) : all > 0 /\ l.value * One > limit * all}}

PolicyCheck(lots, policy) ==
    LET weights == Weights(lots, policy.targets)
    IN  [drift |-> {Magnitude(weights[s] - policy.targets[s].target) : s \in DOMAIN weights},
         concentration |-> ConcentrationAlerts(lots, policy.limit),
         alerts |-> DriftAlerts(weights, policy.targets)
                    \cup IF policy.floor # NoLimit /\ Illiquid(lots, policy.floor)
                         THEN {<<"liquidity", "book">>} ELSE {}]

-----------------------------------------------------------------------------
(* optimizer.propose: the harvests, and beside them the rebalance.         *)

SleeveBounds(lots, targets) ==
    {alert \in DriftAlerts(Weights(lots, targets), targets) : alert[1] # "drift"}

BindingConstraints(harvest, lots, targets) ==
    LET binding == harvest.binding \cup SleeveBounds(lots, targets)
    IN  IF harvest.trades = <<>> /\ binding # {} THEN binding \cup {<<"no_action">>} ELSE binding

-----------------------------------------------------------------------------
(* The axioms and the headline over them.                                  *)

(* Mutant: the drift alone is scored, whatever the alerts.                 *)
Axiom7_DriftOnly(check) ==
    IF check.drift = {} THEN "not_computed"
    ELSE IF Max(check.drift) > DriftWarn THEN "warn" ELSE "pass"

Axiom7(check) ==
    IF check.alerts # {} THEN "breach"
    ELSE IF check.drift = {} THEN "not_computed"
    ELSE IF Max(check.drift) > DriftWarn THEN "warn" ELSE "pass"

Axioms(risk, check, binding) ==
    <<risk[1], risk[2],
      IF check.concentration # {} THEN "breach" ELSE "pass",
      risk[4], "not_computed",
      IF Cardinality(binding) > BindingWarn THEN "warn" ELSE "pass",
      Axiom7(check)>>

Headline(axioms) ==
    LET said == ToSet(axioms)
    IN  CASE "breach" \in said                            -> "breach"
          [] said \cap {"breach", "warn"} = {"warn"}       -> "warn"
          [] said = {"not_computed", "pass"}               -> "measured"
          [] OTHER                                         -> "within tolerance"

(* build_working_set: a policy, and something of value among lots and funds.*)
HasWorkingSet(lots, funds, policy) ==
    /\ policy # NoPolicy
    /\ (\E lot \in MarkedLots(lots) : lot.value > 0) \/ (\E fund \in funds : fund.nav > 0)

(* pm.advise. A leg that raises fails the request.                         *)
Advise(lots, funds, policy, risk, optimum, group, today) ==
    IF ~ HasWorkingSet(lots, funds, policy) THEN Failed
    ELSE LET check == PolicyCheck(lots, policy)
             harvest == TaxAwareOptimizer(lots, group, policy.restricted, today)
             rebalance == RunMvRebalance(WorthBySleeve(lots), policy.targets, policy.budget, optimum)
         IN  IF harvest = Refused \/ rebalance = Infeasible \/ Attribution(lots, today) = NotAttributed
             THEN Failed
             ELSE LET axioms == Axioms(risk, check, BindingConstraints(harvest, lots, policy.targets))
                  IN  [axioms |-> axioms, headline |-> Headline(axioms), rebalance |-> rebalance]

-----------------------------------------------------------------------------
(* The register of the gate: the last MaxRecords requests, oldest first.   *)

Start(register, id) ==
    LET all == Append(register, [id |-> id, stage |-> "routing"])
    IN  IF Len(all) > MaxRecords THEN Tail(all) ELSE all

(* Mutant: the oldest record of the id is patched.                         *)
Patch_Oldest(register, id, stage) ==
    LET at == {i \in DOMAIN register : register[i].id = id}
    IN  IF at = {} THEN register ELSE [register EXCEPT ![Min(at)].stage = stage]

(* The newest record of the id.                                            *)
Patch(register, id, stage) ==
    LET at == {i \in DOMAIN register : register[i].id = id}
    IN  IF at = {} THEN register ELSE [register EXCEPT ![Max(at)].stage = stage]

(* receive_request: routed, dispatched, answered.                          *)
ReceiveRequest(register, request) ==
    Patch(Patch(Start(register, request.id), request.id, "dispatching"),
          request.id, request.answer)

(* A page that fails before the gate leaves no record.                     *)
Serve(register, request) ==
    IF request.answer = "unreached" THEN register ELSE ReceiveRequest(register, request)

InFlight(register) ==
    Reverse(SubSeq(register, IF Len(register) > Shown THEN Len(register) - Shown + 1 ELSE 1,
                   Len(register)))

(* What the panels of a series of requests show.                           *)
Panels(requests) ==
    LET after[i \in 0..Len(requests)] == IF i = 0 THEN <<>> ELSE Serve(after[i - 1], requests[i])
    IN  [i \in DOMAIN requests |-> InFlight(after[i])]

-----------------------------------------------------------------------------
(* What they are for.                                                      *)

(* A request is answered exactly when the household has a policy whose     *)
(* bounds can be met, marked value, and lots that can be attributed.       *)
Advisable(lots, policy, today) ==
    /\ policy # NoPolicy
    /\ WorthOf(MarkedLots(lots)) > 0
    /\ BoundsMeet(policy.targets, DOMAIN policy.targets \cup {lot.sleeve : lot \in MarkedLots(lots)})
    /\ \A lot \in ToSet(lots) : ~ Unattributable(lot, today)

(* The weight of a set of marked lots is beyond a share of the book.       *)
Beyond(some, lots, share) == WorthOf(some) * One > share * WorthOf(MarkedLots(lots))
Below(some, lots, share) == WorthOf(some) * One < share * WorthOf(MarkedLots(lots))

OutOfPolicy(lots, policy) ==
    \/ \E s \in DOMAIN policy.targets :
          LET held == {lot \in MarkedLots(lots) : lot.sleeve = s}
              target == policy.targets[s]
          IN  \/ Beyond(held, lots, target.max) \/ Below(held, lots, target.min)
              \/ Beyond(held, lots, target.target + DriftAlert)
              \/ Below(held, lots, target.target - DriftAlert)
    \/ \E lot \in MarkedLots(lots) : Beyond({lot}, lots, policy.limit)
    \/ /\ policy.floor # NoLimit
       /\ Below({lot \in MarkedLots(lots) : lot.tier <= LiquidTier}, lots, policy.floor)

(* The headline is a breach exactly when the risk engine or the book says  *)
(* so.                                                                     *)
Honest(advice, lots, policy, risk) ==
    advice.headline = "breach" <=> "breach" \in {risk[2], risk[4]} \/ OutOfPolicy(lots, policy)

(* The policy limits a name; two lots of it may pass what one may not.     *)
NamesWithinLimit(advice, lots, policy) ==
    advice.axioms[3] = "pass" =>
        \A lot \in MarkedLots(lots) :
            ~ Beyond({other \in MarkedLots(lots) : other.security = lot.security}, lots, policy.limit)

(* The requests that reached the gate by the i-th.                         *)
Answered(requests, i) ==
    LET reached[n \in 0..i] == IF n = 0 THEN <<>>
                               ELSE IF requests[n].answer = "unreached" THEN reached[n - 1]
                               ELSE Append(reached[n - 1], requests[n])
    IN  reached[i]

(* A panel shows the last answers, its own first, each with its outcome.   *)
ShowsAnswers(requests, panels) ==
    \A i \in DOMAIN requests :
        LET answers == Answered(requests, i)
            newest(k) == answers[Len(answers) - k + 1]
        IN  panels[i] = [k \in 1..Min({Shown, MaxRecords, Len(answers)}) |->
                            [id |-> newest(k).id, stage |-> newest(k).answer]]
=============================================================================
