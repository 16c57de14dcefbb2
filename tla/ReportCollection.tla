---------------------------- MODULE ReportCollection ----------------------------
(***************************************************************************)
(* What a household's report says: the bundle that is collected from the   *)
(* planes, its two renderings, and the dashboard panel that shows the      *)
(* latest bundle on disk.                                                  *)
(*                                                                         *)
(* A household is a record                                                 *)
(*   lots, funds   its lots (those of Advisory) and the values of its funds*)
(*   policy        its policy, or NoPolicy                                 *)
(*   requests      the status of its approval requests, newest first       *)
(*   realized      what its sales of the year gained                       *)
(*   breaks        whether any reconciliation break is open                *)
(*   staged        its staged orders                                       *)
(*   earlier       the bundles already on disk: [readable, asOf, generated,*)
(*                 figures, weights, comparison, external, pdf]. Of one    *)
(*                 that cannot be read, generated is the time of its file. *)
(* Days count on through months of MonthDays and years of YearMonths.      *)
(***************************************************************************)
EXTENDS Advisory, RiskDesk

CONSTANTS
    MonthDays, YearMonths,
    Newest,         \* requests the collector looks at
    NotGiven,       \* a figure without a value: n/a
    NoComparison, Uncollected

(* Years have months and months days; what is not given is no number.      *)
ASSUME CalendarAssumption ==
    MonthDays \in Nat \ {0} /\ YearMonths \in Nat \ {0} /\ NotGiven \notin Int

(* The lots with a value, in their order.                                  *)
Valued(lots) ==
    LET places == {i \in DOMAIN lots : lots[i].value # Unpriced /\ lots[i].value > 0}
    IN  Ranked(lots, places, Stably(places, LAMBDA i, j : FALSE))

-----------------------------------------------------------------------------
(* The earlier bundle and the comparison with it.                          *)

FindPriorBundle(bundles, asOf) ==
    LET before == {i \in DOMAIN bundles : bundles[i].readable /\ bundles[i].asOf < asOf}
    IN  IF before = {} THEN NoComparison
        ELSE bundles[CHOOSE i \in before : \A j \in before :
                \/ bundles[j].asOf < bundles[i].asOf
                \/ bundles[j].asOf = bundles[i].asOf /\ bundles[j].generated <= bundles[i].generated]

YearOf(day) == day \div (MonthDays * YearMonths)
MonthOf(day) == (day \div MonthDays) % YearMonths

(* Mutant: the months are compared within the year.                        *)
MonthsBetween_SameYear(earlier, later) == MonthOf(later) - MonthOf(earlier)

MonthsBetween(earlier, later) ==
    (YearOf(later) - YearOf(earlier)) * YearMonths + MonthOf(later) - MonthOf(earlier)

Delta(current, prior) ==
    [prior |-> prior,
     change |-> IF current = NotGiven \/ prior = NotGiven THEN NotGiven ELSE current - prior]

Deltas(figures, prior) ==
    [label \in DOMAIN figures |->
        Delta(figures[label], IF label \in DOMAIN prior THEN prior[label] ELSE NotGiven)]

BuildComparison(prior, asOf, figures, weights) ==
    IF prior = NoComparison THEN NoComparison
    ELSE [asOf |-> prior.asOf, adjacent |-> MonthsBetween(prior.asOf, asOf) = 1,
          performance |-> Deltas(figures, prior.figures), drift |-> Deltas(weights, prior.weights)]

-----------------------------------------------------------------------------
(* The bundle.                                                             *)

PendingApprovalCount(requests) ==
    Cardinality({i \in DOMAIN requests : i <= Newest /\ requests[i] = "pending"})

(* Two scenarios, the second with the surtax.                              *)
CollectTaxScenarios(lots, asOf) ==
    [i \in 1..2 |-> [tax |-> ReportedTax(lots, asOf, i = 2),
                     delta |-> ReportedTax(lots, asOf, i = 2) - ReportedTax(lots, asOf, FALSE)]]

Limitations(household, scenarios, pending, attributed, comparison) ==
    {said \in {"zero tax", "breaks", "pending", "not attributed", "first report", "gap"} :
        \/ said = "zero tax" /\ \A i \in DOMAIN scenarios : scenarios[i].delta = 0
        \/ said = "breaks" /\ household.breaks
        \/ said = "pending" /\ pending > 0
        \/ said = "not attributed" /\ ~ attributed
        \/ said = "first report" /\ comparison = NoComparison
        \/ said = "gap" /\ comparison # NoComparison /\ ~ comparison.adjacent}

CollectAttribution(lots, asOf) ==
    IF Valued(lots) = <<>> THEN <<>> ELSE Attribution(Valued(lots), asOf)

(* build_household_performance_report; the return in tenths of a percent.  *)
PerformanceFigures(lots, realized) ==
    LET value == TotalOf([i \in DOMAIN lots |-> lots[i].value])
        cost == TotalOf([i \in DOMAIN lots |-> lots[i].cost])
        drag == Ltcg * IF realized > 0 THEN realized ELSE 0
    IN  [value |-> value, unrealized |-> value - cost, realized |-> realized,
         after_tax |-> IF cost > 0 THEN (1000 * (value - cost) - 100 * drag) \div cost
                       ELSE NotGiven]

CollectRiskHeadline(lots, funds) ==
    LET portfolio == PortfolioOf([i \in DOMAIN lots |->
            [ticker |-> lots[i].security,
             value |-> IF lots[i].value = Unpriced THEN NoMark ELSE lots[i].value]], funds)
    IN  IF portfolio = Rejected THEN Rejected ELSE EvaluateRisk(portfolio, NoOverlay)

CollectReportBundle(household, asOf, now) ==
    LET lots == household.lots
        unmeasured == \E i \in DOMAIN lots : asOf < lots[i].acquired \/ lots[i].value = Unpriced
        figures == PerformanceFigures(lots, household.realized)
        tax == CollectTaxScenarios(lots, asOf)
        check == PolicyCheck(lots, household.policy)
        weights == Weights(lots, household.policy.targets)
        attribution == CollectAttribution(lots, asOf)
        risk == CollectRiskHeadline(lots, household.funds)
        pending == PendingApprovalCount(household.requests)
        comparison == BuildComparison(FindPriorBundle(household.earlier, asOf), asOf, figures, weights)
    IN  IF lots = <<>> \/ household.policy = NoPolicy \/ unmeasured THEN Uncollected
        ELSE IF attribution = NotAttributed \/ risk = Rejected THEN Uncollected
        ELSE [readable |-> TRUE, asOf |-> asOf, generated |-> now,
              figures |-> figures, weights |-> weights, tax |-> tax, risk |-> risk,
              alerts |-> check.alerts, concentration |-> check.concentration,
              attribution |-> attribution, comparison |-> comparison,
              pending |-> pending, breaks |-> household.breaks, staged |-> household.staged,
              limitations |-> Limitations(household, tax, pending, attribution # <<>>, comparison),
              external |-> TRUE, pdf |-> FALSE]

-----------------------------------------------------------------------------
(* The renderings, by section.                                             *)

IpsInBand(bundle) == bundle.alerts = {} /\ bundle.concentration = {}

PolicyNote(bundle) == IF IpsInBand(bundle) THEN "within" ELSE "breaches"

PriorCells(bundle, part, labels) ==
    [label \in labels |->
        IF bundle.comparison = NoComparison THEN <<NotGiven, NotGiven>>
        ELSE LET delta == bundle.comparison[part][label]
             IN  IF delta.prior = NotGiven THEN <<NotGiven, NotGiven>>
                 ELSE <<delta.prior, delta.change>>]

PerformanceTable(bundle) == PriorCells(bundle, "performance", DOMAIN bundle.figures)

ExternalBluf(bundle) == [value |-> bundle.figures.value, policy |-> PolicyNote(bundle)]

InternalHeadline(bundle) ==
    [value |-> bundle.figures.value, alerts |-> Cardinality(bundle.alerts),
     concentration |-> Cardinality(bundle.concentration),
     pending |-> bundle.pending, breaks |-> bundle.breaks]

ExhibitBExternal(bundle) ==
    IF IpsInBand(bundle) THEN <<>> ELSE <<bundle.alerts, bundle.concentration>>

ExhibitBInternal(bundle) ==
    [rows |-> PriorCells(bundle, "drift", DOMAIN bundle.weights),
     alerts |-> bundle.alerts, concentration |-> bundle.concentration]

TaxTable(bundle) == bundle.tax

ExhibitDAttribution(bundle) == bundle.attribution

(* The three classes that contribute most, in a stable order.              *)
TopVarianceClasses(shares) ==
    LET order == SetToSeq(DOMAIN shares)
        stronger(i, j) == \/ shares[order[i]] > shares[order[j]]
                          \/ shares[order[i]] = shares[order[j]] /\ i < j
    IN  {order[i] : i \in {i \in DOMAIN order :
                             Cardinality({j \in DOMAIN order : stronger(j, i)}) < 3}}

ExhibitERisk(bundle) ==
    [variance |-> bundle.risk.report.variance,
     top |-> TopVarianceClasses(bundle.risk.report.by_class)]

ExecutionSection(bundle) ==
    [pending |-> bundle.pending, staged |-> bundle.staged, breaks |-> bundle.breaks]

RenderExternal(bundle) ==
    [bluf |-> ExternalBluf(bundle), a |-> PerformanceTable(bundle), b |-> ExhibitBExternal(bundle),
     c |-> TaxTable(bundle), limitations |-> bundle.limitations]

RenderInternal(bundle) ==
    [headline |-> InternalHeadline(bundle), a |-> PerformanceTable(bundle),
     b |-> ExhibitBInternal(bundle), c |-> TaxTable(bundle), d |-> ExhibitDAttribution(bundle),
     e |-> ExhibitERisk(bundle), execution |-> ExecutionSection(bundle),
     limitations |-> bundle.limitations]

-----------------------------------------------------------------------------
(* The panel: the bundle generated last.                                   *)

LatestBundle(bundles) ==
    bundles[CHOOSE i \in DOMAIN bundles : \A j \in DOMAIN bundles :
                bundles[j].generated <= bundles[i].generated]

ComparisonSummary(comparison) ==
    IF comparison = NoComparison THEN "first report"
    ELSE IF comparison.adjacent THEN "adjacent" ELSE "non-adjacent"

LoadReportWriterPanel(bundles) ==
    IF bundles = <<>> THEN [status |-> "empty"]
    ELSE LET bundle == LatestBundle(bundles)
         IN  IF ~ bundle.readable \/ ~ bundle.external THEN [status |-> "error"]
             ELSE [status |-> "live", asOf |-> bundle.asOf,
                   comparison |-> ComparisonSummary(bundle.comparison),
                   attributed |-> bundle.attribution # <<>>,
                   delivery |-> IF bundle.pdf THEN "delivered" ELSE "awaiting"]

(* A report that is collected is written and rendered; the panel loads.    *)
WriteReports(earlier, bundle) ==
    IF bundle = Uncollected THEN [panel |-> LoadReportWriterPanel(earlier)]
    ELSE [bundle |-> bundle, external |-> RenderExternal(bundle),
          internal |-> RenderInternal(bundle),
          panel |-> LoadReportWriterPanel(Append(earlier, bundle))]

BuildReport(household, asOf, now) ==
    WriteReports(household.earlier, CollectReportBundle(household, asOf, now))

-----------------------------------------------------------------------------
(* What they are for.                                                      *)

(* The first days of the months that begin after one day up to another.    *)
MonthsBegun(earlier, later) == {d \in (earlier + 1)..later : d % MonthDays = 0}

Collectable(household, asOf) ==
    /\ household.lots # <<>> /\ household.policy # NoPolicy
    /\ \A i \in DOMAIN household.lots :
          LET lot == household.lots[i]
          IN  /\ lot.acquired <= asOf /\ lot.value # Unpriced
              /\ lot.value > 0 => lot.cost > 0
    /\ \/ \E i \in DOMAIN household.lots : household.lots[i].value > 0
       \/ \E i \in DOMAIN household.funds : household.funds[i] > 0

ReadableBefore(household, asOf) ==
    {i \in DOMAIN household.earlier : household.earlier[i].readable /\ household.earlier[i].asOf < asOf}

(* The report says what it is compared with: it calls itself the first     *)
(* when no earlier one can be read, admits a gap unless exactly one month  *)
(* began in between, and shows no change for a figure the earlier lacks.   *)
ComparisonIsCandid(report, household, asOf) ==
    LET before == ReadableBefore(household, asOf)
        lastDay == Max({household.earlier[i].asOf : i \in before})
        ofDay == {i \in before : household.earlier[i].asOf = lastDay}
        lastOfDay == {i \in ofDay : \A j \in ofDay :
                         household.earlier[j].generated <= household.earlier[i].generated}
        lacked(label) == \E i \in lastOfDay : label \notin DOMAIN household.earlier[i].weights
    IN  /\ "first report" \in report.bundle.limitations <=> before = {}
        /\ before # {} =>
              /\ "gap" \in report.bundle.limitations
                    <=> Cardinality(MonthsBegun(lastDay, asOf)) # 1
              /\ \A sleeve \in DOMAIN report.internal.b.rows :
                    report.internal.b.rows[sleeve] = <<NotGiven, NotGiven>> <=> lacked(sleeve)
              /\ \A sleeve \in DOMAIN report.internal.b.rows :
                    LET cells == report.internal.b.rows[sleeve]
                    IN  cells[1] # NotGiven => cells[1] + cells[2] = report.bundle.weights[sleeve]

(* Both packs carry the same limitations; what the client is told of the   *)
(* policy is what the advisor is shown; a pending request among the newest *)
(* is confessed; a pack without attribution says so; the tax deltas are    *)
(* called stubs when no lot has a gain, and only then.                     *)
PacksAreCandid(report, household) ==
    /\ report.external.limitations = report.internal.limitations
    /\ WorthOf(MarkedLots(household.lots)) > 0 =>
          (report.external.bluf.policy = "within" <=> ~ OutOfPolicy(household.lots, household.policy))
    /\ report.external.bluf.policy = "within" <=> report.internal.headline.alerts + report.internal.headline.concentration = 0
    /\ "pending" \in report.external.limitations <=>
          \E i \in DOMAIN household.requests : household.requests[i] = "pending" /\ i <= Newest
    /\ "not attributed" \in report.external.limitations <=> report.internal.d = <<>>
    /\ "zero tax" \in report.external.limitations <=> \A lot \in ToSet(household.lots) : lot.gain <= 0
    /\ household.breaks => "breaks" \in report.external.limitations

(* The panel tells the same story as the bundle it shows, which is the one *)
(* just written unless a file that cannot be read is newer.                *)
PanelIsCandid(report, household, now) ==
    LET newer == {i \in DOMAIN household.earlier : household.earlier[i].generated > now}
    IN  newer = {} =>
          /\ report.panel.status = "live" /\ report.panel.delivery = "awaiting"
          /\ report.panel.asOf = report.bundle.asOf
          /\ report.panel.attributed <=> "not attributed" \notin report.bundle.limitations
          /\ report.panel.comparison = "first report" <=> "first report" \in report.bundle.limitations
          /\ report.panel.comparison = "non-adjacent" <=> "gap" \in report.bundle.limitations
=============================================================================
