---------------------------- MODULE MCComputations ----------------------------
(***************************************************************************)
(* The pure computations over every small input: an initial state is one   *)
(* input of one computation, the one step computes its result.             *)
(***************************************************************************)
EXTENDS Reconciliation, WalkForward, ReportCollection, Messaging

CONSTANTS Computed, MaxRows, MaxQty, MaxDate, MaxLots, MaxSales, MaxRequests, NotYet

VARIABLES input, result

vars == <<input, result>>

-----------------------------------------------------------------------------
(* A custodian file and the books.                                         *)

Accounts == {"acct_1", "acct_2"}
Securities == {"sec_1", "sec_2"}
Keys == Accounts \X Securities
Dates == 1..MaxDate

CustodianRows == [account : Accounts, security : Securities, qty : 0..MaxQty, date : Dates]

(* Identifiers that are distinct, shared as an ISIN, or shared as a CUSIP. *)
Distinct == [s \in Securities |-> IF s = "sec_1" THEN "id_1" ELSE NoId]
Shared == [s \in Securities |-> "id_9"]
Identifiers == {[isin |-> i, cusip |-> c] : i, c \in {Distinct, Shared}}
                   \ {[isin |-> Shared, cusip |-> Shared]}

(* A parser returns at least one row (No position rows).                   *)
Files ==
    \E rows \in UNION {[1..n -> CustodianRows] : n \in 1..MaxRows},
       held \in SUBSET Keys, marks \in SUBSET Dates, ids \in Identifiers :
       \E lots \in [held -> 0..MaxQty] :
          input = [of |-> "file", rows |-> rows,
                   books |-> [lots |-> lots, marks |-> marks, ids |-> ids,
                              custodied |-> {"acct_1"}]]

-----------------------------------------------------------------------------
(* Lots and sales. Two funds replace each other, the third stands alone.   *)

Group == "fund_a" :> "group_1" @@ "fund_b" :> "group_1" @@ "bond" :> NoGroup

Today == 4

(* The names of the lots of a list are in no order.                        *)
LotId == <<3, 1, 4, 2>>

ASSUME BoundsAssumption == MaxLots \in DOMAIN LotId /\ MaxSales \in Nat

Lot(id, shape) == [f \in DOMAIN shape \cup {"id"} |-> IF f = "id" THEN id ELSE shape[f]]

NamedLots(shapes) == [i \in DOMAIN shapes |-> Lot(LotId[i], shapes[i])]

ChainShapes == [security : DOMAIN Group, acquired : 1..2]

(* Among the most lots every sale is at a loss.                            *)
Sales(n) ==
    [lot : {LotId[i] : i \in 1..n}, day : {1, 3},
     loss : IF n < MaxLots THEN BOOLEAN ELSE {TRUE}]

Chains ==
    \E n \in 2..MaxLots : \E shapes \in [1..n -> ChainShapes],
       sales \in UNION {[1..k -> Sales(n)] : k \in 1..MaxSales} :
          input = [of |-> "chains", lots |-> NamedLots(shapes), sales |-> sales]

(* Gains and values a lot can show, a lot worth nothing and one with no    *)
(* mark among them.                                                        *)
Priced == {<<-2, 1>>, <<-2, 2>>, <<-1, 1>>, <<-1, 0>>, <<1, 2>>, <<Unpriced, Unpriced>>}

Shape(security, acquired, restricted, priced) ==
    [security |-> security, acquired |-> acquired, restricted |-> restricted,
     gain |-> priced[1], value |-> priced[2]]

AnyShape == {Shape(s, a, r, p) : s \in DOMAIN Group, a \in {1, 2, 3, 5}, r \in BOOLEAN, p \in Priced}

OpenShape ==
    {shape \in AnyShape : shape.security # "fund_b" /\ shape.acquired <= 2 /\ ~ shape.restricted}

Harvests ==
    \E n \in 1..3 : \E shapes \in [1..n -> IF n < 3 THEN AnyShape ELSE OpenShape],
       policy \in {{}, {"bond"}} :
          input = [of |-> "harvest", lots |-> NamedLots(shapes), policy |-> policy]

-----------------------------------------------------------------------------
(* Evidence of three days, asked for on the second.                        *)

Days == 1..3

MarkKeys == {<<"sec_1", 1>>, <<"sec_1", 2>>, <<"sec_1", 3>>, <<"sec_2", 1>>, <<"sec_2", 3>>}

Marks(priced) == {[security |-> k[1], day |-> k[2], price |-> priced[k]] : k \in DOMAIN priced}

Holdings == {<<>>} \cup {<<[security |-> s, acquired |-> d, qty |-> 1, cost |-> c]>> :
                            s \in Securities, d \in {1, 3}, c \in {0, 1}}
                   \cup {<<[security |-> "sec_1", acquired |-> 1, qty |-> 2, cost |-> 1],
                           [security |-> "sec_2", acquired |-> 2, qty |-> 1, cost |-> 1]>>}

Snapshot(day, signal, calibration) ==
    [day |-> day, views |-> {[signal |-> signal, calibration |-> calibration]}]

Exports == {<<>>,
            <<Snapshot(3, "fx", "pass")>>,
            <<Snapshot(3, "fx", "pass"), Snapshot(1, "rates", "fail"), Snapshot(2, "fx", "pass")>>,
            <<Snapshot(1, "fx", "pass"), Snapshot(3, "crypto", "none")>>,
            <<Snapshot(2, "crypto", "none"), Snapshot(1, "fx", "pass")>>}

Realized == {{}, {[day |-> 1, amount |-> 1], [day |-> 3, amount |-> 2]}}

Evidence ==
    \E keys \in SUBSET MarkKeys : \E priced \in [keys -> 0..2],
       lots \in Holdings, realized \in Realized, signals \in Exports, asOf \in Days :
          input = [of |-> "evidence", asOf |-> asOf,
                   evidence |-> [marks |-> Marks(priced), lots |-> lots,
                                 realized |-> realized, signals |-> signals]]

-----------------------------------------------------------------------------
(* Rebalances: weights and bounds in thirds of the book. What a budget     *)
(* pays for, and what the projection takes off, stay whole numbers.        *)

Third == One \div 3

(* Weights are rounded down to whole parts of the book. The parts are fine:*)
(* the bounds are multiples of a step, and no book of a policy that is     *)
(* checked is worth more than that, so that rounding passes no bound.      *)
ASSUME GridAssumption ==
    /\ One \in Nat /\ DriftAlert \in Nat /\ One = 3 * Third
    /\ \E step \in 8..One : {Third, DriftAlert} \subseteq {m * step : m \in 0..One}

(* A third is whole in parts of a half, a quarter or a sixth, for what a   *)
(* budget pays for of the way to the optimum, and those in halves and      *)
(* thirds, for what the projection takes off up to three sleeves.          *)
ASSUME ShareAssumption == \E grain \in 1..One : One = 216 * grain

Sleeves == {"equity", "bonds", "cash"}

Bound(min, max) == [min |-> min * Third, max |-> max * Third, target |-> min * Third]
BoundsOf == {Bound(0, 1), Bound(1, 2), Bound(0, 3), Bound(2, 3)}

(* Held sleeves worth nothing, one or three.                               *)
Worths == {worth \in UNION {[held -> 0..3] : held \in SUBSET Sleeves} :
              TotalOf(worth) \in {0, 1, 3}}

Optima(universe, targets) ==
    {w \in [universe -> {0, Third, 2 * Third, One}] : InPolicy(w, targets)}

AnOptimum(universe, targets) ==
    IF Optima(universe, targets) = {} THEN {<<>>} ELSE Optima(universe, targets)

Rebalances ==
    \E worth \in Worths, targeted \in SUBSET Sleeves : \E targets \in [targeted -> BoundsOf],
       budget \in {NoBudget, Third, 2 * Third} :
       \E optimum \in AnOptimum(DOMAIN worth \cup targeted, targets) :
          input = [of |-> "rebalance", worth |-> worth, targets |-> targets,
                   budget |-> budget, optimum |-> optimum]

-----------------------------------------------------------------------------
(* Books to read and to advise on: a concentrated issuer, an illiquid bond *)
(* and cash, bought early, late or after the day itself.                   *)

SleeveOf ==
    [s \in {"stock", "bond", "reserve"} |->
        CASE s = "stock" -> "equity" [] s = "bond" -> "bonds" [] OTHER -> "cash"]
TierOf == [s \in DOMAIN SleeveOf |-> IF s = "bond" THEN 5 ELSE 1]
GroupOf == [s \in DOMAIN SleeveOf |-> NoGroup]

(* An equity is expected to earn ten percent a day, the others nothing.    *)
ExpectedReturn(sleeve, days) == IF sleeve = "equity" THEN 10 * days ELSE 0

ASSUME ExpectedAssumption ==
    \A sleeve \in Sleeves, days \in 0..Today : Expected(sleeve, days) \in Int

(* Value and cost: lost half, level, gained half, doubled, without a mark, *)
(* without a cost.                                                         *)
Worthwhile == {<<1, 2>>, <<2, 2>>, <<3, 2>>, <<4, 2>>}
Prices == Worthwhile \cup {<<Unpriced, 2>>, <<2, 0>>}

BookLot(account, security, price, acquired) ==
    [account |-> account, security |-> security, sleeve |-> SleeveOf[security],
     tier |-> TierOf[security], acquired |-> acquired, restricted |-> FALSE,
     value |-> price[1], cost |-> price[2],
     gain |-> IF price[1] = Unpriced THEN Unpriced ELSE price[1] - price[2]]

ReadShapes == {BookLot(a, s, p, d) : a \in Accounts, s \in DOMAIN SleeveOf, p \in Prices, d \in {1, 3, 5}}
StockShapes == {BookLot("acct_1", "stock", p, d) : p \in Worthwhile, d \in {1, 3}}

Fund(marked) == [id |-> "fund", marked |-> marked, calls |-> {2, 5}, unfunded |-> 1]

Readings ==
    \E n \in 1..3 : \E shapes \in [1..n -> IF n < 3 THEN ReadShapes ELSE StockShapes],
       funds \in {{}, {Fund(1)}, {Fund(5)}} :
          input = [of |-> "reading", lots |-> NamedLots(shapes), funds |-> funds]

AdviceShapes == {BookLot("acct_1", s, p, d) :
                    s \in {"stock", "bond"}, p \in Prices \cup {<<0, 1>>}, d \in {1, 5}}
                    \ {BookLot("acct_1", "bond", <<3, 2>>, d) : d \in {1, 5}}

Target(min, target, max) ==
    [min |-> min * Third, target |-> target * Third, max |-> max * Third]

Only(s, target) == [x \in {s} |-> target]
Both(s, target, t, other) == [x \in {s, t} |-> IF x = s THEN target ELSE other]

Policies ==
    {NoPolicy} \cup
    [targets : {<<>>, Only("equity", Target(1, 2, 3)),
                Both("equity", Target(2, 3, 3), "bonds", Target(0, 0, 1)),
                Both("equity", Target(0, 1, 1), "cash", Target(0, 0, 1)),
                Both("equity", Target(2, 2, 3), "bonds", Target(2, 2, 3))},
     limit : {One \div 2, One}, floor : {NoLimit, One \div 2}, budget : {NoBudget}, restricted : {{"bond"}}]

Verdict(two, four) == [i \in {1, 2, 4} |-> CASE i = 2 -> two [] i = 4 -> four [] OTHER -> "pass"]

Verdicts == {Verdict(two, four) : two \in {"pass", "warn", "breach"}, four \in {"pass", "breach"}}
                \ {Verdict("breach", "breach")}

OptimumFor(lots, policy) ==
    LET targets == IF policy = NoPolicy THEN <<>> ELSE policy.targets
    IN  CHOOSE w \in AnOptimum(DOMAIN WorthBySleeve(lots) \cup DOMAIN targets, targets) : TRUE

Consultations ==
    \E n \in 0..2 : \E shapes \in [1..n -> AdviceShapes], policy \in Policies,
       funds \in (IF n = 0 THEN {{}, {[nav |-> 1]}} ELSE {{[nav |-> 1]}}), risk \in Verdicts :
          input = [of |-> "advice", lots |-> NamedLots(shapes), funds |-> funds, policy |-> policy,
                   risk |-> risk, optimum |-> OptimumFor(NamedLots(shapes), policy)]

-----------------------------------------------------------------------------
(* Requests, some with the one id of the advisory page, 0, the others with *)
(* an id of their own.                                                     *)

Request(i, page, answer) ==
    [id |-> IF page THEN 0 ELSE i, answer |-> answer]

Answers == {"completed", "failed", "unreached"}

Requests ==
    \E n \in 1..MaxRequests : \E page \in [1..n -> BOOLEAN], answer \in [1..n -> Answers] :
        input = [of |-> "requests", list |-> [i \in 1..n |-> Request(i, page[i], answer[i])]]

-----------------------------------------------------------------------------
(* Portfolios of four parts in up to three slots, a class named twice among*)
(* them, and overlays that drop, add, tilt, and take too much.             *)

VolOf == "equity" :> 8 @@ "fixed_income" :> 3 @@ "fx" :> 4 @@ "alternatives" :> 12

(* In twentieths.                                                          *)
RhoOf(a, b) ==
    CASE a = b                            -> 20
      [] {a, b} = {"equity", "fixed_income"} -> -4
      [] {a, b} = {"equity", "fx"}           -> -3
      [] {a, b} = {"equity", "alternatives"} -> 11
      [] {a, b} = {"fixed_income", "fx"}     -> 4
      [] {a, b} = {"fixed_income", "alternatives"} -> 6
      [] OTHER                            -> 5

ShocksOf == "crash" :> ("equity" :> -38 @@ "fx" :> 8) @@ "inflation" :> ("fixed_income" :> -15)
DaysOf == <<1, 30, 180>>
ClassOf == "VTI" :> [class |-> "equity", tier |-> 1] @@ "BND" :> [class |-> "fixed_income", tier |-> 1]

Slot(class, weight, tier, duration, mode) ==
    [class |-> class, weight |-> weight, tier |-> tier, duration |-> duration, mode |-> mode]

SlotShapes ==
    {Slot("equity", 0, 1, NoDuration, "auto"), Slot("equity", 0, 2, 3, "measurable"),
     Slot("fixed_income", 0, 1, 2, "fermi"), Slot("fx", 0, 2, 7, "auto"),
     Slot("fx", 0, 1, 8, "auto"), Slot("alternatives", 0, 3, 7, "auto")}

ASSUME ClassesAssumption == {slot.class : slot \in SlotShapes} \subseteq DOMAIN Vol
                            /\ {"equity", "fixed_income", "fx"} \subseteq DOMAIN Vol

Weighings(n) == {w \in [1..n -> 0..4] : /\ TotalOf(w) = 4
                                        /\ n = 3 => \A i \in 1..n : w[i] \in 1..2}

Portfolios ==
    {[whole |-> 4, slots |-> [i \in DOMAIN p[1] |-> [p[1][i] EXCEPT !.weight = p[2][i]]]] :
        p \in UNION {[1..n -> SlotShapes] \X Weighings(n) : n \in 1..3}}

ToBonds == [class \in {"equity", "fixed_income"} |-> IF class = "equity" THEN -1 ELSE 1]

Overlays ==
    [drop : {{}, {"equity"}, {"equity", "fx"}},
     add : {<<>>, <<Slot("fx", 1, 1, 8, "auto")>>,
            <<Slot("equity", 1, 2, 5, "auto"), Slot("equity", 1, 3, 7, "fermi")>>},
     tilts : {<<>>, ToBonds, [class \in {"fx"} |-> -2], [class \in {"equity"} |-> 0]},
     pack : {NoPack, "crash", "1987"}]

Overlaid ==
    \E portfolio \in Portfolios, overlay \in Overlays \cup {NoOverlay} :
        input = [of |-> "overlay", portfolio |-> portfolio, overlay |-> overlay]

(* Every body under a few settings, a few bodies under all of them.        *)
Even == [whole |-> 4, slots |-> <<Slot("equity", 2, 1, NoDuration, "auto"), Slot("fx", 2, 1, NoDuration, "auto")>>]
Plain == [drop |-> {}, add |-> <<>>, tilts |-> <<>>, pack |-> NoPack]

Bodies ==
    [portfolio : {Missing, Bad, Even}, horizon : {"missing", "unread", "bad", "ok"},
     notional : {"unread", "bad", "ok"}, regime : {"unknown", "ok"},
     overlay : {Bad, NoOverlay, Plain, [Plain EXCEPT !.pack = "1987"],
                [Plain EXCEPT !.tilts = "equity" :> -3], [Plain EXCEPT !.drop = {"equity", "fx"}]}]

Raws == {NotUtf8, NotJson, NotObject} \cup Bodies

Settings ==
    [onError : BOOLEAN, email : BOOLEAN, to : BOOLEAN, host : {"", "blank", "set"},
     messaging : BOOLEAN, url : {"", "blank", "set"}]
Full == [onError |-> TRUE, email |-> TRUE, to |-> TRUE, host |-> "set", messaging |-> TRUE, url |-> "set"]

Sites == [database : {"external", "up", "down"}, data : {"writable", "read-only"},
          sandbox : {"writable"}, queue : {"none", "no client", "down", "up"}]

RiskRequests ==
    \E raw \in Raws, settings \in Settings, up \in SUBSET Channels, site \in Sites :
        /\ settings = Full \/ raw \in {NotUtf8, NotJson}
        /\ up = Channels \/ site.database = "up"
        /\ site.data = "writable" \/ raw = NotJson
        /\ site.queue = "none" \/ settings = Full
        /\ input = [of |-> "request", raw |-> raw, settings |-> settings, up |-> up, site |-> site]

Held == [ticker : {"VTI", "BND", "XYZ"}, value : {NoMark, 0, 10, 50}]

RiskPanels ==
    \E lots \in UNION {[1..n -> Held] : n \in 0..2}, funds \in {<<>>, <<0>>, <<90>>, <<50, 0>>},
       demo \in BOOLEAN, up \in SUBSET Channels :
        input = [of |-> "panel", lots |-> lots, funds |-> funds, demo |-> demo,
                 settings |-> Full, up |-> up]

-----------------------------------------------------------------------------
(* Reports, told apart by the book and the office's own records, or by the *)
(* bundles already on disk: a year has three months of two days.           *)

Statement(i, price, acquired) == BookLot("acct_1", IF i = 1 THEN "stock" ELSE "bond", price, acquired)

StatementPrices == Worthwhile \cup {<<Unpriced, 2>>, <<2, 0>>, <<0, 1>>}

Statements ==
    {[i \in DOMAIN prices |-> Lot(i, Statement(i, prices[i], acquired))] :
        prices \in UNION {[1..n -> StatementPrices] : n \in 0..2}, acquired \in {1, 5}}

ReportPolicies ==
    {NoPolicy} \cup [targets : {Only("equity", Target(1, 2, 3)), Only("bonds", Target(0, 0, 1))},
                     limit : {One \div 2, One}, floor : {NoLimit, One \div 2},
                     budget : {NoBudget}, restricted : {{}}]

Household(lots, policy) ==
    [lots |-> lots, funds |-> <<>>, policy |-> policy, requests |-> <<>>, breaks |-> FALSE,
     realized |-> 1, staged |-> 0, earlier |-> <<>>]

Lasting == <<Lot(1, Statement(1, <<3, 2>>, 1))>>
Standing == [targets |-> Both("equity", Target(1, 2, 3), "bonds", Target(0, 0, 1)),
             limit |-> One, floor |-> NoLimit, budget |-> NoBudget, restricted |-> {}]

Earlier(readable, asOf, generated, sleeve) ==
    [readable |-> readable, asOf |-> asOf, generated |-> generated,
     figures |-> [value |-> 1, unrealized |-> 0, realized |-> 0, after_tax |-> NotGiven],
     weights |-> Only(sleeve, One \div 2), comparison |-> NoComparison, attribution |-> <<>>,
     external |-> TRUE, pdf |-> FALSE]

(* A report is generated at time 9; a file may have been spoiled later.    *)
Now == 9

OnDisk ==
    {Earlier(r, d, g, s) : r \in BOOLEAN, d \in {1, 4, 5, 6, 7}, g \in {1, 2, Now + 1},
                           s \in {"equity", "bonds"}}
    \ {Earlier(TRUE, d, Now + 1, s) : d \in {1, 4, 5, 6, 7}, s \in {"equity", "bonds"}}

Reports ==
    \/ \E lots \in Statements, policy \in ReportPolicies, funds \in {<<>>, <<1>>},
          statuses \in UNION {[1..n -> {"pending", "approved"}] : n \in {0, 1, 3}}, breaks \in BOOLEAN :
          /\ statuses = <<>> \/ Len(lots) < 2
          /\ input = [of |-> "report", asOf |-> Today,
                      household |-> [Household(lots, policy) EXCEPT
                          !.funds = funds, !.requests = statuses, !.breaks = breaks]]
    \/ \E earlier \in UNION {[1..n -> OnDisk] : n \in 1..2}, asOf \in {5, 6, 7, 8, 13} :
          /\ \A i, j \in DOMAIN earlier : i # j => earlier[i].generated # earlier[j].generated
          /\ input = [of |-> "report", asOf |-> asOf,
                      household |-> [Household(Lasting, Standing) EXCEPT !.earlier = earlier]]

-----------------------------------------------------------------------------
(* Messages, of which any part may raise, and series of up to four events, *)
(* one kind of which nobody may listen to.                                 *)

Messages ==
    \E op \in Registered \cup {"no.such.op"}, typed, session \in BOOLEAN,
       failing \in SUBSET (ToSet(Legs) \cup {"ledger.positions", "orders.stage", Scoring}) :
        input = [of |-> "message",
                 message |-> [op |-> op, typed |-> typed, correlation |-> "workflow"],
                 context |-> [session |-> session, correlation |-> "none", failing |-> failing]]

Listening == UNION {[1..n -> BOOLEAN] : n \in 0..3}

Subscribed(filled, opened) ==
    [op \in {"order.filled", "break.opened"} |-> IF op = "order.filled" THEN filled ELSE opened]

Emissions ==
    \E n \in 1..4, filled \in Listening, opened \in Listening :
       \E ops \in [1..n -> {"order.filled", "break.opened", "ingest.completed"}] :
          input = [of |-> "events", events |-> [i \in 1..n |-> [op |-> ops[i], id |-> i]],
                   subscribers |-> Subscribed(filled, opened)]

-----------------------------------------------------------------------------
Given ==
    \/ "file" \in Computed /\ Files
    \/ "chains" \in Computed /\ Chains
    \/ "harvest" \in Computed /\ Harvests
    \/ "evidence" \in Computed /\ Evidence
    \/ "rebalance" \in Computed /\ Rebalances
    \/ "reading" \in Computed /\ Readings
    \/ "advice" \in Computed /\ Consultations
    \/ "requests" \in Computed /\ Requests
    \/ "overlay" \in Computed /\ Overlaid
    \/ "request" \in Computed /\ RiskRequests
    \/ "panel" \in Computed /\ RiskPanels
    \/ "report" \in Computed /\ Reports
    \/ "message" \in Computed /\ Messages
    \/ "events" \in Computed /\ Emissions

Init == Given /\ result = NotYet

Reconcile ==
    /\ input.of = "file"
    /\ result' = Breaks(input.rows, input.books)

Assign ==
    /\ input.of = "chains"
    /\ result' = AssignChains(input.lots, Group, input.sales)

Harvest ==
    /\ input.of = "harvest"
    /\ result' = [all |-> TaxAwareOptimizer(input.lots, Group, input.policy, Today),
                  mip |-> MipOptimizer(input.lots, Group, input.policy, Today)]

Read ==
    /\ input.of = "evidence"
    /\ result' = [report |-> PerformanceReport(input.evidence, input.asOf),
                  stats |-> StatsDaily(input.evidence, input.asOf)]

Balance ==
    /\ input.of = "rebalance"
    /\ result' = RunMvRebalance(input.worth, input.targets, input.budget, input.optimum)

Analyse ==
    /\ input.of = "reading"
    /\ result' = [panel |-> Watch(input.lots, Today),
                  flags |-> FlagNonPerforming(input.lots, input.funds, One \div 2, Today)]

Consult ==
    /\ input.of = "advice"
    /\ result' = Advise(input.lots, input.funds, input.policy, input.risk, input.optimum,
                        GroupOf, Today)

Answer ==
    /\ input.of = "requests"
    /\ result' = Panels(input.list)

Evaluate ==
    /\ input.of = "overlay"
    /\ result' = EvaluateRisk(input.portfolio, input.overlay)

Reply ==
    /\ input.of = "request"
    /\ LET outcome == EvaluateRiskJson(input.raw, input.settings, input.up)
       IN  result' = [reply |-> outcome.reply, sent |-> outcome.sent,
                      checks |-> RunInfraChecks(input.site, input.settings)]

ShowRisk ==
    /\ input.of = "panel"
    /\ result' = LoadRiskDashboard(input.lots, input.funds, input.demo, input.settings, input.up)

Write ==
    /\ input.of = "report"
    /\ result' = BuildReport(input.household, input.asOf, Now)

Ask ==
    /\ input.of = "message"
    /\ result' = DispatchMessage(input.context, input.message)

Tell ==
    /\ input.of = "events"
    /\ result' = EmitAll(input.events, input.subscribers)

Next ==
    /\ result = NotYet
    /\ UNCHANGED input
    /\ Reconcile \/ Assign \/ Harvest \/ Read \/ Balance \/ Analyse \/ Consult \/ Answer
       \/ Evaluate \/ Reply \/ ShowRisk \/ Write \/ Ask \/ Tell

Spec == Init /\ [][Next]_vars

Done(computation) == result # NotYet /\ input.of = computation

-----------------------------------------------------------------------------
(* A file that names no position twice is quiet exactly when it and the    *)
(* books agree on every position of the custodian, on the date and on what *)
(* each identifier means; and its quantity breaks name each differing      *)
(* position and no other: none is missed, invented, or taken from another  *)
(* custodian (reconcile_ingest).                                           *)
BreaksAreTheDifferences ==
    Done("file") /\ NoDuplicates(input.rows)
        => /\ result = {} <=> Agree(input.rows, input.books)
           /\ Named(result) = Differing(input.rows, input.books)

(* The chains assign_wash_sale_chain_ids builds sale by sale are the       *)
(* closure of what linked_lot_ids_for_sell says of each sale, in whatever  *)
(* order lots and sales come.                                              *)
ChainsAreClosure ==
    Done("chains") => ClosureOfLinks(result, input.lots, Group, input.sales)

(* The two wash-sale rules agree: selling what a solver proposes ties no   *)
(* two lots into a chain. A refused book is refused by both solvers.       *)
HarvestsAreUnlinked ==
    Done("harvest") =>
        \/ result.all = Refused /\ result.mip = Refused
        \/ \A trades \in {result.all.trades, result.mip.trades} :
              LET chains == AssignChains(input.lots, Group, AsSales(trades, Today))
              IN  \A id \in LotIds(input.lots) : chains[id] = 0

(* The MIP stub keeps the best harvests of the heuristic, as many as it    *)
(* may, and each is the harvest the heuristic would have made.             *)
MipKeepsTheBest ==
    Done("harvest") /\ result.all # Refused => BestOf(result.mip, result.all, Today)

(* Nothing is passed over in silence: a lot with a loss is sold, or a      *)
(* binding constraint names it. And the saving the solver claims is what   *)
(* the tax report puts on the same sales, with the surtax or without.      *)
HarvestIsAccounted ==
    Done("harvest") /\ result.all # Refused =>
        /\ Accounted(result.all, input.lots)
        /\ \A niit \in BOOLEAN : result.all.tax = ReportedTax(result.all.trades, Today, niit)

(* No reader peeks: what it says of a day is what it would have said with  *)
(* the marks and snapshots of that day alone, or it raises.                *)
NoPeeking ==
    Done("evidence") =>
        /\ Blind(Positions, input.evidence, input.asOf)
        /\ Blind(StatsDaily, input.evidence, input.asOf)
        /\ Blind(LoadSnapshot, input.evidence, input.asOf)
        /\ Blind(LAMBDA e, day : RunBacktest(e, 1, day), input.evidence, input.asOf)

(* The advised target sums to the whole book inside every bound of the     *)
(* policy. From a book inside its policy each sleeve moves towards the     *)
(* optimum and not past it, and the turnover is the budget or less. It is  *)
(* refused when there is no value or no target could be, and only then.    *)
RebalanceKeepsPolicy ==
    Done("rebalance") =>
        LET universe == DOMAIN input.worth \cup DOMAIN input.targets
        IN  IF TotalOf(input.worth) = 0 \/ Optima(universe, input.targets) = {}
            THEN result = Infeasible
            ELSE result # Infeasible
                 /\ KeepsPolicy(result, input.targets, input.optimum, input.budget)

(* The watch panel lists no breach that is none, and every one but a       *)
(* residual; the review's first checkpoint is a breach exactly when some   *)
(* lot has one; a concentrated lot flagged as not performing is on watch;  *)
(* and only a lot that cannot be attributed takes the panel down.          *)
PanelsAgree ==
    Done("reading") => ReadingsAgree(result.panel, result.flags, input.lots, Today)

(* A request is answered exactly when it can be, and its headline is a     *)
(* breach exactly when the risk engine or the book is out of policy.       *)
HeadlineIsHonest ==
    Done("advice") =>
        /\ result = Failed <=> ~ Advisable(input.lots, input.policy, Today)
        /\ result # Failed => Honest(result, input.lots, input.policy, input.risk)

(* The register tells each panel the last answers, its own first, also     *)
(* when requests share an id and when the oldest records have dropped out. *)
RegisterTellsAnswers ==
    Done("requests") => ShowsAnswers(input.list, result)

(* An overlay proposes a portfolio or is rejected; what it drops is gone,  *)
(* the levels of both reports add up, and the deltas go from the whole of  *)
(* the one to the whole of the other (evaluate_risk).                      *)
OverlaysAddUp ==
    Done("overlay") =>
        IF input.overlay = NoOverlay
        THEN NoClassTwice(input.portfolio.slots) => LevelsAddUp(result.report)
        ELSE IF \/ input.overlay.pack \notin DOMAIN Shocks \cup {NoPack}
                \/ ApplyOverlay(Without(input.portfolio, input.overlay.drop),
                                [input.overlay EXCEPT !.drop = {}]) = Rejected
        THEN result = Rejected
        ELSE OverlayIsSound(result, input.portfolio, input.overlay)

(* The health check foretells the alerts: a request or a panel that fails  *)
(* sends and replies as its verdict on the configuration says; one that    *)
(* can be evaluated sends nothing; and no verdict on alerts takes the      *)
(* health page down.                                                       *)
AlertsAreForetold ==
    /\ Done("request") =>
          /\ result.reply = 200 <=> Evaluable(input.raw)
          /\ Evaluable(input.raw) => result.sent = {}
          /\ input.raw = NotUtf8 => result.reply = Lost /\ result.sent = {}
          /\ ~ Evaluable(input.raw) /\ input.raw # NotUtf8 =>
                Foretold(result.checks.alerts, result, input.settings, input.up)
          /\ HealthStatus(result.checks) = HealthStatus([result.checks EXCEPT !.alerts = "skipped"])
    /\ Done("panel") =>
          /\ result.reply = "report" <=> Reportable(input.lots, input.funds, input.demo)
          /\ result.reply # "report" =>
                Foretold(CheckRiskNotifyConfig(input.settings), result, input.settings, input.up)

(* A report is written exactly when the book can be reported, and it is    *)
(* candid: about what it is compared with, its two packs with each other   *)
(* and with the policy, and the panel with the bundle (build_report).      *)
ReportIsCandid ==
    Done("report") =>
        /\ "bundle" \in DOMAIN result <=> Collectable(input.household, input.asOf)
        /\ Collectable(input.household, input.asOf) =>
              /\ ComparisonIsCandid(result, input.household, input.asOf)
              /\ PacksAreCandid(result, input.household)
              /\ PanelIsCandid(result, input.household, Now)

(* A failure stays where it belongs: an answer tells where it failed and   *)
(* of which workflow, an evaluation needs no transaction and touches       *)
(* nothing that has one, and a subscriber that raises keeps no event from  *)
(* the others nor from the emitter (dispatch_message, emit_event).         *)
MessagesAreContained ==
    /\ Done("message") => /\ TellsWhereItFailed(result, input.context, input.message)
                          /\ IsPure(input.context, input.message)
    /\ Done("events") => Contained(result, input.events, input.subscribers)

(* The limit is the most one name may weigh (decision/ips/__init__.py): a  *)
(* concentration axiom that passes means no name weighs more.              *)
NoNameIsOverLimit ==
    Done("advice") /\ result # Failed => NamesWithinLimit(result, input.lots, input.policy)

(* The performance report as of a day is what was known on it (a           *)
(* PerformanceError is a walk-forward violation, its docstring says).      *)
ReportIsBlind ==
    Done("evidence") => Blind(PerformanceReport, input.evidence, input.asOf)
=============================================================================
