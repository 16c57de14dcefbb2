-------------------------------- MODULE RiskDesk --------------------------------
(***************************************************************************)
(* The surfaces of the risk engine: POST /api/risk, the risk panel of the  *)
(* dashboard, the alerts a failure sends and the health check that says    *)
(* whether alerts can be sent.                                             *)
(*                                                                         *)
(* A body that parses is a record                                          *)
(*   portfolio  Missing, Bad or a portfolio                                *)
(*   horizon    "missing", "unread" (no number), "bad" or "ok"             *)
(*   notional   "unread", "bad" or "ok"                                    *)
(*   regime     "unknown" or "ok"                                          *)
(*   overlay    Bad, NoOverlay or an overlay                               *)
(* Settings are a record [onError, email, to, host, messaging, url]: to    *)
(* says whether there are recipients, host and url are "", "blank" or      *)
(* "set". Up is the set of channels whose server answers.                  *)
(***************************************************************************)
EXTENDS RiskEngine

CONSTANTS
    TickerClass,    \* the asset class and tier of a known security
    NotUtf8, NotJson, NotObject, Missing, Bad,
    NoMark,         \* no mark prices the lot
    Lost            \* the handler raises and no reply is sent

ASSUME DeskAssumption ==
    /\ Short \in Int /\ Long \in Int /\ NoMark \notin Int
    /\ {"equity", "fixed_income", "alternatives"} \subseteq DOMAIN Vol
    /\ \A ticker \in DOMAIN TickerClass :
          TickerClass[ticker].class \in DOMAIN Vol /\ TickerClass[ticker].tier \in 1..3
    /\ Lost \notin {200, 400, 422, 500} /\ Lost \notin {"report", "error"}
    /\ NotUtf8 \notin {NotJson, NotObject}
    /\ NoOverlay \notin [drop : {{}}, add : {<<>>}, pack : {NoPack},
                         tilts : [{"equity", "fixed_income"} -> Int]]

-----------------------------------------------------------------------------
(* Alerts.                                                                 *)

Channels == {"email", "messaging"}

Enabled(settings) ==
    {channel \in Channels : \/ channel = "email" /\ settings.email
                            \/ channel = "messaging" /\ settings.messaging}

(* Mutant: a host of blanks counts as a host.                              *)
NotifyConfigGaps_Unstripped(settings) ==
    IF ~ settings.onError THEN {}
    ELSE {channel \in Enabled(settings) :
            \/ channel = "email" /\ (~ settings.to \/ settings.host = "")
            \/ channel = "messaging" /\ settings.url \in {"", "blank"}}

NotifyConfigGaps(settings) ==
    IF ~ settings.onError THEN {}
    ELSE {channel \in Enabled(settings) :
            \/ channel = "email" /\ (~ settings.to \/ settings.host \in {"", "blank"})
            \/ channel = "messaging" /\ settings.url \in {"", "blank"}}

(* Mail is tried with a host of blanks, a hook of blanks is skipped.       *)
Tried(settings) ==
    {channel \in Enabled(settings) :
        \/ channel = "email" /\ settings.to /\ settings.host # ""
        \/ channel = "messaging" /\ settings.url = "set"}

Delivers(channel, settings, up) ==
    channel \in up /\ (channel = "email" => settings.host = "set")

(* Mail goes first; when it fails, messaging is not reached.               *)
DispatchRiskAlert(settings, up) ==
    LET tried == IF settings.onError THEN Tried(settings) ELSE {}
        mailFails == "email" \in tried /\ ~ Delivers("email", settings, up)
        delivered == {channel \in tried : Delivers(channel, settings, up)}
    IN  [sent |-> IF mailFails THEN {} ELSE delivered,
         raised |-> \E channel \in tried : ~ Delivers(channel, settings, up)]

(* The failure is logged and alerted; an alert that raises takes the place *)
(* of what the caller was about to answer.                                 *)
RecordRiskFailure(answer, settings, up) ==
    LET alert == DispatchRiskAlert(settings, up)
    IN  [reply |-> IF alert.raised THEN Lost ELSE answer, sent |-> alert.sent]

-----------------------------------------------------------------------------
(* POST /api/risk.                                                         *)

(* The status of the first fault parse_risk_request meets, 200 without. A  *)
(* number that cannot be read is no ValueError.                            *)
ParseRiskRequest(body) ==
    CASE body.portfolio = Missing \/ body.horizon = "missing" -> 400
      [] OTHER ->
         IF body.portfolio = Bad THEN 422
         ELSE IF body.horizon # "ok" THEN IF body.horizon = "unread" THEN 500 ELSE 422
         ELSE IF body.notional = "unread" THEN 500
         ELSE IF body.regime = "unknown" THEN 400
         ELSE IF body.overlay = Bad \/ body.notional = "bad" THEN 422
         ELSE 200

EvaluateRiskHttp(body) ==
    IF ParseRiskRequest(body) # 200 THEN ParseRiskRequest(body)
    ELSE IF EvaluateRisk(body.portfolio, body.overlay) = Rejected THEN 422
    ELSE 200

RespondWith(status, settings, up) ==
    IF status = 200 THEN [reply |-> 200, sent |-> {}] ELSE RecordRiskFailure(status, settings, up)

EvaluateRiskJson(raw, settings, up) ==
    CASE raw = NotUtf8 -> [reply |-> Lost, sent |-> {}]
      [] raw \in {NotJson, NotObject} -> RecordRiskFailure(400, settings, up)
      [] OTHER -> RespondWith(EvaluateRiskHttp(raw), settings, up)

-----------------------------------------------------------------------------
(* The risk panel: the book of a household as a portfolio.                 *)

(* build_portfolio_from_holdings: what is worth something, by class; a     *)
(* class is as liquid as the most liquid of its holdings.                  *)
PortfolioOf(lots, funds) ==
    LET worth == {i \in DOMAIN lots : lots[i].value # NoMark /\ lots[i].value > 0}
        classOf(i) == IF lots[i].ticker \in DOMAIN TickerClass
                      THEN TickerClass[lots[i].ticker] ELSE [class |-> "equity", tier |-> 1]
        alternative == TotalOf([i \in {i \in DOMAIN funds : funds[i] > 0} |-> funds[i]])
        classes == {classOf(i).class : i \in worth}
                   \cup IF alternative > 0 THEN {"alternatives"} ELSE {}
        order == SetToSeq(classes)
        held(class) == {i \in worth : classOf(i).class = class}
        weight(class) == TotalOf([i \in held(class) |-> lots[i].value])
                         + IF class = "alternatives" THEN alternative ELSE 0
        duration(class) == CASE class = "fixed_income" -> Short + 1
                             [] class = "alternatives" -> Long
                             [] OTHER -> NoDuration
        slot(class) == [class |-> class, weight |-> weight(class),
                        tier |-> IF class = "alternatives" THEN 3
                                 ELSE Min({classOf(i).tier : i \in held(class)}),
                        duration |-> duration(class), mode |-> "auto"]
    IN  IF classes = {} THEN Rejected
        ELSE [whole |-> TotalOf([class \in classes |-> weight(class)]),
              slots |-> [k \in DOMAIN order |-> slot(order[k])]]

HouseholdNotional(lots, funds) ==
    TotalOf([i \in {i \in DOMAIN lots : lots[i].value # NoMark} |-> lots[i].value]) + TotalOf(funds)

(* A tenth of the whole goes from equity to bonds.                         *)
Tenth(whole) == whole \div 10

DemoOverlay(whole) ==
    [drop |-> {}, add |-> <<>>, pack |-> NoPack,
     tilts |-> [class \in {"equity", "fixed_income"} |->
                   IF class = "equity" THEN - Tenth(whole) ELSE Tenth(whole)]]

LoadRiskDashboard(lots, funds, demo, settings, up) ==
    LET portfolio == PortfolioOf(lots, funds)
        overlay == IF demo THEN DemoOverlay(portfolio.whole) ELSE NoOverlay
    IN  IF portfolio = Rejected THEN RecordRiskFailure("error", settings, up)
        ELSE IF EvaluateRisk(portfolio, overlay) = Rejected
             THEN RecordRiskFailure("error", settings, up)
        ELSE [reply |-> "report", sent |-> {}]

-----------------------------------------------------------------------------
(* GET /api/health.                                                        *)

CheckRiskNotifyConfig(settings) ==
    IF ~ settings.onError THEN "skipped"
    ELSE IF NotifyConfigGaps(settings) # {} THEN "warn"
    ELSE IF Enabled(settings) # {} THEN "ok" ELSE "skipped"

CheckWritableDir(state) == IF state = "writable" THEN "ok" ELSE "error"

CheckDatabase(state) ==
    CASE state = "external" -> "skipped" [] state = "up" -> "ok" [] OTHER -> "error"

CheckJobQueue(state) ==
    CASE state = "none" -> "skipped" [] state = "up" -> "ok" [] OTHER -> "error"

RunInfraChecks(site, settings) ==
    [database |-> CheckDatabase(site.database), data |-> CheckWritableDir(site.data),
     sandbox |-> CheckWritableDir(site.sandbox), queue |-> CheckJobQueue(site.queue),
     store |-> "skipped", alerts |-> CheckRiskNotifyConfig(settings)]

HealthStatus(checks) == IF "error" \in {checks[c] : c \in DOMAIN checks} THEN 503 ELSE 200

-----------------------------------------------------------------------------
(* What they are for.                                                      *)

(* A body is evaluated exactly when its parts are well-formed and its      *)
(* overlay leaves no negative and some positive weight.                    *)
Evaluable(raw) ==
    /\ raw \notin {NotUtf8, NotJson, NotObject}
    /\ raw.portfolio \notin {Missing, Bad} /\ raw.regime = "ok" /\ raw.overlay # Bad
    /\ raw.horizon = "ok" /\ raw.notional = "ok"
    /\ raw.overlay # NoOverlay =>
          /\ raw.overlay.pack \in DOMAIN Shocks \cup {NoPack}
          /\ ApplyOverlay(raw.portfolio, raw.overlay) # Rejected

(* What the health check says of the alerts foretells what a failure does. *)
Foretold(verdict, outcome, settings, up) ==
    /\ verdict = "skipped" => outcome.sent = {} /\ outcome.reply # Lost
    /\ verdict = "ok" /\ Enabled(settings) \subseteq up =>
          outcome.sent = Enabled(settings) /\ outcome.reply # Lost
    /\ verdict = "ok" /\ ~ Enabled(settings) \subseteq up => outcome.reply = Lost
    /\ verdict = "warn" => outcome.sent # Enabled(settings)

(* A household has a report exactly when something of it can be marked and,*)
(* under the demo overlay, a tenth of it is equity. Its notional is the    *)
(* sum of what the portfolio weighs.                                       *)
Reportable(lots, funds, demo) ==
    LET portfolio == PortfolioOf(lots, funds)
        equity == {i \in DOMAIN portfolio.slots : portfolio.slots[i].class = "equity"}
    IN  /\ HouseholdNotional(lots, funds) > 0
        /\ IsPortfolio(portfolio) /\ portfolio.whole = HouseholdNotional(lots, funds)
        /\ demo => WeightOf(portfolio.slots, equity) >= Tenth(portfolio.whole)
=============================================================================
