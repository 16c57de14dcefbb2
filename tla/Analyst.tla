-------------------------------- MODULE Analyst --------------------------------
(***************************************************************************)
(* The analyst's readings of a book: the return of each lot beyond what    *)
(* its class was expected to earn, the theses with the criteria that kill  *)
(* them, and the assets that do not perform.                               *)
(*                                                                         *)
(* A lot is one of TaxLots with [account, sleeve, tier, cost] besides.     *)
(* Returns are in percent. A thesis covers the lots of one security in one *)
(* account.                                                                *)
(***************************************************************************)
EXTENDS TaxLots, Rebalance

CONSTANTS
    Expected(_, _),         \* percent a class earns over a number of days
    Concentrated,           \* the securities of a concentrated issuer
    Reserve,                \* the securities that are cash
    KillLoss, ConcentratedLoss, ResidualCap, KillTier,
    NpaLoss, SustainedDays, StaleDays,
    LiquidTier,             \* the last tier that counts as liquid
    NoLimit,                \* a criterion that is not set
    NotAttributed           \* evaluate_attribution, flag_non_performing raise

(* A concentrated issuer is no cash, and is killed at the latest by the    *)
(* loss that makes an asset non-performing.                                *)
ASSUME LossAssumption ==
    /\ Concentrated \cap Reserve = {}
    /\ {ConcentratedLoss, ResidualCap, NpaLoss} \subseteq Int
    /\ ConcentratedLoss <= NpaLoss
    /\ NoLimit \notin Int

Gain(lot) == (100 * lot.gain) \div lot.cost

Active(lot, asOf) == Gain(lot) - Expected(lot.sleeve, asOf - lot.acquired)

Instrument(lot) == <<lot.account, lot.security>>

Unattributable(lot, asOf) == lot.acquired > asOf \/ lot.gain = Unpriced \/ lot.cost <= 0

Stronger(a, b) == Magnitude(a.active) > Magnitude(b.active)

Row(lots, i, asOf) == [lot |-> lots[i], active |-> Active(lots[i], asOf)]

(* Mutant: the rows with the least active return come first.               *)
Outranking_Ascending(lots, asOf) ==
    Stably(DOMAIN lots, LAMBDA i, j : Stronger(Row(lots, j, asOf), Row(lots, i, asOf)))

Outranking(lots, asOf) ==
    Stably(DOMAIN lots, LAMBDA i, j : Stronger(Row(lots, i, asOf), Row(lots, j, asOf)))

(* evaluate_attribution: the strongest rows first, in a stable order.      *)
Attribution(lots, asOf) ==
    LET order == InOrder(DOMAIN lots, Outranking(lots, asOf))
    IN  IF \E lot \in ToSet(lots) : Unattributable(lot, asOf) THEN NotAttributed
        ELSE [k \in DOMAIN order |-> Row(lots, order[k], asOf)]

-----------------------------------------------------------------------------
(* Theses, dated by the first lot they cover, and what kills them.         *)

KillCriteria(security) ==
    [drawdown |-> IF security \in Reserve THEN NoLimit
                  ELSE IF security \in Concentrated THEN ConcentratedLoss ELSE KillLoss,
     residual |-> IF security \in Concentrated \ Reserve THEN ResidualCap ELSE NoLimit,
     tier |-> IF security \in Reserve THEN NoLimit ELSE KillTier,
     horizon |-> NoLimit]

EmitTheses(lots) ==
    [key \in {Instrument(lot) : lot \in ToSet(lots)} |->
        [effective |-> Min({lot.acquired : lot \in {l \in ToSet(lots) : Instrument(l) = key}}),
         criteria |-> KillCriteria(key[2])]]

BreachesOf(criteria, lot, active, asOf) ==
    {c \in DOMAIN criteria : criteria[c] # NoLimit
        /\ \/ c = "drawdown" /\ Gain(lot) <= -criteria[c]
           \/ c = "residual" /\ Magnitude(active) >= criteria[c]
           \/ c = "tier" /\ lot.tier > criteria[c]
           \/ c = "horizon" /\ asOf - lot.acquired > criteria[c]}

(* evaluate_kill_criteria raises on hindsight and on what it cannot judge. *)
Unjudged(lot, thesis) ==
    thesis.effective > lot.acquired \/ lot.gain = Unpriced \/ lot.cost <= 0

(* The first checkpoint of the review judges each row by its own return.   *)
Checkpoint1(rows, theses, asOf) ==
    LET documented == {row \in ToSet(rows) : Instrument(row.lot) \in DOMAIN theses}
    IN  IF documented = {} THEN "not_documented"
        ELSE IF \E row \in documented :
                   BreachesOf(theses[Instrument(row.lot)].criteria, row.lot, row.active, asOf) # {}
        THEN "breach" ELSE "pass"

(* The active return the watch panel looks up for a lot: the dictionary    *)
(* keeps the last row of the lot's instrument.                             *)
ActiveByKey(rows, key) ==
    LET last == Max({i \in DOMAIN rows : Instrument(rows[i].lot) = key})
    IN  rows[last].active

ErrorPanel == [live |-> FALSE, breaches |-> {}, checkpoint |-> "not_documented"]

(* load_kill_criteria_dashboard: the panel lists what each lot breaches.   *)
Watch(lots, asOf) ==
    LET rows == Attribution(lots, asOf)
        theses == EmitTheses(lots)
        Thesis(lot) == theses[Instrument(lot)]
    IN  IF rows = NotAttributed \/ \E lot \in ToSet(lots) : Unjudged(lot, Thesis(lot))
        THEN ErrorPanel
        ELSE [live |-> TRUE,
              breaches |-> UNION {{<<lot.id, c>> : c \in
                  BreachesOf(Thesis(lot).criteria, lot, ActiveByKey(rows, Instrument(lot)), asOf)} :
                  lot \in ToSet(lots)},
              checkpoint |-> Checkpoint1(rows, theses, asOf)]

-----------------------------------------------------------------------------
(* Assets that do not perform. A fund is [id, marked, calls, unfunded].    *)

(* liquid_tier_nav_share is below a floor.                                 *)
Illiquid(lots, floor) ==
    LET marked == {i \in DOMAIN lots : lots[i].value # Unpriced}
        Worth(of) == TotalOf([i \in of |-> lots[i].value])
    IN  IF Worth(marked) <= 0 THEN floor > 0
        ELSE Worth({i \in marked : lots[i].tier <= LiquidTier}) * One < floor * Worth(marked)

SustainedDrawdown(lot, asOf) ==
    /\ lot.gain # Unpriced /\ lot.cost > 0
    /\ Gain(lot) <= -NpaLoss
    /\ asOf - lot.acquired >= SustainedDays

(* flag_non_performing raises on a lot or a mark of the future.            *)
FlagNonPerforming(lots, funds, floor, asOf) ==
    IF (\E lot \in ToSet(lots) : lot.acquired > asOf) \/ (\E fund \in funds : fund.marked > asOf)
    THEN NotAttributed
    ELSE {<<"drawdown", lot.id>> : lot \in {l \in ToSet(lots) : SustainedDrawdown(l, asOf)}}
         \cup {<<"stale_mark", fund.id>> : fund \in {f \in funds : asOf - f.marked > StaleDays}}
         \cup {<<"missed_call", fund.id>> : fund \in
                  {f \in funds : f.unfunded > 0 /\ \E day \in f.calls : day <= asOf}}
         \cup (IF floor # NoLimit /\ lots # <<>> /\ Illiquid(lots, floor)
               THEN {<<"liquidity", 0>>} ELSE {})

-----------------------------------------------------------------------------
(* What they are for.                                                      *)

(* What a lot breaches by its own return.                                  *)
OwnBreaches(lots, asOf) ==
    UNION {{<<lot.id, c>> : c \in
        BreachesOf(KillCriteria(lot.security), lot, Active(lot, asOf), asOf)} : lot \in ToSet(lots)}

(* The panel may miss a residual: its look-up has one return for all lots  *)
(* of an instrument. It lists no breach that is none, and all others.      *)
ListsRealBreaches(panel, lots, asOf) ==
    /\ panel.breaches \subseteq OwnBreaches(lots, asOf)
    /\ \A breach \in OwnBreaches(lots, asOf) : breach[2] # "residual" => breach \in panel.breaches

(* thesis.py says that each lot is evaluated independently: it is not.     *)
ListsEveryBreach(panel, lots, asOf) == panel.live => panel.breaches = OwnBreaches(lots, asOf)

(* What the watch panel, the review and the flags say of one book.         *)
ReadingsAgree(panel, flags, lots, asOf) ==
    /\ panel.live <=> \A lot \in ToSet(lots) : ~ Unattributable(lot, asOf)
    /\ panel.live =>
          /\ ListsRealBreaches(panel, lots, asOf)
          /\ panel.checkpoint = "breach" <=> OwnBreaches(lots, asOf) # {}
          /\ flags # NotAttributed =>
                \A lot \in {l \in ToSet(lots) : l.security \in Concentrated} :
                    <<"drawdown", lot.id>> \in flags => <<lot.id, "drawdown">> \in panel.breaches
=============================================================================
