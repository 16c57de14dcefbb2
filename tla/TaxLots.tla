-------------------------------- MODULE TaxLots --------------------------------
(***************************************************************************)
(* Harvesting losses lot by lot: which lots may be sold at a loss, which   *)
(* sales the two solvers propose, what tax they and the tax report put on  *)
(* a gain, and which lots the sales of the past tie into one wash-sale     *)
(* chain.                                                                  *)
(*                                                                         *)
(* A lot is a record                                                       *)
(*   id          its name, a number; a list has its lots in any order      *)
(*   security    what it is a lot of, in group[security] (or NoGroup) of   *)
(*               securities that replace each other for a wash sale        *)
(*   acquired    a day                                                     *)
(*   restricted  not to be sold                                            *)
(*   gain, value the unrealized gain and the market value, or Unpriced     *)
(* A sale is a record [lot, day, loss].                                    *)
(***************************************************************************)
EXTENDS SumsAndOrders, Sequences, SequencesExt

CONSTANTS
    Window,         \* days around a sale in which a purchase spoils the loss
    Year,           \* days after which a gain is long-term
    Stcg, Ltcg,     \* the two tax rates
    Niit,           \* the surtax on gains, when the overlay applies it
    MaxTrades,      \* settings.mip_max_trades
    NoGroup,
    Unpriced,
    Refused         \* the call raises

(* The rates in whole parts, the surtax a rate; a run that keeps so many   *)
(* trades keeps none or more. What has no price is no number.              *)
ASSUME RatesAssumption ==
    /\ Stcg \in Int /\ Ltcg \in Int /\ Niit \in Nat \ {0}
    /\ MaxTrades \in Nat /\ Unpriced \notin Int

IsLotOf(lots, id) == \E i \in DOMAIN lots : lots[i].id = id

LotNamed(lots, id) == lots[CHOOSE i \in DOMAIN lots : lots[i].id = id]

Distance(day, other) == IF day > other THEN day - other ELSE other - day

-----------------------------------------------------------------------------
(* Wash-sale chains of the ledger: a union-find over the lots.             *)

Identical(group, security, other) ==
    \/ security = other
    \/ group[security] # NoGroup /\ group[security] = group[other]

(* One turn of the loop of find: the path is halved.                       *)
Halve(at) ==
    LET up == at.parent[at.parent[at.root]]
    IN  IF at.parent[at.root] = at.root THEN at
        ELSE [root |-> up, parent |-> [at.parent EXCEPT ![at.root] = up]]

(* The root of key, and the forest once its path is halved. The loop takes *)
(* no more turns than there are keys.                                      *)
Find(parent, key) ==
    LET turns == Cardinality(DOMAIN parent)
        after[n \in 0..turns] ==
            IF n = 0 THEN [root |-> key, parent |-> parent] ELSE Halve(after[n - 1])
    IN  after[turns]

(* Mutant: the key itself is moved, and not the tree it stands in.         *)
Union_OfKeys(parent, left, right) ==
    LET l == Find(parent, left)
    IN  [l.parent EXCEPT ![right] = l.root]

Union(parent, left, right) ==
    LET l == Find(parent, left)
        r == Find(l.parent, right)
    IN  [r.parent EXCEPT ![r.root] = l.root]

WithinWashWindow(acquired, day) == Distance(acquired, day) <= Window

Linked(group, sold, other, day) ==
    /\ other.id # sold.id
    /\ Identical(group, sold.security, other.security)
    /\ WithinWashWindow(other.acquired, day)

(* One sale at a loss joins the lots it is linked to, in list order.       *)
JoinSale(parent, lots, group, sale) ==
    IF ~ sale.loss THEN parent
    ELSE LET sold == LotNamed(lots, sale.lot)
             joined[i \in 0..Len(lots)] ==
                IF i = 0 THEN parent
                ELSE IF Linked(group, sold, lots[i], sale.day)
                THEN Union(joined[i - 1], sold.id, lots[i].id) ELSE joined[i - 1]
         IN  joined[Len(lots)]

LotIds(lots) == {lots[i].id : i \in DOMAIN lots}

(* The chain of every lot: the least lot of its component, 0 for a lot of  *)
(* no chain.                                                               *)
AssignChains(lots, group, sales) ==
    IF lots = <<>> THEN <<>>
    ELSE IF \E i \in DOMAIN sales : ~ IsLotOf(lots, sales[i].lot) THEN Refused
    ELSE LET joined[i \in 0..Len(sales)] ==
                IF i = 0 THEN [id \in LotIds(lots) |-> id]
                ELSE JoinSale(joined[i - 1], lots, group, sales[i])
             forest == joined[Len(sales)]
             Members(id) == {other \in LotIds(lots) :
                                Find(forest, other).root = Find(forest, id).root}
         IN  [id \in LotIds(lots) |->
                IF Cardinality(Members(id)) < 2 THEN 0
                ELSE CHOOSE least \in Members(id) : \A other \in Members(id) : least <= other]

(* linked_lot_ids_for_sell: what one sale ties together.                   *)
LinkedLotIdsForSell(lots, group, sold, day) ==
    {sold.id} \cup {other.id : other \in {o \in ToSet(lots) : Linked(group, sold, o, day)}}

-----------------------------------------------------------------------------
(* The gates of a harvest. policy is the set of restricted securities.     *)

SellAllowed(lot, policy) == ~ lot.restricted /\ lot.security \notin policy

SubstantiallyIdentical(group, lot, other) ==
    \/ lot.security = other.security
    \/ group[lot.security] # NoGroup /\ group[lot.security] = group[other.security]

(* Mutant: another fund of the same group does not count.                  *)
WashTriggers_SameSecurity(lot, lots, group, today) ==
    {other \in ToSet(lots) : other.id # lot.id /\ other.security = lot.security
                             /\ Distance(other.acquired, today) <= Window}

(* The lots whose purchase spoils a loss on lot today.                     *)
WashTriggers(lot, lots, group, today) ==
    {other \in ToSet(lots) : other.id # lot.id /\ SubstantiallyIdentical(group, lot, other)
                             /\ Distance(other.acquired, today) <= Window}

HoldingPeriodRate(acquired, today) == IF today - acquired >= Year THEN Ltcg ELSE Stcg

HasLoss(lot) == lot.gain # Unpriced /\ lot.gain < 0

Harvestable(lot, lots, group, policy, today) ==
    /\ HasLoss(lot)
    /\ SellAllowed(lot, policy)
    /\ WashTriggers(lot, lots, group, today) = {}

ValueOf(lot) == IF lot.value = Unpriced THEN 0 ELSE lot.value

TotalValue(lots) == TotalOf([i \in DOMAIN lots |-> ValueOf(lots[i])])

HarvestTax(lot, today) == lot.gain * HoldingPeriodRate(lot.acquired, today)

TaxDelta(trades, today) == TotalOf([i \in DOMAIN trades |-> HarvestTax(trades[i], today)])

(* Why a lot with a loss is not sold. The sleeve bounds the solvers also   *)
(* list as binding do not bear on which lots are sold.                     *)
Binding(lots, group, policy, today) ==
    UNION {IF ~ SellAllowed(lot, policy)
           THEN {IF lot.restricted THEN <<"do_not_sell_lot", lot.id>>
                                   ELSE <<"restricted_security", lot.security>>}
           ELSE {<<"wash_sale_30d", lot.id, other.id>> :
                    other \in WashTriggers(lot, lots, group, today)} :
           lot \in {l \in ToSet(lots) : HasLoss(l)}}

Open(lots, group, policy, today) ==
    {i \in DOMAIN lots : Harvestable(lots[i], lots, group, policy, today)}

(* The lots at some places, in an order of them.                           *)
Ranked(lots, places, before) ==
    LET order == InOrder(places, before) IN [k \in DOMAIN order |-> lots[order[k]]]

LargestLossFirst(lots, places) == Stably(places, LAMBDA i, j : lots[i].gain < lots[j].gain)

(* run_tax_aware_optimizer: every harvest, the largest loss first.         *)
TaxAwareOptimizer(lots, group, policy, today) ==
    LET open == Open(lots, group, policy, today)
        trades == Ranked(lots, open, LargestLossFirst(lots, open))
    IN  IF TotalValue(lots) <= 0 THEN Refused
        ELSE [trades |-> trades, tax |-> TaxDelta(trades, today),
              binding |-> Binding(lots, group, policy, today)]

(* The tax saved per dollar sold, a / b > c / d compared as a * d > c * b; *)
(* a lot worth nothing scores nothing.                                     *)
Benefit(lot, today) == IF lot.value = 0 THEN 0 ELSE -HarvestTax(lot, today)
PerDollar(lot) == IF lot.value = 0 THEN 1 ELSE lot.value
ScoresAbove(lot, other, today) ==
    Benefit(lot, today) * PerDollar(other) > Benefit(other, today) * PerDollar(lot)

(* Mutant: the lots with the best score are at the end.                    *)
BestScoreFirst_Ascending(lots, places, today) ==
    Stably(places, LAMBDA i, j : ScoresAbove(lots[j], lots[i], today))

BestScoreFirst(lots, places, today) ==
    Stably(places, LAMBDA i, j : ScoresAbove(lots[i], lots[j], today))

FirstOf(seq, n) == SubSeq(seq, 1, IF Len(seq) < n THEN Len(seq) ELSE n)

(* run_mip_optimizer: the first MaxTrades by score.                        *)
MipOptimizer(lots, group, policy, today) ==
    LET open == Open(lots, group, policy, today)
        trades == FirstOf(Ranked(lots, open, BestScoreFirst(lots, open, today)), MaxTrades)
    IN  IF TotalValue(lots) <= 0 THEN Refused
        ELSE [trades |-> trades, tax |-> TaxDelta(trades, today),
              binding |-> Binding(lots, group, policy, today)]

-----------------------------------------------------------------------------
(* The tax report, which asks what selling everything would cost.          *)

ReportRate(acquired, today) == IF today - acquired >= Year THEN Ltcg ELSE Stcg

(* Mutant: the surtax of a gain is also the relief of a loss.              *)
TaxOnRealizedGain_Relief(gain, rate, applyNiit) ==
    gain * rate + IF applyNiit THEN gain * Niit ELSE 0

TaxOnRealizedGain(gain, rate, applyNiit) ==
    gain * rate + IF applyNiit /\ gain > 0 THEN gain * Niit ELSE 0

PositionGainTax(lot, today, applyNiit) ==
    IF lot.gain = Unpriced THEN 0
    ELSE TaxOnRealizedGain(lot.gain, ReportRate(lot.acquired, today), applyNiit)

ReportedTax(lots, today, applyNiit) ==
    TotalOf([i \in DOMAIN lots |-> PositionGainTax(lots[i], today, applyNiit)])

-----------------------------------------------------------------------------
(* What they are for.                                                      *)

(* No sale at a loss ties a lot of the set to a lot outside it.            *)
Separate(ids, lots, group, sales) ==
    \A i \in DOMAIN sales :
        LET tied == LinkedLotIdsForSell(lots, group, LotNamed(lots, sales[i].lot), sales[i].day)
        IN  sales[i].loss => tied \subseteq ids \/ tied \cap ids = {}

(* The lots no separation tells from id: its chain.                        *)
ChainOf(id, lots, group, sales) ==
    {other \in LotIds(lots) :
        \A ids \in SUBSET LotIds(lots) :
            id \in ids /\ Separate(ids, lots, group, sales) => other \in ids}

(* The chains are the closure of the single links, whatever the order of   *)
(* the lots and of the sales, and each is named after its least lot.       *)
ClosureOfLinks(chains, lots, group, sales) ==
    \A id \in LotIds(lots) :
        LET chain == ChainOf(id, lots, group, sales)
        IN  IF Cardinality(chain) = 1 THEN chains[id] = 0
            ELSE chains[id] \in chain /\ \A other \in chain : chains[id] <= other

AsSales(trades, today) == [i \in DOMAIN trades |-> [lot |-> trades[i].id, day |-> today, loss |-> TRUE]]

(* The first solver sells every loss it may, the second the best of them.  *)
BestOf(mip, all, today) ==
    /\ ToSet(mip.trades) \subseteq ToSet(all.trades)
    /\ Len(mip.trades) = Len(FirstOf(all.trades, MaxTrades))
    /\ \A kept \in ToSet(mip.trades), left \in ToSet(all.trades) \ ToSet(mip.trades) :
            ~ ScoresAbove(left, kept, today)

(* Every lot with a loss is sold or named with its reason.                 *)
Accounted(result, lots) ==
    \A lot \in ToSet(lots) : HasLoss(lot) =>
        \/ lot \in ToSet(result.trades)
        \/ \E why \in result.binding :
              why[2] = IF why[1] = "restricted_security" THEN lot.security ELSE lot.id
=============================================================================
