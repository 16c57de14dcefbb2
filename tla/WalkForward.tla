------------------------------ MODULE WalkForward ------------------------------
(***************************************************************************)
(* The readers of dated evidence. Each is asked about a day, asOf, of data *)
(* in which later days may be recorded too, and either answers or raises.  *)
(*                                                                         *)
(* The evidence is a record                                                *)
(*   marks     prices [security, day, price], one for a security and day   *)
(*   lots      [security, acquired, qty, cost] of one household, in order  *)
(*   realized  realized gains [day, amount]                                *)
(*   signals   the snapshots of the signal export [day, views], by their   *)
(*             places; a view is [signal, calibration]                     *)
(***************************************************************************)
EXTENDS Integers, Sequences, FiniteSets, FiniteSetsExt, SequencesExt

CONSTANTS
    YearDays,       \* days of a year
    PurgeDays,      \* settings.walk_forward_purge_days
    KnownSignals,   \* the signals that map to a sleeve
    Unmarked,       \* a position no mark prices
    Raised          \* the reader raises

ASSUME RaisedAssumption == Raised \notin Int

(* asOf = None: whatever was marked last.                                  *)
Ever == Raised

(* The price of the latest mark at or before asOf.                         *)
LatestMark(marks, security, asOf) ==
    LET days == {m.day : m \in {m \in marks : m.security = security
                                              /\ (asOf = Ever \/ m.day <= asOf)}}
    IN  IF days = {} THEN Unmarked
        ELSE (CHOOSE m \in marks : m.security = security /\ m.day = Max(days)).price

(* list_lot_positions                                                      *)
Positions(evidence, asOf) ==
    [i \in DOMAIN evidence.lots |->
        LET lot == evidence.lots[i]
            price == LatestMark(evidence.marks, lot.security, asOf)
        IN  [security |-> lot.security, acquired |-> lot.acquired,
             cost |-> lot.qty * lot.cost,
             value |-> IF price = Unmarked THEN Unmarked ELSE lot.qty * price]]

SumOver(seq, f(_)) == FoldLeft(LAMBDA sum, x : sum + f(x), 0, seq)

ValueOrZero(position) == IF position.value = Unmarked THEN 0 ELSE position.value

-----------------------------------------------------------------------------
(* The household performance report.                                       *)

RealizedYtd(realized, asOf) ==
    LET thisYear == {e \in realized : e.day <= asOf /\ e.day \div YearDays = asOf \div YearDays}
    IN  FoldSet(LAMBDA e, sum : sum + e.amount, 0, thisYear)

PerformanceReport(evidence, asOf) ==
    LET positions == Positions(evidence, Ever)
    IN  IF \E i \in DOMAIN positions : \/ asOf < positions[i].acquired
                                       \/ positions[i].value = Unmarked
        THEN Raised
        ELSE [value |-> SumOver(positions, LAMBDA p : p.value),
              cost |-> SumOver(positions, LAMBDA p : p.cost),
              realized |-> RealizedYtd(evidence.realized, asOf)]

-----------------------------------------------------------------------------
(* A backtest of the PurgeDays and more that end on asOf.                  *)

MarkDatesForPositions(evidence) ==
    {m.day : m \in {m \in evidence.marks :
                       \E i \in DOMAIN evidence.lots : evidence.lots[i].security = m.security}}

(* Mutant: the dates of the marks are not looked at.                       *)
ValidateBacktest_NoMarks(evidence, start, asOf) ==
    /\ asOf - start >= PurgeDays
    /\ \A i \in DOMAIN evidence.lots : evidence.lots[i].acquired <= asOf

ValidateBacktest(evidence, start, asOf) ==
    /\ asOf - start >= PurgeDays
    /\ \A i \in DOMAIN evidence.lots : evidence.lots[i].acquired <= asOf
    /\ \A day \in MarkDatesForPositions(evidence) : day <= asOf

(* The returns of the run are functions of these two values.               *)
RunBacktest(evidence, start, asOf) ==
    LET positions == Positions(evidence, Ever)
        startValue == SumOver(positions, LAMBDA p : p.cost)
    IN  IF ~ ValidateBacktest(evidence, start, asOf) \/ positions = <<>> \/ startValue <= 0
        THEN Raised
        ELSE [start |-> startValue, end |-> SumOver(positions, ValueOrZero)]

-----------------------------------------------------------------------------
(* The daily statistics of the book over the marks as a price history.     *)

(* _series_by_security: a security's marks in order of their days.         *)
Series(marks, security) ==
    SetToSortSeq({m \in marks : m.security = security}, LAMBDA m, n : m.day < n.day)

(* The steps of a series a return can be computed of.                      *)
Returns(series) ==
    SelectSeq([i \in 1..(Len(series) - 1) |-> <<series[i].price, series[i + 1].price>>],
              LAMBDA step : step[1] # 0)

Flat(returns) == \A i \in DOMAIN returns : returns[i][1] = returns[i][2]

(* The last return, and the returns whose volatility it is scored against: *)
(* the ones before it, or all of them when those are flat.                 *)
MoveFor(marks, security) ==
    LET series == Series(marks, security)
        returns == Returns(series)
    IN  [security |-> security, day |-> Last(series).day, return |-> Last(returns),
         against |-> IF Flat(Front(returns)) THEN returns ELSE Front(returns)]

(* Total return of a lot's series: its first and last price, with the days *)
(* between them, and what the lot is worth: the position's value, which is *)
(* at the last price too, as no mark is later than the day.                *)
AttributionRow(marks, lot) ==
    LET series == Series(marks, lot.security)
    IN  [security |-> lot.security, from |-> series[1].price, to |-> Last(series).price,
         days |-> Last(series).day - series[1].day, value |-> lot.qty * Last(series).price]

Marked(marks) == {m.security : m \in marks}

StatsDaily(evidence, asOf) ==
    LET marks == evidence.marks
        book == ToSet(evidence.lots)
        scored == {lot \in book : Len(Series(marks, lot.security)) >= 2}
    IN  IF \E m \in marks : m.day > asOf THEN Raised
        ELSE [moves |-> {MoveFor(marks, s) :
                            s \in {s \in Marked(marks) : Returns(Series(marks, s)) # <<>>}},
              attribution |-> {AttributionRow(marks, lot) :
                            lot \in {lot \in scored : Series(marks, lot.security)[1].price > 0}},
              unscored |-> {lot.security : lot \in book \ scored}]

-----------------------------------------------------------------------------
(* The signal snapshot of a day.                                           *)

(* A view on the strength of a calibration that passed, and of no other,   *)
(* reaches the confidence floor.                                           *)
ViewOf(view, day) ==
    [source |-> <<view.signal, day>>, calibration |-> view.calibration,
     confident |-> view.calibration = "pass"]

LoadSnapshot(evidence, asOf) ==
    LET signals == evidence.signals
        usable == {i \in DOMAIN signals : signals[i].day <= asOf}
        latest == Max({signals[i].day : i \in usable})
        chosen == signals[Min({i \in usable : signals[i].day = latest})]
    IN  IF usable = {} \/ \E view \in chosen.views : view.signal \notin KnownSignals
        THEN Raised
        ELSE [day |-> latest, views |-> {ViewOf(view, latest) : view \in chosen.views}]

-----------------------------------------------------------------------------
(* What was known on a day. Snapshots keep their places in the export.     *)
KnownOn(evidence, asOf) ==
    [marks |-> {m \in evidence.marks : m.day <= asOf},
     lots |-> evidence.lots,
     realized |-> {e \in evidence.realized : e.day <= asOf},
     signals |-> [i \in {i \in DOMAIN evidence.signals : evidence.signals[i].day <= asOf} |->
                     evidence.signals[i]]]

(* A reader asked about a day answers from what was known on it, or raises.*)
Blind(Reader(_, _), evidence, asOf) ==
    Reader(evidence, asOf) \in {Raised, Reader(KnownOn(evidence, asOf), asOf)}
=============================================================================
