-------------------------------- MODULE Messaging --------------------------------
(***************************************************************************)
(* The message bus: one handler to an operation, asked and answered in     *)
(* turn, and events fanned out to subscribers.                             *)
(*                                                                         *)
(* A message is [op, typed, correlation]: typed says whether its payload   *)
(* has the type its operation is registered with. A context is             *)
(*   session       whether there is a transaction                          *)
(*   correlation   the workflow                                            *)
(*   failing       the parts of the planes that would raise                *)
(* An answer is [reply, notes, ran]: the notes added to what was raised    *)
(* and the plane calls made, each [op, correlation].                       *)
(***************************************************************************)
EXTENDS Naturals, Sequences, SequencesExt

CONSTANTS
    MaxLog,         \* entries each log keeps
    Recent          \* entries a panel shows

ASSUME LogsAssumption == MaxLog \in Nat \ {0} /\ Recent \in Nat \ {0}

Queries == {"ledger.positions"}

Evaluations ==
    {"risk.evaluate", "policy.check", "optimizer.propose", "trade.validate", "tax.scenario",
     "attribution.evaluate", "pm.advise", "beliefs.update", "ingest.fiij", "stats.daily"}

Commands ==
    {"ingest.run", "ledger.reconcile", "optimizer.persist", "approval.create",
     "approval.decide", "orders.stage", "report.build"}

Registered == Queries \cup Evaluations \cup Commands

(* The handlers that call require_session.                                 *)
Stored == Queries \cup Commands

(* What pm.advise asks, in this order, before it scores the axioms.        *)
Legs == <<"risk.evaluate", "policy.check", "optimizer.propose", "attribution.evaluate",
          "tax.scenario">>

Scoring == "score_pm_axioms"

Stamp(op, context) == [op |-> op, correlation |-> context.correlation]

Refusal(error) == [reply |-> error, notes |-> <<>>, ran |-> <<>>]

(* Nothing asked yet, and nothing raised.                                  *)
Unasked == [reply |-> "result", notes |-> <<>>, ran |-> <<>>]

(* A call into a plane.                                                    *)
Run(op, context) ==
    [reply |-> IF op \in context.failing THEN "error" ELSE "result",
     notes |-> <<>>, ran |-> <<Stamp(op, context)>>]

(* Mutant: the next is asked although something raised.                    *)
Then_Anyway(answer, next) == [next EXCEPT !.ran = answer.ran \o @]

(* What is asked after an answer: nothing, once something raised.          *)
Then(answer, next) ==
    IF answer.reply # "result" THEN answer
    ELSE [next EXCEPT !.ran = answer.ran \o @]

Noted(answer, op, context) ==
    IF answer.reply = "result" THEN answer
    ELSE [answer EXCEPT !.notes = Append(@, Stamp(op, context))]

(* What the handler of the operation says, if one is asked. The kind of    *)
(* the message is not compared with that of the operation.                 *)
Dispatch(own, message, handled) ==
    IF message.op \notin Registered THEN Refusal("unknown_op")
    ELSE IF ~ message.typed THEN Refusal("wrong_payload")
    ELSE Noted(handled, message.op, own)

Within(context, message) == [context EXCEPT !.correlation = message.correlation]

HandlePlain(context, op) ==
    IF op \in Stored /\ ~ context.session THEN Refusal("no_session") ELSE Run(op, context)

(* A leg is dispatched like any message; none of them is pm.advise.        *)
AskLeg(context, op) ==
    Dispatch(context, [op |-> op, typed |-> TRUE], HandlePlain(context, op))

PmAdvise(context) ==
    LET asked[n \in 0..Len(Legs)] ==
            IF n = 0 THEN Unasked ELSE Then(asked[n - 1], AskLeg(context, Legs[n]))
    IN  Then(asked[Len(Legs)], Run(Scoring, context))

Handle(context, op) ==
    IF op = "pm.advise" THEN PmAdvise(context) ELSE HandlePlain(context, op)

DispatchMessage(context, message) ==
    LET own == Within(context, message) IN Dispatch(own, message, Handle(own, message.op))

-----------------------------------------------------------------------------
(* Events. The bus is [events, failures]; an event is [op, id]; each       *)
(* operation has a list of subscribers, and a subscriber raises or not.    *)
(* calls is what the subscribers were called with, for the properties.     *)

Capped(log, entry) ==
    LET all == Append(log, entry) IN IF Len(all) > MaxLog THEN Tail(all) ELSE all

NoBus == [events |-> <<>>, failures |-> <<>>, calls |-> <<>>]

(* Mutant: a subscriber that raises ends the fan-out.                      *)
Deliver_StopsAtFailure(bus, event, i, raises) ==
    IF bus.failures # <<>> /\ bus.failures[Len(bus.failures)].id = event.id THEN bus
    ELSE [bus EXCEPT !.calls = Append(@, [id |-> event.id, subscriber |-> i]),
                     !.failures = IF raises THEN Capped(@, event) ELSE @]

Deliver(bus, event, i, raises) ==
    [bus EXCEPT !.calls = Append(@, [id |-> event.id, subscriber |-> i]),
                !.failures = IF raises THEN Capped(@, event) ELSE @]

HeardBy(subscribers, event) ==
    IF event.op \in DOMAIN subscribers THEN subscribers[event.op] ELSE <<>>

EmitEvent(bus, subscribers, event) ==
    LET listening == HeardBy(subscribers, event)
        recorded == [bus EXCEPT !.events = Capped(@, event)]
        after[i \in 0..Len(listening)] ==
            IF i = 0 THEN recorded ELSE Deliver(after[i - 1], event, i, listening[i])
    IN  after[Len(listening)]

RecentOf(log) ==
    Reverse(SubSeq(log, IF Len(log) > Recent THEN Len(log) - Recent + 1 ELSE 1, Len(log)))

(* The events of a series, told one after another, and the two panels.     *)
EmitAll(events, subscribers) ==
    LET told[n \in 0..Len(events)] ==
            IF n = 0 THEN NoBus ELSE EmitEvent(told[n - 1], subscribers, events[n])
        bus == told[Len(events)]
    IN  [calls |-> bus.calls, recent |-> RecentOf(bus.events), failures |-> RecentOf(bus.failures)]

-----------------------------------------------------------------------------
(* What they are for.                                                      *)

OpsOf(answer) == [i \in DOMAIN answer.ran |-> answer.ran[i].op]
RaisedAmong(ops, context) == {i \in DOMAIN ops : ops[i] \in context.failing}

(* An answer tells where it failed: the notes lead from the operation that *)
(* raised out to the one asked, all of one workflow; nothing is called     *)
(* after a call that raised, and a result means that all were made.        *)
TellsWhereItFailed(answer, context, message) ==
    LET ops == OpsOf(answer)
        asked == message.op \in Registered /\ message.typed
        advised == asked /\ message.op = "pm.advise"
        raised == RaisedAmong(ops, context)
    IN  /\ \A stamp \in ToSet(answer.notes) \cup ToSet(answer.ran) :
              stamp.correlation = message.correlation
        /\ raised \subseteq {Len(ops)} /\ (raised # {} <=> answer.reply = "error")
        /\ answer.reply # "result" /\ asked => Last(answer.notes).op = message.op
        /\ answer.reply = "result" \/ ~ asked => answer.notes = <<>>
        /\ advised => /\ IsPrefix(ops, Append(Legs, Scoring))
                      /\ answer.reply = "result" => Len(ops) = Len(Legs) + 1
                      /\ answer.reply = "error" /\ Last(ops) # Scoring =>
                            answer.notes[1].op = Last(ops) /\ Len(answer.notes) = 2

(* An evaluation answers alike with a session and without one, and never   *)
(* reaches what is stored; a query or a command without a session does     *)
(* nothing at all.                                                         *)
IsPure(context, message) ==
    LET answer(session) == DispatchMessage([context EXCEPT !.session = session], message)
    IN  IF message.op \in Stored
        THEN answer(FALSE).reply # "result" /\ answer(FALSE).ran = <<>>
        ELSE /\ answer(TRUE) = answer(FALSE)
             /\ \A call \in ToSet(answer(TRUE).ran) : call.op \notin Stored

(* Whatever subscribers do, every event reaches all of its own, in order;  *)
(* the panels show the last events and the last failures, newest first.    *)
Contained(told, events, subscribers) ==
    LET heard(i) == HeardBy(subscribers, events[i])
        calls == FlattenSeq([i \in DOMAIN events |->
                    [k \in DOMAIN heard(i) |-> [id |-> events[i].id, subscriber |-> k]]])
        failures == FlattenSeq([i \in DOMAIN events |->
                       [k \in 1..Cardinality({k \in DOMAIN heard(i) : heard(i)[k]}) |-> events[i]]])
        shown(list) == [k \in 1..Min({Recent, MaxLog, Len(list)}) |-> list[Len(list) - k + 1]]
    IN  /\ told.calls = calls
        /\ told.recent = shown(events)
        /\ told.failures = shown(failures)
=============================================================================
