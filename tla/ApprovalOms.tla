----------------------------- MODULE ApprovalOms -----------------------------
(***************************************************************************)
(* The approval gate and the order-management system behind it: approval   *)
(* requests, the advisor's decision, the staging of orders and the life of *)
(* an order, as several processes drive them against one SQLite database.  *)
(*                                                                         *)
(* Every CLI command is a process with one session (infra/db/base.py).     *)
(* The session reads committed rows with no lock and keeps them in its     *)
(* identity map; what it writes stays in memory until the flush, which     *)
(* takes SQLite's write lock and is followed by the commit.  Other         *)
(* sessions see nothing before the commit, so a session is a sequence of   *)
(* reads, one step each, and one atomic write.  An exception, a crash or a *)
(* "database is locked" error drops the session without a trace.           *)
(*                                                                         *)
(* Left out: reviewer, timestamps, quantities and sides (data), and who    *)
(* the audit rows name.  An audit row is counted per resource and action.  *)
(***************************************************************************)
EXTENDS Naturals

CONSTANTS
    Procs,      \* the processes, each with at most one session
    Requests,   \* the request_ids approval requests may be given
    Runs,       \* the optimization runs persisted so far
    NoRun,      \* optimization_run_id of a report subject (NULL)
    Trades,     \* the rows of optimization_trades
    TradesOf,   \* the trade rows of each run
    Batches,    \* fresh order ids: one batch for each staging of a request
    Households, \* the households
    HouseholdOf,\* the household each request is opened for
    MaxAudit,   \* bound on the audit rows of one request and action
    Exclusive   \* TRUE: a session starts only when no other is open

ASSUME ConstantsAssumption ==
    /\ NoRun \notin Runs
    /\ TradesOf \in [Runs -> SUBSET Trades]
    /\ HouseholdOf \in [Requests -> Households]
    /\ MaxAudit \in Nat \ {0}
    /\ Exclusive \in BOOLEAN

Decisions == {"pending", "approved", "rejected"}       \* ApprovalStatus
OrderStatus == {"staged", "submitted", "filled", "cancelled"}
OrderIds == Requests \X Trades \X Batches
RequestActions == {"requested", "orders_staged"} \cup Decisions

VARIABLES
    status,     \* status of the committed approval_requests rows
    subject,    \* their optimization_run_id
    orders,     \* status of the committed staged_orders rows
    reqAudit,   \* committed audit rows of a request, counted by action
    ordAudit,   \* the statuses an order has a committed order_* audit row for
    sess,       \* the open session of each process
    announced   \* orders an order.filled event was emitted for

vars == <<status, subject, orders, reqAudit, ordAudit, sess, announced>>
dbVars == <<status, subject, orders, reqAudit, ordAudit>>

-----------------------------------------------------------------------------
Idle == [pc |-> "idle"]

(* What an open session is about to do.  dec is the decision held in its   *)
(* identity map, "none" when the session only stages; insert says whether  *)
(* it found no order for the request and will add one per trade.           *)
Session ==
         [pc : {"idle"}]
    \cup [pc : {"check"}, req : Requests, dec : Decisions \cup {"none"}]
    \cup [pc : {"write"}, req : Requests, dec : Decisions \cup {"none"},
          insert : BOOLEAN]
    \cup [pc : {"advance"}, ord : OrderIds, to : OrderStatus]

TypeOK ==
    /\ status \in [Requests -> Decisions \cup {"absent"}]
    /\ subject \in [Requests -> Runs \cup {NoRun}]
    /\ orders \in [OrderIds -> OrderStatus \cup {"absent"}]
    /\ reqAudit \in [Requests -> [RequestActions -> Nat]]
    /\ ordAudit \in [OrderIds -> SUBSET OrderStatus]
    /\ sess \in [Procs -> Session]
    /\ announced \subseteq OrderIds

Init ==
    /\ status = [a \in Requests |-> "absent"]
    /\ subject = [a \in Requests |-> NoRun]
    /\ orders = [o \in OrderIds |-> "absent"]
    /\ reqAudit = [a \in Requests |-> [act \in RequestActions |-> 0]]
    /\ ordAudit = [o \in OrderIds |-> {}]
    /\ sess = [p \in Procs |-> Idle]
    /\ announced = {}

-----------------------------------------------------------------------------
(* session_scope: a session opens; it ends in a commit or without effect.  *)
CanOpen(p) ==
    /\ sess[p] = Idle
    /\ Exclusive => \A q \in Procs : sess[q] = Idle

Open(p, session) ==
    /\ CanOpen(p)
    /\ sess' = [sess EXCEPT ![p] = session]
    /\ UNCHANGED dbVars

Close(p) == sess' = [sess EXCEPT ![p] = Idle]

(* Any exception, a crash, or the busy timeout on SQLite's write lock.     *)
Abort(p) ==
    /\ sess[p] # Idle
    /\ Close(p)
    /\ UNCHANGED <<dbVars, announced>>

-----------------------------------------------------------------------------
(* _create_approval: inserts the row and its audit row, reads nothing.     *)
Create(p, a, run) ==
    /\ CanOpen(p)
    /\ status[a] = "absent"
    /\ status' = [status EXCEPT ![a] = "pending"]
    /\ subject' = [subject EXCEPT ![a] = run]
    /\ reqAudit' = [reqAudit EXCEPT ![a]["requested"] = @ + 1]
    /\ UNCHANGED <<orders, ordAudit, sess, announced>>

(* Mutant: a decided request may be decided again.                         *)
Decidable_Again(a) == status[a] # "absent"

(* update_approval_status in a session of its own: approval.decide, or the *)
(* CLI with --reject.  The payload admits every ApprovalStatus.            *)
Decidable(a) == status[a] = "pending"

LoadForDecision(p, a, dec) ==
    /\ Decidable(a)
    /\ Open(p, [pc |-> "write", req |-> a, dec |-> dec, insert |-> FALSE])
    /\ UNCHANGED announced

(* CLI approve decide: the same update, then staging in the same session.  *)
LoadForApproval(p, a) ==
    /\ Decidable(a)
    /\ Open(p, [pc |-> "check", req |-> a, dec |-> "approved"])
    /\ UNCHANGED announced

(* orders.stage: the gate at the OMS boundary, on the committed row.       *)
Stageable(a) ==
    /\ status[a] = "approved"
    /\ subject[a] # NoRun

LoadForStaging(p, a) ==
    /\ Stageable(a)
    /\ Open(p, [pc |-> "check", req |-> a, dec |-> "none"])
    /\ UNCHANGED announced

(* The committed orders of a request.                                      *)
OrdersOf(a) == {o \in OrderIds : o[1] = a /\ orders[o] # "absent"}

(* What orders.stage answers when it finds one: list_staged_orders, by     *)
(* household.                                                              *)
StageReply(a) ==
    {o \in OrderIds : orders[o] # "absent" /\ HouseholdOf[o[1]] = HouseholdOf[a]}

(* Mutant: staging without the look-up of existing orders.                 *)
CheckStaged_Blind(p) ==
    /\ sess[p].pc = "check"
    /\ subject[sess[p].req] # NoRun
    /\ sess' = [sess EXCEPT ![p] =
                   [pc |-> "write", req |-> sess[p].req, dec |-> sess[p].dec,
                    insert |-> TRUE]]
    /\ UNCHANGED <<dbVars, announced>>

(* stage_orders_from_approval looks for an order of the request.           *)
CheckStaged(p) ==
    /\ sess[p].pc = "check"
    /\ subject[sess[p].req] # NoRun
    /\ sess' = [sess EXCEPT ![p] =
                   [pc |-> "write", req |-> sess[p].req, dec |-> sess[p].dec,
                    insert |-> OrdersOf(sess[p].req) = {}]]
    /\ UNCHANGED <<dbVars, announced>>

(* A report subject cannot stage; the ValueError takes the decision with   *)
(* it, for both are in one session.                                        *)
RefuseReport(p) ==
    /\ sess[p].pc = "check"
    /\ subject[sess[p].req] = NoRun
    /\ Close(p)
    /\ UNCHANGED <<dbVars, announced>>

(* Mutants: the decision written as a full row, or not written at all.     *)
StatusAfter_FullRow(a, dec) == IF dec = "none" THEN status[a] ELSE dec
StatusAfter_Forgotten(a, dec) == status[a]

(* The unit of work writes only the columns that changed: a row read as    *)
(* "pending" and set to "pending" leaves the status column out.            *)
StatusAfter(a, dec) == IF dec \in {"approved", "rejected"} THEN dec ELSE status[a]

(* Mutant: every trade of the table, not those of the request's run.       *)
NewOrders_AnyRun(a, batch) == {a} \X Trades \X {batch}

(* The new staged_orders rows: one for each trade of the request's run.    *)
NewOrders(a, batch) == {a} \X TradesOf[subject[a]] \X {batch}

(* Mutant: the decision is not audited.                                    *)
AuditRows_StagingOnly(s) == IF s.insert THEN {"orders_staged"} ELSE {}

AuditRows(s) ==
    (IF s.dec = "none" THEN {} ELSE {s.dec})
        \cup (IF s.insert THEN {"orders_staged"} ELSE {})

CommitApproval(p) ==
    LET s == sess[p]
        a == s.req
    IN  /\ s.pc = "write"
        /\ \A act \in AuditRows(s) : reqAudit[a][act] < MaxAudit
        /\ status' = [status EXCEPT ![a] = StatusAfter(a, s.dec)]
        /\ reqAudit' = [reqAudit EXCEPT ![a] =
                           [act \in RequestActions |->
                               IF act \in AuditRows(s) THEN @[act] + 1 ELSE @[act]]]
        /\ IF s.insert
           THEN \E b \in Batches :
                   /\ \A t \in Trades : orders[<<a, t, b>>] = "absent"
                   /\ orders' = [o \in OrderIds |->
                                    IF o \in NewOrders(a, b) THEN "staged" ELSE orders[o]]
           ELSE UNCHANGED orders
        /\ Close(p)
        /\ UNCHANGED <<subject, ordAudit, announced>>

-----------------------------------------------------------------------------
(* _ALLOWED_TRANSITIONS, without the CANCELLED -> CANCELLED no-op.         *)
Edges == {<<"staged", "submitted">>, <<"staged", "cancelled">>,
          <<"submitted", "filled">>, <<"submitted", "cancelled">>}

ValidTransition(from, to) == <<from, to>> \in Edges

(* update_order_status: the order.filled event leaves before the commit.   *)
LoadOrder(p, o, to) ==
    /\ ValidTransition(orders[o], to)
    /\ Open(p, [pc |-> "advance", ord |-> o, to |-> to])
    /\ announced' = IF to = "filled" THEN announced \cup {o} ELSE announced

CommitOrder(p) ==
    LET s == sess[p]
    IN  /\ s.pc = "advance"
        /\ orders' = [orders EXCEPT ![s.ord] = s.to]
        /\ ordAudit' = [ordAudit EXCEPT ![s.ord] = @ \cup {s.to}]
        /\ Close(p)
        /\ UNCHANGED <<status, subject, reqAudit, announced>>

-----------------------------------------------------------------------------
ProcNext(p) ==
    \/ \E a \in Requests, run \in Runs \cup {NoRun} : Create(p, a, run)
    \/ \E a \in Requests, dec \in Decisions : LoadForDecision(p, a, dec)
    \/ \E a \in Requests : LoadForApproval(p, a)
    \/ \E a \in Requests : LoadForStaging(p, a)
    \/ CheckStaged(p)
    \/ RefuseReport(p)
    \/ CommitApproval(p)
    \/ \E o \in OrderIds, to \in OrderStatus : LoadOrder(p, o, to)
    \/ CommitOrder(p)
    \/ Abort(p)

Next == \E p \in Procs : ProcNext(p)

Spec == Init /\ [][Next]_vars

-----------------------------------------------------------------------------
(* What holds however the sessions interleave.                             *)

(* No staged order without a sign-off: an order row implies that its       *)
(* request has an optimization subject, was approved by a recorded         *)
(* decision, and proposed that trade (stage_orders_from_approval's gates). *)
SignedOff ==
    \A o \in OrderIds : orders[o] # "absent" =>
        /\ reqAudit[o[1]]["approved"] > 0
        /\ subject[o[1]] # NoRun
        /\ o[2] \in TradesOf[subject[o[1]]]

(* No un-logged mutation: every committed decision, staging and order      *)
(* status is explained by an audit row, and a filled order also by the     *)
(* row of its submission (write_audit in the same unit of work).           *)
Explained ==
    /\ \A a \in Requests :
          status[a] \in {"approved", "rejected"} => reqAudit[a][status[a]] > 0
    /\ \A o \in OrderIds :
          /\ orders[o] # "absent" => reqAudit[o[1]]["orders_staged"] > 0
          /\ orders[o] \notin {"absent", "staged"} => orders[o] \in ordAudit[o]
          /\ orders[o] = "filled" => "submitted" \in ordAudit[o]

(* No fill goes unannounced: a filled order had its order.filled event     *)
(* emitted, even though the event leaves before the commit that may fail.  *)
FilledAnnounced ==
    \A o \in OrderIds : orders[o] = "filled" => o \in announced

(* A decided request is never pending again, not even when a session that  *)
(* read it as pending "decides" pending after the fact; and an order that  *)
(* left "staged" never returns (partial UPDATE of the changed columns).    *)
NeverReopened ==
    [][/\ \A a \in Requests :
             status[a] \in {"approved", "rejected"} =>
                 status'[a] \in {"approved", "rejected"}
       /\ \A o \in OrderIds :
             orders[o] \notin {"absent", "staged"} =>
                 orders'[o] \notin {"absent", "staged"}]_vars

-----------------------------------------------------------------------------
(* What holds when sessions do not overlap, and breaks when they do.       *)

(* A request is decided at most once: update_approval_status rejects a     *)
(* request that is not pending.                                            *)
OneDecision ==
    \A a \in Requests : reqAudit[a]["approved"] + reqAudit[a]["rejected"] <= 1

(* A trade of an approved run is staged as one order: orders.stage finds   *)
(* the existing orders of the approval.                                    *)
StagedOnce ==
    \A a \in Requests, t \in Trades, b, c \in Batches :
        orders[<<a, t, b>>] # "absent" /\ orders[<<a, t, c>>] # "absent" => b = c

(* No order reaches staging unless its request is approved at that moment  *)
(* (the gate at the OMS boundary).                                         *)
StagedUnderApproval ==
    [][\A o \in OrderIds :
          orders[o] = "absent" /\ orders'[o] # "absent" =>
              status'[o[1]] = "approved"]_vars

(* An order only moves along the allowed edges; in particular filled and   *)
(* cancelled are final (validate_order_transition).                        *)
LegalEdges ==
    [][\A o \in OrderIds :
          orders[o] # "absent" /\ orders'[o] # orders[o] =>
              <<orders[o], orders'[o]>> \in
                  {"staged"} \X {"submitted", "cancelled"}
                      \cup {"submitted"} \X {"filled", "cancelled"}]_vars

(* The state of a trade under a request, whichever order carries it.       *)
OrderOf(a, t) ==
    IF \E b \in Batches : orders[<<a, t, b>>] # "absent"
    THEN orders[<<a, t, CHOOSE b \in Batches : orders[<<a, t, b>>] # "absent">>]
    ELSE "absent"

Gate == INSTANCE ApprovalGate WITH
            decision <- status,
            run <- subject,
            order <- [a \in Requests |-> [t \in Trades |-> OrderOf(a, t)]]

(* The sessions implement the gate an advisor is told about: one final     *)
(* decision, one order per approved trade, orders along their edges.       *)
ImplementsGate == Gate!Spec

-----------------------------------------------------------------------------
(* What the documentation says and the code does not do.                   *)

(* "orders.stage returns existing orders for the approval".                *)
ReplyIsOwnOrders ==
    \A a \in Requests :
        Stageable(a) /\ OrdersOf(a) # {} => StageReply(a) = OrdersOf(a)
=============================================================================
