-------------------------- MODULE ApprovalOms_proofs --------------------------
(***************************************************************************)
(* Proofs about ApprovalOms, for any number of processes, requests, runs   *)
(* and trades.  The first part needs no assumption on how sessions         *)
(* interleave; the second assumes that they do not overlap.                *)
(***************************************************************************)
EXTENDS ApprovalOms, TLAPS

(* What an open session has read stays good enough for what it will write: *)
(* its request exists; if it goes on to insert orders then the request has *)
(* a run, and was approved by a recorded decision unless the session       *)
(* itself records one; if it fills an order then the submission is logged. *)
ReadApproved(s) ==
    \/ s.dec = "approved"
    \/ s.dec = "none" /\ reqAudit[s.req]["approved"] > 0

SessionInv(p) ==
    /\ sess[p].pc \in {"check", "write"} => status[sess[p].req] # "absent"
    /\ sess[p].pc = "check" => ReadApproved(sess[p])
    /\ sess[p].pc = "write" /\ sess[p].insert =>
          subject[sess[p].req] # NoRun /\ ReadApproved(sess[p])
    /\ sess[p].pc = "advance" =>
          /\ orders[sess[p].ord] # "absent"
          /\ sess[p].to # "staged"
          /\ sess[p].to = "filled" => "submitted" \in ordAudit[sess[p].ord]

(* A request that does not exist has no sign-off.                          *)
AbsentInv == \A a \in Requests : status[a] = "absent" => reqAudit[a]["approved"] = 0

IInv ==
    /\ TypeOK
    /\ AbsentInv
    /\ \A p \in Procs : SessionInv(p)
    /\ SignedOff
    /\ Explained

-----------------------------------------------------------------------------
(* The fields of a session of each kind.                                   *)
LEMMA SessionFields ==
    ASSUME NEW s \in Session
    PROVE  /\ s.pc \in {"idle", "check", "write", "advance"}
           /\ s.pc = "check" => s.req \in Requests /\ s.dec \in Decisions \cup {"none"}
           /\ s.pc = "write" => /\ s.req \in Requests
                                /\ s.dec \in Decisions \cup {"none"}
                                /\ s.insert \in BOOLEAN
           /\ s.pc = "advance" => s.ord \in OrderIds /\ s.to \in OrderStatus
    BY DEF Session

LEMMA NewOrdersFields ==
    ASSUME NEW a, NEW b, NEW o \in NewOrders(a, b)
    PROVE  o[1] = a /\ o[2] \in TradesOf[subject[a]] /\ o[3] = b
    BY DEF NewOrders

(* Types are preserved by every step.                                      *)
LEMMA TypeStep == TypeOK /\ [Next]_vars => TypeOK'
<1> SUFFICES ASSUME TypeOK, [Next]_vars PROVE TypeOK'
    OBVIOUS
<1> USE ConstantsAssumption DEF TypeOK
<1>1. CASE UNCHANGED vars
    BY <1>1 DEF vars
<1>2. ASSUME NEW p \in Procs, ProcNext(p) PROVE TypeOK'
    <2>0. sess[p] \in Session /\ Idle \in Session
        BY DEF Session, Idle
    <2>1. ASSUME NEW a \in Requests, NEW run \in Runs \cup {NoRun}, Create(p, a, run)
          PROVE TypeOK'
        BY <2>1 DEF Create, Decisions, RequestActions
    <2>2. ASSUME NEW a \in Requests, NEW dec \in Decisions, LoadForDecision(p, a, dec)
          PROVE TypeOK'
        <3>1. [pc |-> "write", req |-> a, dec |-> dec, insert |-> FALSE] \in Session
            BY DEF Session
        <3>2. QED BY <2>2, <3>1 DEF LoadForDecision, Open, dbVars
    <2>3. ASSUME NEW a \in Requests, LoadForApproval(p, a) PROVE TypeOK'
        <3>1. [pc |-> "check", req |-> a, dec |-> "approved"] \in Session
            BY DEF Session, Decisions
        <3>2. QED BY <2>3, <3>1 DEF LoadForApproval, Open, dbVars
    <2>4. ASSUME NEW a \in Requests, LoadForStaging(p, a) PROVE TypeOK'
        <3>1. [pc |-> "check", req |-> a, dec |-> "none"] \in Session
            BY DEF Session
        <3>2. QED BY <2>4, <3>1 DEF LoadForStaging, Open, dbVars
    <2>5. CASE CheckStaged(p)
        <3>1. [pc |-> "write", req |-> sess[p].req, dec |-> sess[p].dec,
               insert |-> OrdersOf(sess[p].req) = {}] \in Session
            BY <2>0, <2>5, SessionFields DEF Session, CheckStaged
        <3>2. QED BY <2>5, <3>1 DEF CheckStaged, dbVars
    <2>6. CASE RefuseReport(p)
        BY <2>0, <2>6 DEF RefuseReport, Close, dbVars
    <2>7. CASE CommitApproval(p)
        <3>1. /\ sess[p].req \in Requests
              /\ sess[p].dec \in Decisions \cup {"none"}
              /\ sess[p].insert \in BOOLEAN
            BY <2>0, <2>7, SessionFields DEF CommitApproval
        <3>2. status' \in [Requests -> Decisions \cup {"absent"}]
            BY <2>7, <3>1 DEF CommitApproval, StatusAfter, Decisions
        <3>3. reqAudit' \in [Requests -> [RequestActions -> Nat]]
            BY <2>7, <3>1 DEF CommitApproval
        <3>4. orders' \in [OrderIds -> OrderStatus \cup {"absent"}]
            BY <2>7, <3>1 DEF CommitApproval, OrderStatus
        <3>5. sess' \in [Procs -> Session]
            BY <2>0, <2>7 DEF CommitApproval, Close
        <3>6. QED BY <2>7, <3>2, <3>3, <3>4, <3>5 DEF CommitApproval
    <2>8. ASSUME NEW o \in OrderIds, NEW to \in OrderStatus, LoadOrder(p, o, to)
          PROVE TypeOK'
        <3>1. [pc |-> "advance", ord |-> o, to |-> to] \in Session
            BY DEF Session
        <3>2. announced' \subseteq OrderIds
            BY <2>8 DEF LoadOrder
        <3>3. QED BY <2>8, <3>1, <3>2 DEF LoadOrder, Open, dbVars
    <2>9. CASE CommitOrder(p)
        <3>1. sess[p].ord \in OrderIds /\ sess[p].to \in OrderStatus
            BY <2>0, <2>9, SessionFields DEF CommitOrder
        <3>2. QED BY <2>0, <2>9, <3>1 DEF CommitOrder, Close
    <2>10. CASE Abort(p)
        BY <2>0, <2>10 DEF Abort, Close, dbVars
    <2>11. QED
        BY <1>2, <2>1, <2>2, <2>3, <2>4, <2>5, <2>6, <2>7, <2>8, <2>9, <2>10
           DEF ProcNext
<1>3. QED
    BY <1>1, <1>2 DEF Next

LEMMA TypeInit == Init => TypeOK
    BY ConstantsAssumption
       DEF Init, TypeOK, Idle, Session, RequestActions, Decisions, OrderStatus

(* Every variable keeps its type (the tables, sessions and audit counts).  *)
THEOREM TypeCorrect == Spec => []TypeOK
    BY TypeInit, TypeStep, PTL DEF Spec

-----------------------------------------------------------------------------
(* Part one: sessions may overlap.                                         *)

LEMMA SafetyInit == Init => IInv
    BY TypeInit, ConstantsAssumption
       DEF Init, IInv, TypeOK, AbsentInv, SessionInv, SignedOff, Explained, Idle,
           RequestActions, Decisions

LEMMA SafetyStep == IInv /\ [Next]_vars => IInv'
<1> SUFFICES ASSUME IInv, [Next]_vars PROVE IInv'
    OBVIOUS
<1> USE ConstantsAssumption DEF IInv
<1>0. TypeOK /\ TypeOK'
    BY TypeStep
<1>1. CASE UNCHANGED vars
    BY <1>1, <1>0 DEF vars, AbsentInv, SessionInv, ReadApproved, SignedOff, Explained
<1>2. ASSUME NEW p \in Procs, ProcNext(p) PROVE IInv'
    <2>0. \A q \in Procs : sess[q] \in Session
        BY <1>0 DEF TypeOK
    (* A step that leaves the database alone and opens, or moves on, the   *)
    (* session of p only has to respect that session's invariant.          *)
    <2>1. ASSUME UNCHANGED dbVars, NEW s \in Session, sess' = [sess EXCEPT ![p] = s],
                 SessionInv(p)'
          PROVE  IInv'
        <3>1. ASSUME NEW q \in Procs, q # p PROVE SessionInv(q)'
            <4>1. sess'[q] = sess[q]
                BY <2>1, <3>1, <1>0 DEF TypeOK
            <4>2. SessionInv(q)
                OBVIOUS
            <4>3. QED BY <2>1, <4>1, <4>2 DEF SessionInv, ReadApproved, dbVars
        <3>2. AbsentInv' /\ SignedOff' /\ Explained'
            BY <2>1 DEF dbVars, AbsentInv, SignedOff, Explained
        <3>3. QED BY <2>1, <3>1, <3>2, <1>0
    <2>2. ASSUME NEW a \in Requests, NEW run \in Runs \cup {NoRun}, Create(p, a, run)
          PROVE  IInv'
        <3>1. AbsentInv'
            BY <2>2, <1>0 DEF Create, AbsentInv, TypeOK, RequestActions, Decisions
        <3>2. ASSUME NEW q \in Procs PROVE SessionInv(q)'
            BY <2>0, <2>2, <1>0, SessionFields
               DEF Create, SessionInv, ReadApproved, TypeOK, AbsentInv, RequestActions,
                   Decisions
        <3>3. SignedOff'
            BY <2>2, <1>0 DEF Create, SignedOff, AbsentInv, TypeOK, OrderIds,
                              RequestActions, Decisions
        <3>4. Explained'
            BY <2>2, <1>0 DEF Create, Explained, AbsentInv, TypeOK, OrderIds,
                              RequestActions, Decisions
        <3>5. QED BY <1>0, <3>1, <3>2, <3>3, <3>4
    <2>3. ASSUME NEW a \in Requests, NEW dec \in Decisions, LoadForDecision(p, a, dec)
          PROVE  IInv'
        <3> DEFINE s == [pc |-> "write", req |-> a, dec |-> dec, insert |-> FALSE]
        <3>1. s \in Session
            BY DEF Session
        <3>2. sess' = [sess EXCEPT ![p] = s] /\ UNCHANGED dbVars /\ sess'[p] = s
            BY <2>3, <1>0 DEF LoadForDecision, Open, TypeOK
        <3>3. SessionInv(p)'
            BY <2>3, <3>2 DEF LoadForDecision, Decidable, SessionInv, dbVars
        <3>4. QED BY <2>1, <3>1, <3>2, <3>3
    <2>4. ASSUME NEW a \in Requests, LoadForApproval(p, a)
          PROVE  IInv'
        <3> DEFINE s == [pc |-> "check", req |-> a, dec |-> "approved"]
        <3>1. s \in Session
            BY DEF Session, Decisions
        <3>2. sess' = [sess EXCEPT ![p] = s] /\ UNCHANGED dbVars /\ sess'[p] = s
            BY <2>4, <1>0 DEF LoadForApproval, Open, TypeOK
        <3>3. SessionInv(p)'
            BY <2>4, <3>2 DEF LoadForApproval, Decidable, SessionInv, ReadApproved, dbVars
        <3>4. QED BY <2>1, <3>1, <3>2, <3>3
    <2>5. ASSUME NEW a \in Requests, LoadForStaging(p, a)
          PROVE  IInv'
        <3> DEFINE s == [pc |-> "check", req |-> a, dec |-> "none"]
        <3>1. s \in Session
            BY DEF Session
        <3>2. sess' = [sess EXCEPT ![p] = s] /\ UNCHANGED dbVars /\ sess'[p] = s
            BY <2>5, <1>0 DEF LoadForStaging, Open, TypeOK
        <3>3. SessionInv(p)'
            BY <2>5, <3>2
               DEF LoadForStaging, Stageable, SessionInv, ReadApproved, dbVars, Explained
        <3>4. QED BY <2>1, <3>1, <3>2, <3>3
    <2>6. CASE CheckStaged(p)
        <3> DEFINE s == [pc |-> "write", req |-> sess[p].req, dec |-> sess[p].dec,
                         insert |-> OrdersOf(sess[p].req) = {}]
        <3>1. s \in Session
            BY <2>0, <2>6, SessionFields DEF Session, CheckStaged
        <3>2. sess' = [sess EXCEPT ![p] = s] /\ UNCHANGED dbVars /\ sess'[p] = s
            BY <2>6, <1>0 DEF CheckStaged, TypeOK
        <3>3. SessionInv(p)'
            BY <2>6, <3>2 DEF CheckStaged, SessionInv, ReadApproved, dbVars
        <3>4. QED BY <2>1, <3>1, <3>2, <3>3
    <2>7. CASE RefuseReport(p) \/ Abort(p)
        <3>1. Idle \in Session
            BY DEF Idle, Session
        <3>2. sess' = [sess EXCEPT ![p] = Idle] /\ UNCHANGED dbVars /\ sess'[p] = Idle
            BY <2>7, <1>0 DEF RefuseReport, Abort, Close, TypeOK
        <3>3. SessionInv(p)'
            BY <3>2 DEF SessionInv, Idle
        <3>4. QED BY <2>1, <3>1, <3>2, <3>3
    <2>8. CASE CommitApproval(p)
        <3> DEFINE a == sess[p].req
        <3>0. /\ a \in Requests
              /\ sess[p].dec \in Decisions \cup {"none"}
              /\ sess[p].insert \in BOOLEAN
              /\ sess[p].pc = "write"
              /\ status[a] # "absent"
              /\ AuditRows(sess[p]) \subseteq RequestActions
            BY <2>0, <2>8, SessionFields
               DEF CommitApproval, SessionInv, AuditRows, RequestActions, Decisions
        <3>1. \A b \in Requests : b # a => status'[b] = status[b] /\ reqAudit'[b] = reqAudit[b]
            BY <2>8, <1>0 DEF CommitApproval, TypeOK
        <3>2. \A act \in RequestActions : reqAudit'[a][act] =
                  IF act \in AuditRows(sess[p]) THEN reqAudit[a][act] + 1 ELSE reqAudit[a][act]
            BY <2>8, <3>0, <1>0 DEF CommitApproval, TypeOK
        <3>3. status'[a] = StatusAfter(a, sess[p].dec)
            BY <2>8, <3>0, <1>0 DEF CommitApproval, TypeOK
        <3>4. \A b \in Requests, act \in RequestActions :
                  reqAudit[b][act] \in Nat /\ reqAudit'[b][act] \in Nat
            BY <1>0 DEF TypeOK
        <3>5. \A b \in Requests, act \in RequestActions :
                  reqAudit[b][act] > 0 => reqAudit'[b][act] > 0
            BY <3>1, <3>2, <3>4
        <3>6. \A b \in Requests : status[b] # "absent" => status'[b] # "absent"
            BY <3>1, <3>3 DEF StatusAfter
        <3>7. subject' = subject /\ ordAudit' = ordAudit
            BY <2>8 DEF CommitApproval
        <3>8. \A o \in OrderIds :
                  orders'[o] = orders[o]
                  \/ /\ sess[p].insert /\ orders'[o] = "staged"
                     /\ o[1] = a /\ o[2] \in TradesOf[subject[a]]
            <4>1. CASE sess[p].insert
                <5>1. PICK b \in Batches :
                          orders' = [o \in OrderIds |->
                                        IF o \in NewOrders(a, b) THEN "staged" ELSE orders[o]]
                    BY <2>8, <4>1 DEF CommitApproval
                <5>2. QED BY <5>1, <4>1, NewOrdersFields
            <4>2. CASE ~sess[p].insert
                BY <2>8, <4>2 DEF CommitApproval
            <4>3. QED BY <4>1, <4>2
        <3>9. \A o \in OrderIds : orders[o] # "absent" => orders'[o] # "absent"
            BY <3>8
        <3>10. sess[p].insert =>
                   /\ subject[a] # NoRun
                   /\ reqAudit'[a]["approved"] > 0
                   /\ reqAudit'[a]["orders_staged"] > 0
            <4>1. sess[p].insert => "orders_staged" \in AuditRows(sess[p])
                BY DEF AuditRows
            <4>2. sess[p].dec = "approved" => "approved" \in AuditRows(sess[p])
                BY DEF AuditRows
            <4>3. "approved" \in RequestActions /\ "orders_staged" \in RequestActions
                BY DEF RequestActions, Decisions
            <4>4. sess[p].insert => subject[a] # NoRun /\ ReadApproved(sess[p])
                BY <3>0 DEF SessionInv
            <4>5. sess[p].insert => reqAudit'[a]["approved"] > 0
                BY <4>2, <4>3, <4>4, <3>0, <3>2, <3>4, <3>5 DEF ReadApproved
            <4>6. sess[p].insert => reqAudit'[a]["orders_staged"] > 0
                BY <4>1, <4>3, <3>0, <3>2, <3>4
            <4>7. QED BY <4>4, <4>5, <4>6
        <3>11. AbsentInv'
            BY <3>0, <3>1, <3>3, <3>6 DEF AbsentInv, StatusAfter
        <3>12. ASSUME NEW q \in Procs PROVE SessionInv(q)'
            <4>1. CASE q = p
                <5>1. sess'[p] = Idle
                    BY <2>8, <1>0 DEF CommitApproval, Close, TypeOK
                <5>2. QED BY <4>1, <5>1 DEF SessionInv, Idle
            <4>2. CASE q # p
                <5>1. sess'[q] = sess[q] /\ SessionInv(q)
                    BY <2>8, <1>0, <4>2 DEF CommitApproval, Close, TypeOK
                <5>2. "approved" \in RequestActions
                    BY DEF RequestActions, Decisions
                <5>3. /\ sess[q].pc \in {"check", "write"} => sess[q].req \in Requests
                      /\ sess[q].pc = "advance" => sess[q].ord \in OrderIds
                    BY <2>0, SessionFields
                <5>4. QED
                    BY <5>1, <5>2, <5>3, <3>5, <3>6, <3>7, <3>9 DEF SessionInv, ReadApproved
            <4>3. QED BY <4>1, <4>2
        <3>13. SignedOff'
            <4>1. \A o \in OrderIds : o[1] \in Requests
                BY DEF OrderIds
            <4>2. "approved" \in RequestActions
                BY DEF RequestActions, Decisions
            <4>3. QED BY <4>1, <4>2, <3>5, <3>7, <3>8, <3>10 DEF SignedOff
        <3>14. Explained'
            <4>1. \A o \in OrderIds : o[1] \in Requests
                BY DEF OrderIds
            <4>2. "orders_staged" \in RequestActions /\ Decisions \subseteq RequestActions
                BY DEF RequestActions
            <4>3. ASSUME NEW b \in Requests, status'[b] \in {"approved", "rejected"}
                  PROVE  reqAudit'[b][status'[b]] > 0
                <5>1. CASE b = a /\ sess[p].dec \in {"approved", "rejected"}
                    <6>1. status'[b] = sess[p].dec /\ sess[p].dec \in AuditRows(sess[p])
                        BY <5>1, <3>3 DEF StatusAfter, AuditRows
                    <6>2. QED BY <6>1, <5>1, <3>0, <3>2, <3>4
                <5>2. CASE ~(b = a /\ sess[p].dec \in {"approved", "rejected"})
                    <6>1. status'[b] = status[b]
                        BY <5>2, <3>1, <3>3 DEF StatusAfter
                    <6>2. QED BY <6>1, <4>2, <4>3, <3>5 DEF Explained, Decisions
                <5>3. QED BY <5>1, <5>2
            <4>4. ASSUME NEW o \in OrderIds, orders'[o] # "absent"
                  PROVE  /\ reqAudit'[o[1]]["orders_staged"] > 0
                         /\ orders'[o] # "staged" => orders'[o] \in ordAudit'[o]
                         /\ orders'[o] = "filled" => "submitted" \in ordAudit'[o]
                BY <4>1, <4>2, <4>4, <3>5, <3>7, <3>8, <3>10 DEF Explained
            <4>5. QED BY <4>3, <4>4 DEF Explained
        <3>15. QED BY <1>0, <3>11, <3>12, <3>13, <3>14
    <2>9. ASSUME NEW o \in OrderIds, NEW to \in OrderStatus, LoadOrder(p, o, to)
          PROVE  IInv'
        <3> DEFINE s == [pc |-> "advance", ord |-> o, to |-> to]
        <3>1. s \in Session
            BY DEF Session
        <3>2. sess' = [sess EXCEPT ![p] = s] /\ UNCHANGED dbVars /\ sess'[p] = s
            BY <2>9, <1>0 DEF LoadOrder, Open, TypeOK
        <3>3. /\ orders[o] # "absent" /\ to # "staged"
              /\ to = "filled" => orders[o] = "submitted"
            BY <2>9 DEF LoadOrder, ValidTransition, Edges
        <3>4. SessionInv(p)'
            BY <3>2, <3>3 DEF SessionInv, dbVars, Explained
        <3>5. QED BY <2>1, <3>1, <3>2, <3>4
    <2>10. CASE CommitOrder(p)
        <3> DEFINE o == sess[p].ord
        <3>0. o \in OrderIds /\ sess[p].to \in OrderStatus /\ sess[p].pc = "advance"
            BY <2>0, <2>10, SessionFields DEF CommitOrder
        <3>1. /\ orders' = [orders EXCEPT ![o] = sess[p].to]
              /\ ordAudit' = [ordAudit EXCEPT ![o] = @ \cup {sess[p].to}]
              /\ status' = status /\ subject' = subject /\ reqAudit' = reqAudit
              /\ sess' = [sess EXCEPT ![p] = Idle]
            BY <2>10 DEF CommitOrder, Close
        <3>2. /\ \A x \in OrderIds : ordAudit[x] \subseteq ordAudit'[x]
              /\ \A x \in OrderIds : orders[x] # "absent" => orders'[x] # "absent"
              /\ orders'[o] = sess[p].to /\ sess[p].to \in ordAudit'[o]
              /\ \A x \in OrderIds : x # o => orders'[x] = orders[x]
            BY <3>0, <3>1, <1>0 DEF TypeOK, OrderStatus
        <3>3. /\ orders[o] # "absent"
              /\ sess[p].to # "staged"
              /\ sess[p].to = "filled" => "submitted" \in ordAudit[o]
            BY <3>0 DEF SessionInv
        <3>4. ASSUME NEW q \in Procs PROVE SessionInv(q)'
            <4>1. CASE q = p
                <5>1. sess'[p] = Idle
                    BY <3>1, <1>0 DEF TypeOK
                <5>2. QED BY <4>1, <5>1 DEF SessionInv, Idle
            <4>2. CASE q # p
                <5>1. sess'[q] = sess[q] /\ SessionInv(q)
                    BY <3>1, <1>0, <4>2 DEF TypeOK
                <5>2. sess[q].pc = "advance" => sess[q].ord \in OrderIds
                    BY <2>0, SessionFields
                <5>3. QED BY <5>1, <5>2, <3>1, <3>2 DEF SessionInv, ReadApproved
            <4>3. QED BY <4>1, <4>2
        <3>5. AbsentInv'
            BY <3>1 DEF AbsentInv
        <3>6. SignedOff'
            BY <3>1, <3>2, <3>3 DEF SignedOff
        <3>7. Explained'
            BY <3>1, <3>2, <3>3 DEF Explained
        <3>8. QED BY <1>0, <3>4, <3>5, <3>6, <3>7
    <2>11. QED
        BY <1>2, <2>2, <2>3, <2>4, <2>5, <2>6, <2>7, <2>8, <2>9, <2>10 DEF ProcNext
<1>3. QED
    BY <1>1, <1>2 DEF Next

LEMMA SafetyInvariant == Spec => []IInv
    BY SafetyInit, SafetyStep, PTL DEF Spec

(* However many sessions overlap, an order row exists only for a trade of  *)
(* the optimization run of a request that a recorded decision approved.    *)
THEOREM OrdersAreSignedOff == Spec => []SignedOff
<1>1. IInv => SignedOff
    BY DEF IInv
<1>2. QED BY <1>1, SafetyInvariant, PTL

(* However many sessions overlap, every decision, staging and order status *)
(* in the database has its audit row, and a fill that of its submission.   *)
THEOREM MutationsAreExplained == Spec => []Explained
<1>1. IInv => Explained
    BY DEF IInv
<1>2. QED BY <1>1, SafetyInvariant, PTL

(* However many sessions overlap, a decided request is never pending again *)
(* and an order that left "staged" never returns there.                    *)
THEOREM NothingIsReopened == Spec => NeverReopened
<1>1. IInv /\ [Next]_vars =>
          [/\ \A a \in Requests :
                 status[a] \in {"approved", "rejected"} =>
                     status'[a] \in {"approved", "rejected"}
           /\ \A o \in OrderIds :
                 orders[o] \notin {"absent", "staged"} =>
                     orders'[o] \notin {"absent", "staged"}]_vars
    <2> SUFFICES ASSUME IInv, NEW p \in Procs, ProcNext(p)
                 PROVE  /\ \A a \in Requests :
                              status[a] \in {"approved", "rejected"} =>
                                  status'[a] \in {"approved", "rejected"}
                        /\ \A o \in OrderIds :
                              orders[o] \notin {"absent", "staged"} =>
                                  orders'[o] \notin {"absent", "staged"}
        BY DEF Next
    <2>0. TypeOK /\ sess[p] \in Session /\ SessionInv(p)
        BY DEF IInv, TypeOK
    <2>1. CASE UNCHANGED <<status, orders>>
        BY <2>1
    <2>2. ASSUME NEW a \in Requests, NEW run \in Runs \cup {NoRun}, Create(p, a, run)
          PROVE  /\ orders' = orders
                 /\ \A b \in Requests : status[b] # "absent" => status'[b] = status[b]
        BY <2>0, <2>2 DEF Create, TypeOK
    <2>3. CASE CommitApproval(p)
        <3>1. \A b \in Requests : status'[b] = status[b]
                                   \/ status'[b] \in {"approved", "rejected"}
            BY <2>0, <2>3, SessionFields DEF CommitApproval, StatusAfter, TypeOK
        <3>2. \A o \in OrderIds : orders[o] # "absent" => orders'[o] = orders[o]
            <4>1. CASE sess[p].insert
                <5>1. PICK b \in Batches :
                          /\ \A t \in Trades : orders[<<sess[p].req, t, b>>] = "absent"
                          /\ orders' = [o \in OrderIds |->
                                  IF o \in NewOrders(sess[p].req, b) THEN "staged"
                                  ELSE orders[o]]
                    BY <2>3, <4>1 DEF CommitApproval
                <5>2. ASSUME NEW o \in OrderIds, o \in NewOrders(sess[p].req, b)
                      PROVE  orders[o] = "absent"
                    <6>1. o = <<sess[p].req, o[2], b>> /\ o[2] \in Trades
                        BY <5>2 DEF NewOrders, OrderIds
                    <6>2. QED BY <5>1, <6>1
                <5>3. QED BY <5>1, <5>2
            <4>2. CASE ~sess[p].insert
                BY <2>3, <4>2 DEF CommitApproval
            <4>3. QED BY <4>1, <4>2
        <3>3. QED BY <3>1, <3>2
    <2>4. CASE CommitOrder(p)
        BY <2>0, <2>4, SessionFields DEF CommitOrder, SessionInv, TypeOK, OrderStatus
    <2>5. QED
        BY <2>1, <2>2, <2>3, <2>4
           DEF ProcNext, LoadForDecision, LoadForApproval, LoadForStaging, CheckStaged,
               RefuseReport, LoadOrder, Abort, Open, dbVars
<1>2. QED BY <1>1, SafetyInvariant, PTL DEF Spec, NeverReopened

-----------------------------------------------------------------------------
(* A session that will fill an order has announced it when it read it.     *)
AnnouncedInv ==
    /\ \A p \in Procs : sess[p].pc = "advance" /\ sess[p].to = "filled" =>
                            sess[p].ord \in announced
    /\ FilledAnnounced

LEMMA AnnouncedStep == TypeOK /\ AnnouncedInv /\ [Next]_vars => AnnouncedInv'
<1> SUFFICES ASSUME TypeOK, AnnouncedInv, [Next]_vars PROVE AnnouncedInv'
    OBVIOUS
<1> USE DEF AnnouncedInv, FilledAnnounced
<1>1. CASE UNCHANGED vars
    BY <1>1 DEF vars
<1>2. ASSUME NEW p \in Procs, ProcNext(p) PROVE AnnouncedInv'
    <2>0. sess \in [Procs -> Session] /\ sess[p] \in Session
        BY DEF TypeOK
    <2>1. ASSUME NEW a \in Requests, NEW run \in Runs \cup {NoRun}, Create(p, a, run)
          PROVE AnnouncedInv'
        BY <2>1 DEF Create
    <2>2. ASSUME NEW a \in Requests, NEW dec \in Decisions, LoadForDecision(p, a, dec)
          PROVE AnnouncedInv'
        BY <2>0, <2>2 DEF LoadForDecision, Open, dbVars
    <2>3. ASSUME NEW a \in Requests, LoadForApproval(p, a) PROVE AnnouncedInv'
        BY <2>0, <2>3 DEF LoadForApproval, Open, dbVars
    <2>4. ASSUME NEW a \in Requests, LoadForStaging(p, a) PROVE AnnouncedInv'
        BY <2>0, <2>4 DEF LoadForStaging, Open, dbVars
    <2>5. CASE CheckStaged(p)
        BY <2>0, <2>5 DEF CheckStaged, dbVars
    <2>6. CASE RefuseReport(p)
        BY <2>0, <2>6 DEF RefuseReport, Close, Idle, dbVars
    <2>7. CASE CommitApproval(p)
        <3>1. \A o \in OrderIds : orders'[o] = "filled" => orders[o] = "filled"
            BY <2>7 DEF CommitApproval
        <3>2. announced' = announced /\ sess' = [sess EXCEPT ![p] = Idle]
            BY <2>7 DEF CommitApproval, Close
        <3>3. QED BY <2>0, <3>1, <3>2 DEF Idle
    <2>8. ASSUME NEW o \in OrderIds, NEW to \in OrderStatus, LoadOrder(p, o, to)
          PROVE AnnouncedInv'
        BY <2>0, <2>8 DEF LoadOrder, Open, dbVars
    <2>9. CASE CommitOrder(p)
        <3>1. sess[p].ord \in OrderIds /\ sess[p].to \in OrderStatus
            BY <2>0, <2>9, SessionFields DEF CommitOrder
        <3>2. \A o \in OrderIds : orders'[o] = "filled" =>
                  orders[o] = "filled" \/ (o = sess[p].ord /\ sess[p].to = "filled")
            BY <2>9, <3>1 DEF CommitOrder, TypeOK
        <3>3. announced' = announced /\ sess' = [sess EXCEPT ![p] = Idle]
            BY <2>9 DEF CommitOrder, Close
        <3>4. QED BY <2>0, <2>9, <3>2, <3>3 DEF Idle, CommitOrder
    <2>10. CASE Abort(p)
        BY <2>0, <2>10 DEF Abort, Close, Idle, dbVars
    <2>11. QED
        BY <1>2, <2>1, <2>2, <2>3, <2>4, <2>5, <2>6, <2>7, <2>8, <2>9, <2>10
           DEF ProcNext
<1>3. QED
    BY <1>1, <1>2 DEF Next

(* No fill goes unannounced (update_order_status emits order.filled before *)
(* the commit, never instead of it).                                       *)
THEOREM FillsAreAnnounced == Spec => []FilledAnnounced
<1>1. Init => AnnouncedInv
    BY DEF Init, AnnouncedInv, FilledAnnounced, Idle
<1>2. AnnouncedInv => FilledAnnounced
    BY DEF AnnouncedInv
<1>3. QED
    BY <1>1, <1>2, AnnouncedStep, TypeCorrect, PTL DEF Spec

-----------------------------------------------------------------------------
(* Part two: sessions do not overlap.                                      *)

Alone == \A p, q \in Procs : sess[p].pc # "idle" /\ sess[q].pc # "idle" => p = q

(* What a session has read is still so when it writes.                     *)
Fresh(p) ==
    /\ sess[p].pc \in {"check", "write"} /\ sess[p].dec # "none" =>
           status[sess[p].req] = "pending"
    /\ sess[p].pc = "check" /\ sess[p].dec = "none" => status[sess[p].req] = "approved"
    /\ sess[p].pc = "write" /\ sess[p].insert =>
           /\ sess[p].dec = "none" => status[sess[p].req] = "approved"
           /\ \A o \in OrderIds : o[1] = sess[p].req => orders[o] = "absent"
    /\ sess[p].pc = "advance" => ValidTransition(orders[sess[p].ord], sess[p].to)

(* An undecided request has no decision on record.                         *)
UndecidedInv ==
    \A a \in Requests : status[a] \in {"absent", "pending"} =>
        reqAudit[a]["approved"] = 0 /\ reqAudit[a]["rejected"] = 0

XInv ==
    /\ Alone
    /\ \A p \in Procs : Fresh(p)
    /\ UndecidedInv
    /\ OneDecision
    /\ StagedOnce

LEMMA XInit == Init => XInv
BY ConstantsAssumption
   DEF Init, XInv, Alone, Fresh, UndecidedInv, OneDecision, StagedOnce, Idle, RequestActions,
       Decisions, OrderIds

LEMMA XStep == Exclusive /\ IInv /\ XInv /\ [Next]_vars => XInv'
<1> SUFFICES ASSUME Exclusive, IInv, XInv, [Next]_vars PROVE XInv'
    OBVIOUS
<1> USE ConstantsAssumption DEF XInv
<1>0. TypeOK
    BY DEF IInv
<1>1. CASE UNCHANGED vars
    BY <1>1 DEF vars, Alone, Fresh, UndecidedInv, OneDecision, StagedOnce
<1>2. ASSUME NEW p \in Procs, ProcNext(p) PROVE XInv'
    <2>0. /\ \A q \in Procs : sess[q] \in Session
          /\ DOMAIN sess = Procs
        BY <1>0 DEF TypeOK
    (* The session of p opens, or moves on, and the database is as it was. *)
    <2>1. ASSUME UNCHANGED dbVars, NEW s, sess' = [sess EXCEPT ![p] = s],
                 \A q \in Procs : q # p => sess[q].pc = "idle", Fresh(p)'
          PROVE  XInv'
        <3>1. \A q \in Procs : q # p => sess'[q].pc = "idle"
            BY <2>0, <2>1
        <3>2. \A q \in Procs : Fresh(q)'
            BY <2>1, <3>1 DEF Fresh
        <3>3. Alone'
            BY <3>1 DEF Alone
        <3>4. QED BY <2>1, <3>2, <3>3 DEF dbVars, UndecidedInv, OneDecision, StagedOnce
    (* The session of p closes: there is no other.                         *)
    <2>2. ASSUME sess' = [sess EXCEPT ![p] = Idle], sess[p].pc # "idle"
          PROVE  Alone' /\ \A q \in Procs : Fresh(q)'
        <3>1. \A q \in Procs : sess'[q].pc = "idle"
            BY <2>0, <2>2 DEF Alone, Idle
        <3>2. QED BY <3>1 DEF Alone, Fresh
    <2>3. ASSUME CanOpen(p) PROVE \A q \in Procs : sess[q].pc = "idle"
        BY <2>3 DEF CanOpen, Idle
    <2>4. ASSUME NEW a \in Requests, NEW run \in Runs \cup {NoRun}, Create(p, a, run)
          PROVE  XInv'
        <3>1. sess' = sess /\ \A q \in Procs : sess[q].pc = "idle"
            BY <2>3, <2>4 DEF Create
        <3>2. Alone' /\ \A q \in Procs : Fresh(q)'
            BY <3>1 DEF Alone, Fresh
        <3>3. /\ status' = [status EXCEPT ![a] = "pending"] /\ status[a] = "absent"
              /\ reqAudit' = [reqAudit EXCEPT ![a]["requested"] = @ + 1]
              /\ orders' = orders
            BY <2>4 DEF Create
        <3>4. \A b \in Requests : /\ reqAudit'[b]["approved"] = reqAudit[b]["approved"]
                                  /\ reqAudit'[b]["rejected"] = reqAudit[b]["rejected"]
                                  /\ b # a => status'[b] = status[b]
            BY <3>3, <1>0 DEF TypeOK, RequestActions, Decisions
        <3>5. QED BY <3>2, <3>3, <3>4 DEF UndecidedInv, OneDecision, StagedOnce
    <2>5. ASSUME NEW a \in Requests, NEW dec \in Decisions, LoadForDecision(p, a, dec)
          PROVE  XInv'
        <3> DEFINE s == [pc |-> "write", req |-> a, dec |-> dec, insert |-> FALSE]
        <3>1. sess' = [sess EXCEPT ![p] = s] /\ UNCHANGED dbVars /\ sess'[p] = s
                  /\ \A q \in Procs : sess[q].pc = "idle"
            BY <2>0, <2>3, <2>5 DEF LoadForDecision, Open
        <3>2. Fresh(p)'
            BY <2>5, <3>1 DEF LoadForDecision, Decidable, Fresh, dbVars
        <3>3. QED BY <2>1, <3>1, <3>2
    <2>6. ASSUME NEW a \in Requests, LoadForApproval(p, a)
          PROVE  XInv'
        <3> DEFINE s == [pc |-> "check", req |-> a, dec |-> "approved"]
        <3>1. sess' = [sess EXCEPT ![p] = s] /\ UNCHANGED dbVars /\ sess'[p] = s
                  /\ \A q \in Procs : sess[q].pc = "idle"
            BY <2>0, <2>3, <2>6 DEF LoadForApproval, Open
        <3>2. Fresh(p)'
            BY <2>6, <3>1 DEF LoadForApproval, Decidable, Fresh, dbVars
        <3>3. QED BY <2>1, <3>1, <3>2
    <2>7. ASSUME NEW a \in Requests, LoadForStaging(p, a)
          PROVE  XInv'
        <3> DEFINE s == [pc |-> "check", req |-> a, dec |-> "none"]
        <3>1. sess' = [sess EXCEPT ![p] = s] /\ UNCHANGED dbVars /\ sess'[p] = s
                  /\ \A q \in Procs : sess[q].pc = "idle"
            BY <2>0, <2>3, <2>7 DEF LoadForStaging, Open
        <3>2. Fresh(p)'
            BY <2>7, <3>1 DEF LoadForStaging, Stageable, Fresh, dbVars
        <3>3. QED BY <2>1, <3>1, <3>2
    <2>8. CASE CheckStaged(p)
        <3> DEFINE s == [pc |-> "write", req |-> sess[p].req, dec |-> sess[p].dec,
                         insert |-> OrdersOf(sess[p].req) = {}]
        <3>1. sess' = [sess EXCEPT ![p] = s] /\ UNCHANGED dbVars /\ sess'[p] = s
                  /\ sess[p].pc = "check" /\ Fresh(p)
            BY <2>0, <2>8 DEF CheckStaged
        <3>2. \A q \in Procs : q # p => sess[q].pc = "idle"
            BY <3>1 DEF Alone
        <3>3. Fresh(p)'
            <4>1. OrdersOf(sess[p].req) = {} =>
                      \A o \in OrderIds : o[1] = sess[p].req => orders[o] = "absent"
                BY DEF OrdersOf
            <4>2. /\ sess'[p].pc = "write" /\ sess'[p].req = sess[p].req
                  /\ sess'[p].dec = sess[p].dec
                BY <3>1
            <4>3. sess'[p].insert => OrdersOf(sess[p].req) = {}
                <5>1. sess'[p].insert = (OrdersOf(sess[p].req) = {})
                    BY <3>1
                <5>2. QED BY <5>1, Zenon
            <4>4. QED BY <3>1, <4>1, <4>2, <4>3 DEF Fresh, dbVars
        <3>4. QED BY <2>1, <3>1, <3>2, <3>3
    <2>9. CASE RefuseReport(p) \/ Abort(p)
        <3>1. /\ sess' = [sess EXCEPT ![p] = Idle] /\ UNCHANGED dbVars
              /\ sess[p].pc # "idle"
            BY <2>0, <2>9 DEF RefuseReport, Abort, Close, Session, Idle
        <3>2. QED BY <2>2, <3>1 DEF dbVars, UndecidedInv, OneDecision, StagedOnce
    <2>10. CASE CommitApproval(p)
        <3> DEFINE a == sess[p].req
                   s == sess[p]
        <3>0. /\ a \in Requests /\ s.dec \in Decisions \cup {"none"} /\ s.insert \in BOOLEAN
              /\ s.pc = "write" /\ Fresh(p) /\ SessionInv(p)
            BY <2>0, <2>10, SessionFields DEF CommitApproval, IInv
        <3>1. Alone' /\ \A q \in Procs : Fresh(q)'
            BY <2>2, <2>10, <3>0 DEF CommitApproval, Close
        <3>2. /\ status'[a] = StatusAfter(a, s.dec)
              /\ \A b \in Requests : b # a => status'[b] = status[b] /\ reqAudit'[b] = reqAudit[b]
            BY <2>10, <3>0, <1>0 DEF CommitApproval, TypeOK
        <3>3. \A act \in {"approved", "rejected"} : reqAudit'[a][act] =
                  IF s.dec = act THEN reqAudit[a][act] + 1 ELSE reqAudit[a][act]
            BY <2>10, <3>0, <1>0
               DEF CommitApproval, TypeOK, AuditRows, RequestActions, Decisions
        <3>4. \A act \in {"approved", "rejected"}, b \in Requests : reqAudit[b][act] \in Nat
            BY <1>0 DEF TypeOK, RequestActions, Decisions
        <3>5. s.dec \in {"approved", "rejected"} =>
                  reqAudit[a]["approved"] = 0 /\ reqAudit[a]["rejected"] = 0
            BY <3>0 DEF Fresh, UndecidedInv
        <3>6. OneDecision'
            BY <3>0, <3>2, <3>3, <3>4, <3>5 DEF OneDecision, Decisions
        <3>7. UndecidedInv'
            BY <3>0, <3>2, <3>3, <3>4, <3>5 DEF UndecidedInv, StatusAfter, Decisions
        <3>8. StagedOnce'
            <4>1. CASE s.insert
                <5>1. PICK b \in Batches :
                          orders' = [o \in OrderIds |->
                              IF o \in NewOrders(a, b) THEN "staged" ELSE orders[o]]
                    BY <2>10, <4>1 DEF CommitApproval
                <5>2. \A t \in Trades, c \in Batches : orders'[<<a, t, c>>] # "absent" => c = b
                    <6> SUFFICES ASSUME NEW t \in Trades, NEW c \in Batches, c # b
                                 PROVE orders'[<<a, t, c>>] = "absent"
                        OBVIOUS
                    <6>1. <<a, t, c>> \in OrderIds /\ <<a, t, c>> \notin NewOrders(a, b)
                        BY <3>0 DEF OrderIds, NewOrders
                    <6>2. orders[<<a, t, c>>] = "absent"
                        BY <3>0, <4>1, <6>1 DEF Fresh
                    <6>3. QED BY <5>1, <6>1, <6>2
                <5>3. \A x \in Requests, t \in Trades, c \in Batches :
                          x # a => orders'[<<x, t, c>>] = orders[<<x, t, c>>]
                    BY <5>1 DEF OrderIds, NewOrders
                <5>4. QED BY <5>2, <5>3 DEF StagedOnce
            <4>2. CASE ~s.insert
                BY <2>10, <4>2 DEF CommitApproval, StagedOnce
            <4>3. QED BY <4>1, <4>2
        <3>9. QED BY <3>1, <3>6, <3>7, <3>8
    <2>11. ASSUME NEW o \in OrderIds, NEW to \in OrderStatus, LoadOrder(p, o, to)
           PROVE  XInv'
        <3> DEFINE s == [pc |-> "advance", ord |-> o, to |-> to]
        <3>1. sess' = [sess EXCEPT ![p] = s] /\ UNCHANGED dbVars /\ sess'[p] = s
                  /\ \A q \in Procs : sess[q].pc = "idle"
            BY <2>0, <2>3, <2>11 DEF LoadOrder, Open
        <3>2. Fresh(p)'
            BY <2>11, <3>1 DEF LoadOrder, Fresh, dbVars, ValidTransition
        <3>3. QED BY <2>1, <3>1, <3>2
    <2>12. CASE CommitOrder(p)
        <3>0. /\ sess[p].ord \in OrderIds /\ sess[p].to \in OrderStatus
              /\ sess[p].pc = "advance" /\ Fresh(p)
            BY <2>0, <2>12, SessionFields DEF CommitOrder
        <3>1. Alone' /\ \A q \in Procs : Fresh(q)'
            BY <2>2, <2>12, <3>0 DEF CommitOrder, Close
        <3>2. \A o \in OrderIds : orders'[o] # "absent" => orders[o] # "absent"
            BY <2>12, <3>0, <1>0 DEF CommitOrder, Fresh, ValidTransition, Edges, TypeOK
        <3>3. StagedOnce'
            BY <3>2 DEF StagedOnce, OrderIds
        <3>4. QED BY <2>12, <3>1, <3>3 DEF CommitOrder, UndecidedInv, OneDecision
    <2>13. QED
        BY <1>2, <2>4, <2>5, <2>6, <2>7, <2>8, <2>9, <2>10, <2>11, <2>12 DEF ProcNext
<1>3. QED BY <1>1, <1>2 DEF Next

LEMMA XInvariant == ASSUME Exclusive PROVE Spec => [](IInv /\ XInv)
<1>1. Init => IInv /\ XInv
    BY SafetyInit, XInit
<1>2. IInv /\ XInv /\ [Next]_vars => IInv' /\ XInv'
    BY SafetyStep, XStep
<1>3. QED BY <1>1, <1>2, PTL DEF Spec

(* When sessions do not overlap a request is decided at most once.         *)
THEOREM DecidedAtMostOnce == ASSUME Exclusive PROVE Spec => []OneDecision
<1>1. XInv => OneDecision
    BY DEF XInv
<1>2. QED BY <1>1, XInvariant, PTL

(* When sessions do not overlap a trade is staged as one order.            *)
THEOREM StagedAtMostOnce == ASSUME Exclusive PROVE Spec => []StagedOnce
<1>1. XInv => StagedOnce
    BY DEF XInv
<1>2. QED BY <1>1, XInvariant, PTL

(* What the two sessions that write orders do to them.                     *)
LEMMA StagingEffect ==
    ASSUME IInv, XInv, NEW p \in Procs, CommitApproval(p)
    PROVE  /\ sess[p].req \in Requests /\ sess[p].insert \in BOOLEAN
           /\ ~sess[p].insert => orders' = orders
           /\ sess[p].insert =>
                  /\ sess[p].dec \in {"none", "approved"}
                  /\ status'[sess[p].req] = "approved"
                  /\ subject[sess[p].req] # NoRun
                  /\ \A o \in OrderIds : o[1] = sess[p].req => orders[o] = "absent"
                  /\ \E b \in Batches : orders' = [o \in OrderIds |->
                         IF o \in NewOrders(sess[p].req, b) THEN "staged" ELSE orders[o]]
<1>0. /\ sess[p].req \in Requests /\ sess[p].insert \in BOOLEAN /\ sess[p].pc = "write"
      /\ Fresh(p) /\ SessionInv(p) /\ status \in [Requests -> Decisions \cup {"absent"}]
    BY SessionFields DEF CommitApproval, IInv, XInv, TypeOK
<1>1. ~sess[p].insert => orders' = orders
    BY DEF CommitApproval
<1>2. ASSUME sess[p].insert
      PROVE  /\ sess[p].dec \in {"none", "approved"}
             /\ status'[sess[p].req] = "approved"
             /\ subject[sess[p].req] # NoRun
    <2>1. sess[p].dec \in {"none", "approved"} /\ subject[sess[p].req] # NoRun
        BY <1>0, <1>2 DEF SessionInv, ReadApproved
    <2>2. status'[sess[p].req] = StatusAfter(sess[p].req, sess[p].dec)
        BY <1>0 DEF CommitApproval
    <2>3. QED BY <1>0, <1>2, <2>1, <2>2 DEF Fresh, StatusAfter
<1>3. sess[p].insert =>
          /\ \A o \in OrderIds : o[1] = sess[p].req => orders[o] = "absent"
          /\ \E b \in Batches : orders' = [o \in OrderIds |->
                 IF o \in NewOrders(sess[p].req, b) THEN "staged" ELSE orders[o]]
    BY <1>0 DEF Fresh, CommitApproval
<1>4. QED BY <1>0, <1>1, <1>2, <1>3

LEMMA OrderEffect ==
    ASSUME IInv, XInv, NEW p \in Procs, CommitOrder(p)
    PROVE  /\ sess[p].ord \in OrderIds
           /\ orders' = [orders EXCEPT ![sess[p].ord] = sess[p].to]
           /\ <<orders[sess[p].ord], sess[p].to>> \in Edges
           /\ UNCHANGED <<status, subject>>
<1>1. sess[p].ord \in OrderIds /\ sess[p].pc = "advance" /\ Fresh(p)
    BY SessionFields DEF CommitOrder, IInv, XInv, TypeOK
<1>2. QED BY <1>1 DEF CommitOrder, Fresh, ValidTransition

(* The steps that leave requests and orders alone.                         *)
Reads(p) ==
    \/ \E a \in Requests, dec \in Decisions : LoadForDecision(p, a, dec)
    \/ \E a \in Requests : LoadForApproval(p, a) \/ LoadForStaging(p, a)
    \/ CheckStaged(p) \/ RefuseReport(p) \/ Abort(p)
    \/ \E o \in OrderIds, to \in OrderStatus : LoadOrder(p, o, to)

LEMMA ReadsChangeNothing ==
    ASSUME NEW p \in Procs, Reads(p)
    PROVE  UNCHANGED <<status, subject, orders>>
BY DEF Reads, LoadForDecision, LoadForApproval, LoadForStaging, CheckStaged, RefuseReport,
       Abort, LoadOrder, Open, dbVars

LEMMA StepKinds ==
    ASSUME NEW p \in Procs, ProcNext(p)
    PROVE  \/ \E a \in Requests, run \in Runs \cup {NoRun} : Create(p, a, run)
           \/ CommitApproval(p)
           \/ CommitOrder(p)
           \/ Reads(p)
BY DEF ProcNext, Reads

(* When sessions do not overlap an order moves along the allowed edges.    *)
THEOREM OrdersMoveLegally == ASSUME Exclusive PROVE Spec => LegalEdges
<1>1. IInv /\ XInv /\ [Next]_vars =>
          [\A o \in OrderIds :
              orders[o] # "absent" /\ orders'[o] # orders[o] =>
                  <<orders[o], orders'[o]>> \in
                      {"staged"} \X {"submitted", "cancelled"}
                          \cup {"submitted"} \X {"filled", "cancelled"}]_vars
    <2> SUFFICES ASSUME IInv, XInv, NEW p \in Procs, ProcNext(p), NEW o \in OrderIds,
                        orders[o] # "absent", orders'[o] # orders[o]
                 PROVE  <<orders[o], orders'[o]>> \in
                            {"staged"} \X {"submitted", "cancelled"}
                                \cup {"submitted"} \X {"filled", "cancelled"}
        BY DEF Next
    <2>1. CASE CommitApproval(p)
        <3>1. CASE ~sess[p].insert
            BY <2>1, <3>1, StagingEffect
        <3>2. CASE sess[p].insert
            <4>1. PICK b \in Batches : orders' = [x \in OrderIds |->
                         IF x \in NewOrders(sess[p].req, b) THEN "staged" ELSE orders[x]]
                BY <2>1, <3>2, StagingEffect
            <4>2. o \in NewOrders(sess[p].req, b)
                BY <4>1
            <4>3. QED BY <2>1, <3>2, <4>2, StagingEffect, NewOrdersFields
        <3>3. QED BY <3>1, <3>2
    <2>2. CASE CommitOrder(p)
        <3>1. orders \in [OrderIds -> OrderStatus \cup {"absent"}]
            BY DEF IInv, TypeOK
        <3>2. o = sess[p].ord /\ orders'[o] = sess[p].to
            BY <2>2, <3>1, OrderEffect
        <3>3. QED BY <2>2, <3>2, OrderEffect DEF Edges
    <2>3. CASE \E a \in Requests, run \in Runs \cup {NoRun} : Create(p, a, run)
        BY <2>3 DEF Create
    <2>4. QED BY <2>1, <2>2, <2>3, StepKinds, ReadsChangeNothing
<1>2. QED BY <1>1, XInvariant, PTL DEF Spec, LegalEdges

(* When sessions do not overlap an order is staged only while its request  *)
(* is approved.                                                            *)
THEOREM StagingIsApproved == ASSUME Exclusive PROVE Spec => StagedUnderApproval
<1>1. IInv /\ XInv /\ [Next]_vars =>
          [\A o \in OrderIds :
              orders[o] = "absent" /\ orders'[o] # "absent" =>
                  status'[o[1]] = "approved"]_vars
    <2> SUFFICES ASSUME IInv, XInv, NEW p \in Procs, ProcNext(p), NEW o \in OrderIds,
                        orders[o] = "absent", orders'[o] # "absent"
                 PROVE  status'[o[1]] = "approved"
        BY DEF Next
    <2>1. CASE CommitApproval(p)
        <3>1. sess[p].insert
            BY <2>1, StagingEffect
        <3>2. PICK b \in Batches : orders' = [x \in OrderIds |->
                     IF x \in NewOrders(sess[p].req, b) THEN "staged" ELSE orders[x]]
            BY <2>1, <3>1, StagingEffect
        <3>3. o[1] = sess[p].req
            BY <3>2, NewOrdersFields
        <3>4. QED BY <2>1, <3>1, <3>3, StagingEffect
    <2>2. CASE CommitOrder(p)
        <3>1. orders \in [OrderIds -> OrderStatus \cup {"absent"}]
            BY DEF IInv, TypeOK
        <3>2. QED BY <2>2, <3>1, OrderEffect DEF Edges
    <2>3. CASE \E a \in Requests, run \in Runs \cup {NoRun} : Create(p, a, run)
        BY <2>3 DEF Create
    <2>4. QED BY <2>1, <2>2, <2>3, StepKinds, ReadsChangeNothing
<1>2. QED BY <1>1, XInvariant, PTL DEF Spec, StagedUnderApproval

-----------------------------------------------------------------------------
(* The refinement.                                                         *)

OrderIn(f, a, t) ==
    IF \E b \in Batches : f[<<a, t, b>>] # "absent"
    THEN f[<<a, t, CHOOSE b \in Batches : f[<<a, t, b>>] # "absent">>]
    ELSE "absent"

OnceIn(f) ==
    \A a \in Requests, t \in Trades, b, c \in Batches :
        f[<<a, t, b>>] # "absent" /\ f[<<a, t, c>>] # "absent" => b = c

LEMMA OrderInOnly ==
    ASSUME NEW f, OnceIn(f), NEW a \in Requests, NEW t \in Trades, NEW b \in Batches,
           f[<<a, t, b>>] # "absent"
    PROVE  OrderIn(f, a, t) = f[<<a, t, b>>]
<1> DEFINE c == CHOOSE c \in Batches : f[<<a, t, c>>] # "absent"
<1>1. c \in Batches /\ f[<<a, t, c>>] # "absent"
    OBVIOUS
<1>2. c = b
    BY <1>1 DEF OnceIn
<1>3. QED BY <1>2 DEF OrderIn

LEMMA OrderInNone ==
    ASSUME NEW f, NEW a, NEW t, \A b \in Batches : f[<<a, t, b>>] = "absent"
    PROVE  OrderIn(f, a, t) = "absent"
BY DEF OrderIn

(* Equal rows, equal order.                                                *)
LEMMA OrderInSame ==
    ASSUME NEW f, NEW g, OnceIn(f), OnceIn(g), NEW a \in Requests, NEW t \in Trades,
           \A b \in Batches : f[<<a, t, b>>] = g[<<a, t, b>>]
    PROVE  OrderIn(f, a, t) = OrderIn(g, a, t)
<1>1. CASE \E b \in Batches : f[<<a, t, b>>] # "absent"
    <2>1. PICK b \in Batches : f[<<a, t, b>>] # "absent"
        BY <1>1
    <2>2. OrderIn(f, a, t) = f[<<a, t, b>>] /\ OrderIn(g, a, t) = g[<<a, t, b>>]
        BY <2>1, OrderInOnly
    <2>3. QED BY <2>2
<1>2. CASE \A b \in Batches : f[<<a, t, b>>] = "absent"
    BY <1>2, OrderInNone
<1>3. QED BY <1>1, <1>2

Mapped == [a \in Requests |-> [t \in Trades |-> OrderOf(a, t)]]
MappedIn(f) == [a \in Requests |-> [t \in Trades |-> OrderIn(f, a, t)]]

LEMMA MappedAre ==
    /\ Mapped = MappedIn(orders)
    /\ Mapped' = MappedIn(orders')
BY DEF Mapped, MappedIn, OrderOf, OrderIn

(* When sessions do not overlap they implement the approval gate.          *)
THEOREM Refinement == ASSUME Exclusive PROVE Spec => ImplementsGate
<1> USE DEF Gate!vars
<1>1. Init => Gate!Init
    <2> SUFFICES ASSUME Init PROVE Gate!Init
        OBVIOUS
    <2>1. \A a \in Requests, t \in Trades : OrderOf(a, t) = "absent"
        BY DEF Init, OrderOf, OrderIds
    <2>2. QED BY <2>1 DEF Init, Gate!Init, Gate!NoOrders
<1>2. IInv /\ XInv /\ XInv' /\ [Next]_vars => [Gate!Next]_<<status, subject, Mapped>>
    <2> SUFFICES ASSUME IInv, XInv, XInv', [Next]_vars
                 PROVE  [Gate!Next]_<<status, subject, Mapped>>
        OBVIOUS
    <2>0. /\ Mapped = MappedIn(orders) /\ Mapped' = MappedIn(orders')
          /\ OnceIn(orders) /\ OnceIn(orders')
          /\ orders \in [OrderIds -> OrderStatus \cup {"absent"}]
          /\ status \in [Requests -> Decisions \cup {"absent"}]
        BY MappedAre DEF XInv, StagedOnce, OnceIn, IInv, TypeOK
    <2>1. orders' = orders => Mapped' = Mapped
        BY <2>0
    <2>2. CASE UNCHANGED vars
        BY <2>1, <2>2 DEF vars
    <2>3. ASSUME NEW p \in Procs, NEW a \in Requests, NEW run \in Runs \cup {NoRun},
                 Create(p, a, run)
          PROVE  Gate!Next
        <3>1. Gate!Request(a, run)
            BY <2>1, <2>3 DEF Create, Gate!Request, Mapped
        <3>2. QED BY <3>1 DEF Gate!Next
    <2>4. ASSUME NEW p \in Procs, CommitApproval(p)
          PROVE  [Gate!Next]_<<status, subject, Mapped>>
        <3> DEFINE a == sess[p].req
                   dec == sess[p].dec
        <3>0. /\ a \in Requests /\ dec \in Decisions \cup {"none"}
              /\ sess[p].pc = "write" /\ Fresh(p) /\ sess[p].insert \in BOOLEAN
            BY <2>4, SessionFields DEF CommitApproval, IInv, XInv, TypeOK
        <3>1. status' = [status EXCEPT ![a] = StatusAfter(a, dec)] /\ subject' = subject
            BY <2>4 DEF CommitApproval
        <3>2. CASE ~sess[p].insert
            <4>1. Mapped' = Mapped
                BY <2>1, <2>4, <3>2, StagingEffect
            <4>2. CASE dec \in {"approved", "rejected"}
                <5>1. status[a] = "pending"
                    BY <3>0, <4>2 DEF Fresh
                <5>2. Gate!Decide(a, dec)
                    BY <3>0, <3>1, <4>1, <4>2, <5>1 DEF Gate!Decide, StatusAfter, Mapped
                <5>3. QED BY <3>0, <4>2, <5>2 DEF Gate!Next
            <4>3. CASE dec \notin {"approved", "rejected"}
                <5>1. status' = status
                    BY <2>0, <3>0, <3>1, <4>3 DEF StatusAfter
                <5>2. QED BY <3>1, <4>1, <5>1
            <4>4. QED BY <4>2, <4>3
        <3>3. CASE sess[p].insert
            <4>1. /\ dec \in {"none", "approved"} /\ subject[a] # NoRun
                  /\ status'[a] = "approved"
                  /\ \A o \in OrderIds : o[1] = a => orders[o] = "absent"
                BY <2>4, <3>3, StagingEffect
            <4>2. PICK b \in Batches : orders' = [o \in OrderIds |->
                       IF o \in NewOrders(a, b) THEN "staged" ELSE orders[o]]
                BY <2>4, <3>3, StagingEffect
            <4>3. \A t \in Trades : OrderIn(orders, a, t) = "absent"
                BY <3>0, <4>1, OrderInNone DEF OrderIds
            <4>4. ASSUME NEW t \in Trades
                  PROVE  OrderIn(orders', a, t)
                             = IF t \in TradesOf[subject[a]] THEN "staged" ELSE "absent"
                <5>1. \A c \in Batches : <<a, t, c>> \in OrderIds
                    BY <3>0 DEF OrderIds
                <5>2. \A c \in Batches :
                          <<a, t, c>> \in NewOrders(a, b) <=> t \in TradesOf[subject[a]] /\ c = b
                    BY DEF NewOrders
                <5>3. CASE t \in TradesOf[subject[a]]
                    <6>1. orders'[<<a, t, b>>] = "staged"
                        BY <4>2, <5>1, <5>2, <5>3
                    <6>2. QED BY <2>0, <3>0, <5>3, <6>1, OrderInOnly
                <5>4. CASE t \notin TradesOf[subject[a]]
                    <6>1. \A c \in Batches : orders'[<<a, t, c>>] = "absent"
                        BY <4>1, <4>2, <5>1, <5>2, <5>4
                    <6>2. QED BY <5>4, <6>1, OrderInNone
                <5>5. QED BY <5>3, <5>4
            <4>5. ASSUME NEW x \in Requests, x # a, NEW t \in Trades
                  PROVE  OrderIn(orders', x, t) = OrderIn(orders, x, t)
                <5>1. \A c \in Batches : orders'[<<x, t, c>>] = orders[<<x, t, c>>]
                    BY <4>2, <4>5 DEF OrderIds, NewOrders
                <5>2. QED BY <2>0, <5>1, OrderInSame
            <4>6. Mapped[a] = Gate!NoOrders
                BY <2>0, <3>0, <4>3 DEF MappedIn, Gate!NoOrders
            <4>7. Mapped' = [Mapped EXCEPT ![a] =
                      [t \in Trades |-> IF t \in TradesOf[subject[a]] THEN "staged"
                                                                     ELSE "absent"]]
                BY <2>0, <3>0, <4>4, <4>5 DEF MappedIn
            <4>8. Gate!PlaceOrders(a)
                BY <4>1, <4>6, <4>7 DEF Gate!PlaceOrders, Mapped
            <4>9. CASE dec = "none"
                <5>1. status[a] = "approved" /\ status' = status
                    BY <2>0, <3>0, <3>1, <3>3, <4>9 DEF Fresh, StatusAfter
                <5>2. Gate!Stage(a)
                    BY <3>1, <4>8, <5>1 DEF Gate!Stage
                <5>3. QED BY <3>0, <5>2 DEF Gate!Next
            <4>10. CASE dec = "approved"
                <5>1. status[a] = "pending" /\ status' = [status EXCEPT ![a] = "approved"]
                    BY <3>0, <3>1, <4>10 DEF Fresh, StatusAfter
                <5>2. Gate!ApproveAndStage(a)
                    BY <3>1, <4>8, <5>1 DEF Gate!ApproveAndStage
                <5>3. QED BY <3>0, <5>2 DEF Gate!Next
            <4>11. QED BY <4>1, <4>9, <4>10
        <3>4. QED BY <3>0, <3>2, <3>3
    <2>5. ASSUME NEW p \in Procs, CommitOrder(p)
          PROVE  Gate!Next
        <3> DEFINE o == sess[p].ord
                   to == sess[p].to
        <3>1. /\ o \in OrderIds /\ orders' = [orders EXCEPT ![o] = to]
              /\ <<orders[o], to>> \in Edges /\ UNCHANGED <<status, subject>>
            BY <2>5, OrderEffect
        <3>2. PICK a \in Requests, t \in Trades, b \in Batches : o = <<a, t, b>>
            BY <3>1 DEF OrderIds
        <3>3. /\ orders'[o] = to /\ to # "absent" /\ orders[o] # "absent"
              /\ \A x \in OrderIds : x # o => orders'[x] = orders[x]
            BY <2>0, <3>1 DEF Edges
        <3>4. OrderIn(orders, a, t) = orders[o] /\ OrderIn(orders', a, t) = to
            BY <2>0, <3>2, <3>3, OrderInOnly
        <3>5. ASSUME NEW x \in Requests, NEW u \in Trades, x # a \/ u # t
              PROVE  OrderIn(orders', x, u) = OrderIn(orders, x, u)
            <4>1. \A c \in Batches : orders'[<<x, u, c>>] = orders[<<x, u, c>>]
                BY <3>2, <3>3, <3>5 DEF OrderIds
            <4>2. QED BY <2>0, <4>1, OrderInSame
        <3>6. Mapped' = [Mapped EXCEPT ![a][t] = to]
            <4> DEFINE New(x, u) == IF x = a /\ u = t THEN to ELSE OrderIn(orders, x, u)
            <4>1. \A x \in Requests, u \in Trades : OrderIn(orders', x, u) = New(x, u)
                BY <3>4, <3>5
            <4>2. Mapped' = [x \in Requests |-> [u \in Trades |-> New(x, u)]]
                BY <2>0, <4>1 DEF MappedIn
            <4>3. [Mapped EXCEPT ![a][t] = to]
                      = [x \in Requests |-> [u \in Trades |-> New(x, u)]]
                BY <2>0 DEF MappedIn
            <4>4. QED BY <4>2, <4>3
        <3>7. Mapped[a][t] = orders[o]
            BY <2>0, <3>4 DEF MappedIn
        <3>8. Gate!Advance(a, t, orders[o], to)
            BY <3>1, <3>6, <3>7 DEF Gate!Advance, Mapped
        <3>9. QED BY <3>1, <3>8 DEF Edges, Gate!Next
    <2>6. ASSUME NEW p \in Procs, Reads(p)
          PROVE  UNCHANGED <<status, subject, Mapped>>
        BY <2>1, <2>6, ReadsChangeNothing
    <2>7. QED BY <2>2, <2>3, <2>4, <2>5, <2>6, StepKinds DEF Next
<1>3. QED BY <1>1, <1>2, XInvariant, PTL DEF Spec, ImplementsGate, Gate!Spec, Mapped
=============================================================================
