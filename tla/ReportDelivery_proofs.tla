------------------------- MODULE ReportDelivery_proofs -------------------------
(***************************************************************************)
(* Proofs about ReportDelivery, for any processes, snapshots and digests.  *)
(***************************************************************************)
EXTENDS ReportDelivery, WellFoundedInduction, TLAPS

(* Past its flush a sign-off holds the write lock; past the gates, and     *)
(* with something rendered, both gates are still open for it.              *)
PastFlush(p) == sess[p].pc \in {"gate", "render", "commit"} /\ sess[p].at # 0

PastGates(p) ==
    /\ PastFlush(p)
    /\ \/ sess[p].pc = "render"
       \/ sess[p].pc = "commit" /\ sess[p].digest # "none"

LockInv == \A p \in Procs : PastFlush(p) => lock = p

GatesOpen(p) == PastGates(p) => ~breaks /\ Latest(Seen(sess[p])) = "approved"

GateInv == \A p \in Procs : GatesOpen(p)

IInv == TypeOK /\ LockInv /\ GateInv

LEMMA SessionFields ==
    ASSUME NEW s \in Session
    PROVE  /\ s.pc # "idle" => s.snap \in Snapshots
           /\ s.pc \in {"stamped", "decide"} => s.at \in Stamps /\ s.dec \in Decisions
           /\ s.pc \in {"gate", "render", "commit"} => s.at \in Stamps \cup {0}
           /\ s.pc = "commit" => s.digest \in Pinned
           /\ s.pc \in {"gate", "render"} =>
                  s = [pc |-> s.pc, snap |-> s.snap, at |-> s.at]
    BY DEF Session

LEMMA NestedUpdate ==
    ASSUME NEW A, NEW B, NEW C, NEW f \in [A -> [B -> C]],
           NEW a \in A, NEW b \in B, NEW c \in C
    PROVE  [f EXCEPT ![a][b] = c] \in [A -> [B -> C]]
<1>1. f[a] \in [B -> C]
    OBVIOUS
<1>2. [f[a] EXCEPT ![b] = c] \in [B -> C]
    BY <1>1
<1>3. QED BY <1>2

LEMMA TypeInit == Init => TypeOK
<1> SUFFICES ASSUME Init PROVE TypeOK
    OBVIOUS
<1>1. Idle \in Session
    BY DEF Idle, Session
<1>2. sess \in [Procs -> Session]
    BY <1>1 DEF Init
<1>3. QED BY <1>2 DEF Init, TypeOK, Pinned

LEMMA TypeStep == TypeOK /\ [Next]_vars => TypeOK'
<1> SUFFICES ASSUME TypeOK, [Next]_vars PROVE TypeOK'
    OBVIOUS
<1> USE DeliveryAssumption DEF TypeOK, Goto, Release, dbVars, fileVars
<1>1. CASE UNCHANGED vars
    BY <1>1 DEF vars
<1>2. CASE OpenBreak
    BY <1>2 DEF OpenBreak
<1>3. ASSUME NEW p \in Procs, ProcNext(p) PROVE TypeOK'
    <2>0. sess[p] \in Session /\ Idle \in Session
        BY DEF Session, Idle
    <2>1. ASSUME NEW s \in Snapshots, Draft(p, s) PROVE TypeOK'
        <3>1. [pc |-> "draft", snap |-> s] \in Session
            BY DEF Session
        <3>2. QED BY <2>1, <3>1 DEF Draft
    <2>2. CASE Bundle(p)
        <3>1. sess[p].snap \in Snapshots
            BY <2>0, <2>2, SessionFields DEF Bundle
        <3>2. [pc |-> "gate", snap |-> sess[p].snap, at |-> 0] \in Session
            BY <3>1 DEF Session
        <3>3. QED BY <2>2, <3>1, <3>2 DEF Bundle
    <2>3. ASSUME NEW s \in Snapshots, NEW dec \in {"approved", "pending"}, Stamp(p, s, dec)
          PROVE TypeOK'
        <3>1. clock + 1 \in Stamps
            BY <2>3 DEF Stamp, Stamps
        <3>2. [pc |-> "stamped", snap |-> s, at |-> clock + 1, dec |-> dec] \in Session
            BY <3>1 DEF Session, Decisions
        <3>3. QED BY <2>3, <3>1, <3>2 DEF Stamp
    <2>4. CASE CommitRequest(p)
        <3>1. sess[p].snap \in Snapshots /\ sess[p].at \in Stamps
            BY <2>0, <2>4, SessionFields DEF CommitRequest
        <3>2. QED BY <2>0, <2>4, <3>1 DEF CommitRequest, Decisions
    <2>5. CASE FlushApproval(p)
        <3>1. sess[p].snap \in Snapshots /\ sess[p].at \in Stamps
            BY <2>0, <2>5, SessionFields DEF FlushApproval
        <3>2. [pc |-> "gate", snap |-> sess[p].snap, at |-> sess[p].at] \in Session
            BY <3>1 DEF Session
        <3>3. QED BY <2>5, <3>1, <3>2 DEF FlushApproval
    <2>6. ASSUME NEW s \in Snapshots, NEW n \in Stamps, NEW dec \in Decisions,
                 LoadDecision(p, s, n, dec)
          PROVE TypeOK'
        <3>1. [pc |-> "decide", snap |-> s, at |-> n, dec |-> dec] \in Session
            BY DEF Session
        <3>2. QED BY <2>6, <3>1 DEF LoadDecision
    <2>7. CASE CommitDecision(p)
        <3>1. sess[p].snap \in Snapshots /\ sess[p].at \in Stamps /\ sess[p].dec \in Decisions
            BY <2>0, <2>7, SessionFields DEF CommitDecision
        <3>2. status' \in [Snapshots -> [Stamps -> Decisions \cup {"absent"}]]
            <4>1. \/ status' = status
                  \/ status' = [status EXCEPT ![sess[p].snap][sess[p].at] = sess[p].dec]
                BY <2>7 DEF CommitDecision
            <4>2. status \in [Snapshots -> [Stamps -> Decisions \cup {"absent"}]]
                OBVIOUS
            <4>3. [status EXCEPT ![sess[p].snap][sess[p].at] = sess[p].dec]
                      \in [Snapshots -> [Stamps -> Decisions \cup {"absent"}]]
                <5> DEFINE C == Decisions \cup {"absent"}
                <5>1. sess[p].dec \in C /\ status \in [Snapshots -> [Stamps -> C]]
                    BY <3>1
                <5> HIDE DEF C, TypeOK
                <5>2. [status EXCEPT ![sess[p].snap][sess[p].at] = sess[p].dec]
                          \in [Snapshots -> [Stamps -> C]]
                    BY <3>1, <5>1, NestedUpdate
                <5>3. QED BY <5>2 DEF C
            <4>4. QED BY <4>1, <4>2, <4>3
        <3>3. decided' \subseteq Snapshots \X Stamps \X Decisions
            BY <2>7, <3>1 DEF CommitDecision
        <3>4. /\ UNCHANGED <<fileVars, clock, buildAudit, signAudit, breaks, lock>>
              /\ sess' \in [Procs -> Session]
            BY <2>0, <2>7 DEF CommitDecision
        <3>5. QED BY <3>2, <3>3, <3>4
    <2>8. CASE Gate(p)
        <3>1. sess[p].snap \in Snapshots /\ sess[p].at \in Stamps \cup {0}
            BY <2>0, <2>8, SessionFields DEF Gate
        <3>2. [sess[p] EXCEPT !.pc = "render"] \in Session
            <4>1. sess[p] = [pc |-> "gate", snap |-> sess[p].snap, at |-> sess[p].at]
                BY <2>0, <2>8, SessionFields DEF Gate
            <4>2. [sess[p] EXCEPT !.pc = "render"]
                      = [pc |-> "render", snap |-> sess[p].snap, at |-> sess[p].at]
                BY <4>1
            <4>3. QED BY <4>2, <3>1 DEF Session
        <3>3. [pc |-> "commit", snap |-> sess[p].snap, at |-> sess[p].at,
               digest |-> "none"] \in Session
            BY <3>1 DEF Session, Pinned
        <3>4. QED BY <2>8, <3>2, <3>3 DEF Gate
    <2>9. CASE Render(p)
        <3>1. sess[p].snap \in Snapshots /\ sess[p].at \in Stamps \cup {0}
            BY <2>0, <2>9, SessionFields DEF Render
        <3>2. \A d \in Digests : [pc |-> "commit", snap |-> sess[p].snap, at |-> sess[p].at,
                                  digest |-> d] \in Session
            BY <3>1 DEF Session, Pinned
        <3>3. QED BY <2>9, <3>1, <3>2 DEF Render, Pinned
    <2>10. CASE RenderFails(p)
        <3>1. sess[p].snap \in Snapshots
            BY <2>0, <2>10, SessionFields DEF RenderFails
        <3>2. QED BY <2>0, <2>10, <3>1 DEF RenderFails
    <2>11. CASE CommitBuild(p)
        <3>1. sess[p].snap \in Snapshots /\ sess[p].digest \in Pinned
            BY <2>0, <2>11, SessionFields DEF CommitBuild
        <3>2. QED BY <2>0, <2>11, <3>1 DEF CommitBuild
    <2>12. CASE CommitApproval(p)
        <3>1. /\ sess[p].snap \in Snapshots /\ sess[p].digest \in Pinned
              /\ sess[p].at \in Stamps
            BY <2>0, <2>12, SessionFields DEF CommitApproval
        <3>2. QED BY <2>0, <2>12, <3>1 DEF CommitApproval, Decisions
    <2>13. CASE Abort(p)
        <3>1. sess[p].pc = "commit" => sess[p].snap \in Snapshots
            BY <2>0, SessionFields
        <3>2. strays' \subseteq Snapshots
            BY <2>13, <3>1 DEF Abort
        <3>3. UNCHANGED <<disk, pdf, clock, dbVars>> /\ sess' \in [Procs -> Session]
              /\ lock' \in Procs \cup {NoProc}
            BY <2>0, <2>13 DEF Abort
        <3>4. QED BY <3>2, <3>3
    <2>14. ASSUME NEW s \in Snapshots, ReportPdf(p, s) PROVE TypeOK'
        BY <2>14 DEF ReportPdf, Pinned
    <2>15. QED
        BY <1>3, <2>1, <2>2, <2>3, <2>4, <2>5, <2>6, <2>7, <2>8, <2>9, <2>10, <2>11,
           <2>12, <2>13, <2>14 DEF ProcNext
<1>4. QED
    BY <1>1, <1>2, <1>3 DEF Next

(* Every variable keeps its type.                                          *)
THEOREM TypeCorrect == Spec => []TypeOK
    BY TypeInit, TypeStep, PTL DEF Spec

-----------------------------------------------------------------------------
(* Seen depends on the committed requests of the snapshot only.            *)
LEMMA InvInit == Init => IInv
    BY TypeInit DEF Init, IInv, LockInv, GateInv, GatesOpen, PastFlush, PastGates, Idle

LEMMA InvStep == IInv /\ [Next]_vars => IInv'
<1> SUFFICES ASSUME IInv, [Next]_vars PROVE IInv'
    OBVIOUS
<1> USE DeliveryAssumption DEF IInv, Goto
<1>0. TypeOK /\ TypeOK' /\ LockInv /\ GateInv
    BY TypeStep
<1>1. CASE UNCHANGED vars
    BY <1>1, <1>0 DEF vars, dbVars, fileVars, LockInv, GateInv, GatesOpen, PastFlush, PastGates,
                     Seen, Latest
<1>2. CASE OpenBreak
    <2>1. \A p \in Procs : ~PastFlush(p)
        BY <1>0, <1>2 DEF OpenBreak, LockInv
    <2>2. sess' = sess
        BY <1>2 DEF OpenBreak
    <2>3. QED BY <1>0, <2>1, <2>2 DEF LockInv, GateInv, GatesOpen, PastFlush, PastGates
<1>3. ASSUME NEW p \in Procs, ProcNext(p) PROVE IInv'
    <2>0. \A q \in Procs : sess[q] \in Session
        BY <1>0 DEF TypeOK
    (* Who does not move keeps the lock, if it had it.                     *)
    <2>1. ASSUME NEW s, sess' = [sess EXCEPT ![p] = s],
                 lock' = lock \/ lock = NoProc \/ (lock = p /\ lock' = NoProc),
                 \A q \in Procs : PastFlush(q) /\ q # p => breaks' = breaks /\ status' = status,
                 PastFlush(p)' => lock' = p,
                 GatesOpen(p)'
          PROVE  IInv'
        <3>1. \A q \in Procs : q # p => sess'[q] = sess[q]
            BY <1>0, <2>1 DEF TypeOK
        <3>2. sess'[p] = s
            BY <1>0, <2>1 DEF TypeOK
        <3>3. LockInv'
            BY <1>0, <2>1, <3>1 DEF LockInv, PastFlush
        <3>4. ASSUME NEW q \in Procs, q # p PROVE GatesOpen(q)'
            <4>1. sess'[q] = sess[q] /\ GatesOpen(q)
                BY <1>0, <3>1, <3>4 DEF GateInv
            <4>2. PastGates(q)' => PastGates(q) /\ PastFlush(q)
                BY <4>1 DEF PastGates, PastFlush
            <4>3. PastFlush(q) => breaks' = breaks /\ status' = status
                BY <2>1, <3>4
            <4>4. QED BY <4>1, <4>2, <4>3 DEF GatesOpen, Seen, Latest
        <3>5. GateInv'
            BY <2>1, <3>4 DEF GateInv
        <3>6. QED BY <1>0, <3>3, <3>5
    (* A session that is not past its flush afterwards owes nothing.       *)
    <2>2. ASSUME NEW s, sess' = [sess EXCEPT ![p] = s],
                 lock' = lock \/ (lock = p /\ lock' = NoProc),
                 \/ breaks' = breaks /\ status' = status
                 \/ lock \in {NoProc, p},
                 s.pc \in {"idle", "draft", "stamped", "decide"} \/ s.at = 0
          PROVE  IInv'
        <3>1. sess'[p] = s
            BY <1>0, <2>2 DEF TypeOK
        <3>2. ~PastFlush(p)' /\ GatesOpen(p)'
            BY <2>2, <3>1 DEF PastFlush, PastGates, GatesOpen
        <3>3. \A q \in Procs : PastFlush(q) /\ q # p => breaks' = breaks /\ status' = status
            BY <1>0, <2>2 DEF LockInv
        <3>4. QED BY <2>1, <2>2, <3>2, <3>3
    <2>3. CASE \/ \E s \in Snapshots : Draft(p, s)
               \/ Bundle(p)
               \/ \E s \in Snapshots, dec \in {"approved", "pending"} : Stamp(p, s, dec)
               \/ \E s \in Snapshots, n \in Stamps, dec \in Decisions :
                      LoadDecision(p, s, n, dec)
        BY <2>2, <2>3 DEF Draft, Bundle, Stamp, LoadDecision, dbVars
    <2>4. CASE CommitRequest(p) \/ CommitDecision(p) \/ CommitBuild(p)
        BY <2>2, <2>4 DEF CommitRequest, CommitDecision, CommitBuild, Idle
    <2>5. CASE RenderFails(p) \/ Abort(p)
        BY <2>2, <2>5 DEF RenderFails, Abort, Release, Idle, dbVars
    <2>6. CASE CommitApproval(p)
        <3>1. lock = p
            BY <1>0, <2>6 DEF CommitApproval, LockInv, PastFlush
        <3>2. QED BY <2>2, <2>6, <3>1 DEF CommitApproval, Release, Idle
    <2>7. CASE FlushApproval(p)
        <3> DEFINE s == [pc |-> "gate", snap |-> sess[p].snap, at |-> sess[p].at]
        <3>1. sess' = [sess EXCEPT ![p] = s] /\ sess'[p] = s /\ lock = NoProc /\ lock' = p
            BY <1>0, <2>7 DEF FlushApproval, TypeOK
        <3>2. GatesOpen(p)'
            BY <3>1 DEF PastGates, GatesOpen
        <3>3. breaks' = breaks /\ status' = status
            BY <2>7 DEF FlushApproval, dbVars
        <3> HIDE DEF s
        <3>4. QED BY <2>1, <3>1, <3>2, <3>3
    <2>8. CASE Gate(p)
        <3>0. /\ sess[p].pc = "gate"
              /\ sess[p] = [pc |-> "gate", snap |-> sess[p].snap, at |-> sess[p].at]
              /\ breaks' = breaks /\ status' = status /\ lock' = lock
            BY <2>0, <2>8, SessionFields DEF Gate, dbVars
        <3>1. CASE MayRender(sess[p])
            <4> DEFINE s == [pc |-> "render", snap |-> sess[p].snap, at |-> sess[p].at]
            <4>1. sess' = [sess EXCEPT ![p] = s] /\ sess'[p] = s
                BY <1>0, <2>8, <3>0, <3>1 DEF Gate, TypeOK
            <4>2. PastFlush(p)' => lock' = p
                BY <1>0, <3>0, <4>1 DEF LockInv, PastFlush
            <4>3. GatesOpen(p)'
                <5>1. Seen(sess[p])' = Seen(sess[p])
                    BY <3>0, <4>1 DEF Seen
                <5>2. QED BY <3>0, <3>1, <5>1 DEF MayRender, Latest, GatesOpen
            <4> HIDE DEF s
            <4>4. QED BY <2>1, <3>0, <4>1, <4>2, <4>3
        <3>2. CASE ~MayRender(sess[p])
            <4> DEFINE s == [pc |-> "commit", snap |-> sess[p].snap, at |-> sess[p].at,
                             digest |-> "none"]
            <4>1. sess' = [sess EXCEPT ![p] = s] /\ sess'[p] = s
                BY <1>0, <2>8, <3>2 DEF Gate, TypeOK
            <4>2. PastFlush(p)' => lock' = p
                BY <1>0, <3>0, <4>1 DEF LockInv, PastFlush
            <4>3. GatesOpen(p)'
                BY <4>1 DEF PastGates, GatesOpen
            <4> HIDE DEF s
            <4>4. QED BY <2>1, <3>0, <4>1, <4>2, <4>3
        <3>3. QED BY <3>1, <3>2
    <2>9. CASE Render(p)
        <3>1. PICK d \in Digests :
                  sess' = [sess EXCEPT ![p] = [pc |-> "commit", snap |-> sess[p].snap,
                                               at |-> sess[p].at, digest |-> d]]
            BY <2>9 DEF Render
        <3> DEFINE s == [pc |-> "commit", snap |-> sess[p].snap, at |-> sess[p].at,
                         digest |-> d]
        <3>2. /\ sess[p].pc = "render" /\ sess'[p] = s
              /\ breaks' = breaks /\ status' = status /\ lock' = lock
            BY <1>0, <2>9, <3>1 DEF Render, TypeOK, dbVars
        <3>3. /\ PastFlush(p)' => PastFlush(p) /\ PastGates(p)
              /\ PastGates(p)' => PastFlush(p)'
            <4>1. sess'[p].pc = "commit" /\ sess'[p].at = sess[p].at
                BY <3>2
            <4>2. PastFlush(p)' => PastFlush(p) /\ PastGates(p)
                BY <3>2, <4>1 DEF PastFlush, PastGates
            <4>3. PastGates(p)' => PastFlush(p)'
                BY DEF PastGates
            <4>4. QED BY <4>2, <4>3
        <3>4. PastFlush(p)' => lock' = p
            BY <1>0, <3>2, <3>3 DEF LockInv
        <3>5. GatesOpen(p)'
            <4>1. Seen(sess[p])' = Seen(sess[p])
                BY <3>2 DEF Seen
            <4>2. GatesOpen(p)
                BY <1>0 DEF GateInv
            <4>3. QED BY <3>2, <3>3, <4>1, <4>2 DEF GatesOpen, Latest
        <3> HIDE DEF s
        <3>6. sess' = [sess EXCEPT ![p] = s]
            BY <3>1 DEF s
        <3>7. QED BY <2>1, <3>2, <3>4, <3>5, <3>6
    <2>10. CASE \E s \in Snapshots : ReportPdf(p, s)
        <3>1. UNCHANGED <<sess, lock, breaks, status>>
            BY <2>10 DEF ReportPdf, dbVars
        <3>2. LockInv'
            BY <1>0, <3>1 DEF LockInv, PastFlush
        <3>3. GateInv'
            BY <1>0, <3>1 DEF GateInv, GatesOpen, PastGates, PastFlush, Seen, Latest
        <3>4. QED BY <1>0, <3>2, <3>3
    <2>11. QED
        BY <1>3, <2>3, <2>4, <2>5, <2>6, <2>7, <2>8, <2>9, <2>10 DEF ProcNext
<1>4. QED
    BY <1>1, <1>2, <1>3 DEF Next

LEMMA Invariant == Spec => []IInv
    BY InvInit, InvStep, PTL DEF Spec

(* At most one sign-off is past its flush: the write lock is exclusive.    *)
THEOREM SignOffsExclude == Spec => []OneSignOffAtATime
<1>1. IInv => OneSignOffAtATime
    BY DEF IInv, LockInv, PastFlush, OneSignOffAtATime
<1>2. QED BY <1>1, Invariant, PTL

(* A sign-off that pins a digest commits with no break open and as the     *)
(* newest decision on its snapshot, whatever other sessions do meanwhile.  *)
THEOREM GatesHold == Spec => GatesHoldAtCommit
<1> DEFINE A == \A row \in signAudit' \ signAudit :
                    row.digest # "none" =>
                        /\ ~breaks'
                        /\ Latest(status'[row.snap]) = "approved"
<1>1. IInv /\ [Next]_vars => [A]_vars
    <2> SUFFICES ASSUME IInv, [Next]_vars, NEW row \in signAudit' \ signAudit,
                        row.digest # "none"
                 PROVE  ~breaks' /\ Latest(status'[row.snap]) = "approved"
        BY DEF vars, dbVars
    <2>0. TypeOK /\ GateInv
        BY DEF IInv
    <2>1. PICK p \in Procs : CommitApproval(p)
        BY DEF Next, ProcNext, OpenBreak, Draft, Bundle, Stamp, CommitRequest, FlushApproval,
               LoadDecision, CommitDecision, Gate, Render, RenderFails, CommitBuild, Abort,
               ReportPdf, vars, dbVars
    <2>2. /\ row = [snap |-> sess[p].snap, at |-> sess[p].at, digest |-> sess[p].digest]
          /\ sess[p].pc = "commit" /\ sess[p].at # 0 /\ sess[p].digest # "none"
          /\ breaks' = breaks
        BY <2>1 DEF CommitApproval
    <2>3. ~breaks /\ Latest(Seen(sess[p])) = "approved"
        BY <2>0, <2>2 DEF GateInv, GatesOpen, PastGates, PastFlush
    <2>4. sess[p].snap \in Snapshots
        BY <2>0, <2>2, SessionFields DEF TypeOK
    <2>5. status'[row.snap] = Seen(sess[p])
        BY <2>0, <2>1, <2>2, <2>4 DEF CommitApproval, Seen, TypeOK
    <2>6. QED BY <2>2, <2>3, <2>5
<1>2. QED
    BY <1>1, Invariant, PTL DEF Spec, GatesHoldAtCommit

-----------------------------------------------------------------------------
(* The newest of some requests: sets of naturals have a least member, so   *)
(* bounded ones have a largest, which Max picks.                           *)
LEMMA LessThan ==
    \E less : IsWellFoundedOn(less, Nat) /\ \A x, y \in Nat : <<x, y>> \in less <=> x < y
<1>1. \A x, y \in Nat : <<x, y>> \in OpToRel(<, Nat) <=> x < y
    BY Zenon DEF OpToRel
<1>2. QED BY <1>1, NatLessThanWellFounded, Zenon

LEMMA LeastNat ==
    ASSUME NEW N \in SUBSET Nat, N # {}
    PROVE  \E n \in N : \A m \in N : n <= m
<1>1. N \subseteq Nat
    OBVIOUS
<1>2. PICK less : IsWellFoundedOn(less, Nat) /\ \A x, y \in Nat : <<x, y>> \in less <=> x < y
    BY LessThan, Zenon
<1>3. IsWellFoundedOn(less, Nat)
    BY <1>2
<1>4. \E n \in N : \A m \in N : ~ (<<m, n>> \in less)
    BY <1>1, <1>3, WFMin, Zenon
<1>5. PICK n \in N : \A m \in N : ~ (<<m, n>> \in less)
    BY <1>4
<1>6. n \in Nat /\ \A m \in N : m \in Nat /\ ~(m < n)
    BY <1>1, <1>2, <1>5
<1>7. QED BY <1>6

LEMMA MaxIsIn ==
    ASSUME NEW k \in Nat, NEW N \in SUBSET (0..k), N # {}
    PROVE  Max(N) \in N
<1>1. \A m \in N : m \in Nat /\ m <= k
    OBVIOUS
<1> DEFINE U == {k - m : m \in N}
<1>2. U \in SUBSET Nat
    BY <1>1
<1>3. \E n \in U : \A u \in U : n <= u
    <2>1. U # {}
        OBVIOUS
    <2> HIDE DEF U
    <2>2. QED BY <1>2, <2>1, LeastNat
<1>4. PICK t \in N : \A u \in U : k - t <= u
    BY <1>3
<1>5. \A m \in N : t >= m
    <2> TAKE m \in N
    <2>1. k - t <= k - m
        BY <1>4
    <2>2. QED BY <1>1, <2>1
<1>6. QED BY <1>5, Zenon DEF Max

(* An approval that is the newest decision is the decision on a request.   *)
LEMMA LatestIsMade ==
    ASSUME NEW requests, Latest(requests) = "approved"
    PROVE  \E n \in Stamps : requests[n] = "approved"
<1> DEFINE made == {n \in Stamps : requests[n] # "absent"}
<1>1. made # {}
    <2>1. made = {} => Latest(requests) = "absent"
        BY Zenon DEF Latest
    <2>2. QED BY <2>1
<1>2. made \in SUBSET (0..MaxStamp) /\ MaxStamp \in Nat
    BY DeliveryAssumption DEF Stamps
<1>3. Max(made) \in made
    <2> HIDE DEF made
    <2>1. QED BY <1>1, <1>2, MaxIsIn
<1>4. requests[Max(made)] = "approved"
    <2>1. Latest(requests) = requests[Max(made)]
        BY <1>1, Zenon DEF Latest
    <2>2. QED BY <2>1
<1>5. QED BY <1>3, <1>4

-----------------------------------------------------------------------------
(* A PDF is backed: every approval in force was recorded, a build past the *)
(* approval gate renders under a recorded approval, and whoever put a      *)
(* digest on a row or is about to has an approval of the snapshot.         *)
Approved(s) == \E n \in Stamps : <<s, n, "approved">> \in decided

DecisionsAreRecorded ==
    \A s \in Snapshots, n \in Stamps :
        status[s][n] = "approved" => <<s, n, "approved">> \in decided

BuildsAreApproved ==
    \A p \in Procs :
        sess[p].pc \in {"render", "commit"} /\ sess[p].at = 0 =>
            \/ Approved(sess[p].snap)
            \/ sess[p].pc = "commit" /\ sess[p].digest = "none"

RowsAreApproved ==
    \A row \in buildAudit \cup signAudit : row.digest # "none" => Approved(row.snap)

BackedInv ==
    TypeOK /\ DecisionsAreRecorded /\ BuildsAreApproved /\ RowsAreApproved /\ PinnedDigest

LEMMA BackedInit == Init => BackedInv
    BY TypeInit DEF Init, BackedInv, DecisionsAreRecorded, BuildsAreApproved, RowsAreApproved,
                    PinnedDigest, Idle

LEMMA BackedIsBacked == BackedInv => PdfsAreBacked
<1> SUFFICES ASSUME BackedInv, NEW s \in Snapshots \ strays, pdf[s] # "none"
             PROVE  SignedOff(s)
    BY DEF BackedInv, PdfsAreBacked, PdfsAreSignedOff
<1>1. CASE \E row \in buildAudit \cup signAudit : row.snap = s /\ row.digest = pdf[s]
    BY <1>1 DEF BackedInv, RowsAreApproved, Approved, SignedOff
<1>2. CASE \E p \in Procs : /\ sess[p].pc = "commit"
                            /\ sess[p].snap = s /\ sess[p].digest = pdf[s]
    BY <1>2 DEF BackedInv, BuildsAreApproved, Approved, SignedOff
<1>3. QED BY <1>1, <1>2 DEF BackedInv, PinnedDigest, PinnedOnDisk

(* What is recorded stays recorded.                                        *)
LEMMA DecidedGrows == [Next]_vars => decided \subseteq decided'
    BY DEF Next, ProcNext, OpenBreak, Draft, Bundle, Stamp, CommitRequest, FlushApproval,
           LoadDecision, CommitDecision, Gate, Render, RenderFails, CommitBuild, CommitApproval,
           Abort, ReportPdf, vars, dbVars

LEMMA DecisionsStep ==
    ASSUME TypeOK, DecisionsAreRecorded, [Next]_vars
    PROVE  DecisionsAreRecorded'
<1> USE DEF DecisionsAreRecorded
<1>1. CASE status' = status
    BY <1>1, DecidedGrows
<1>2. ASSUME NEW p \in Procs, CommitRequest(p)
      PROVE  DecisionsAreRecorded'
    BY <1>2 DEF CommitRequest, TypeOK
<1>3. ASSUME NEW p \in Procs, CommitDecision(p), status' # status
      PROVE  DecisionsAreRecorded'
    BY <1>3 DEF CommitDecision, TypeOK
<1>4. ASSUME NEW p \in Procs, CommitApproval(p)
      PROVE  DecisionsAreRecorded'
    BY <1>4 DEF CommitApproval, TypeOK
<1>5. QED
    BY <1>1, <1>2, <1>3, <1>4
    DEF Next, ProcNext, OpenBreak, Draft, Bundle, Stamp, FlushApproval, LoadDecision, Gate, Render,
        RenderFails, CommitBuild, Abort, ReportPdf, vars, dbVars

LEMMA BuildsStep ==
    ASSUME TypeOK, DecisionsAreRecorded, BuildsAreApproved, [Next]_vars
    PROVE  BuildsAreApproved'
<1> DEFINE Good(s) ==
               s.pc \in {"render", "commit"} /\ s.at = 0 =>
                   Approved(s.snap) \/ (s.pc = "commit" /\ s.digest = "none")
<1>1. \A s : Good(s) => Good(s)'
    BY DecidedGrows DEF Approved
<1>2. \A p \in Procs : Good(sess[p])
    BY DEF BuildsAreApproved
<1>3. ASSUME NEW p \in Procs, NEW s, sess' = [sess EXCEPT ![p] = s],
             Good(s) \/ s.pc \notin {"render", "commit"}
      PROVE  BuildsAreApproved'
    <2>1. \A q \in Procs : sess'[q] = IF q = p THEN s ELSE sess[q]
        BY <1>3 DEF TypeOK
    <2>2. \A q \in Procs : Good(sess'[q])
        BY <1>2, <1>3, <2>1
    <2>3. QED BY <2>2, <1>1 DEF BuildsAreApproved
<1>4. CASE sess' = sess
    BY <1>1, <1>2, <1>4 DEF BuildsAreApproved
<1>5. ASSUME NEW p \in Procs, Gate(p)
      PROVE  BuildsAreApproved'
    <2>0. sess[p].pc = "gate" /\ sess[p] = [pc |-> "gate", snap |-> sess[p].snap, at |-> sess[p].at]
          /\ sess[p].snap \in Snapshots
        BY <1>5, SessionFields DEF Gate, TypeOK
    <2>1. CASE MayRender(sess[p])
        <3> DEFINE s == [pc |-> "render", snap |-> sess[p].snap, at |-> sess[p].at]
        <3>1. sess' = [sess EXCEPT ![p] = s]
            BY <1>5, <2>0, <2>1 DEF Gate, Goto
        <3>2. sess[p].at = 0 => Approved(sess[p].snap)
            <4>1. SUFFICES ASSUME sess[p].at = 0 PROVE Approved(sess[p].snap)
                OBVIOUS
            <4>2. Latest(status[sess[p].snap]) = "approved"
                BY <2>1, <4>1 DEF MayRender, Seen
            <4>3. QED BY <2>0, <4>2, LatestIsMade DEF Approved, DecisionsAreRecorded
        <3>3. Good(s)
            BY <3>2
        <3> HIDE DEF s, Good
        <3>4. QED BY <1>3, <3>1, <3>3
    <2>2. CASE ~MayRender(sess[p])
        <3> DEFINE s == [pc |-> "commit", snap |-> sess[p].snap, at |-> sess[p].at, digest |-> "none"]
        <3>1. sess' = [sess EXCEPT ![p] = s]
            BY <1>5, <2>2 DEF Gate, Goto
        <3>2. Good(s)
            OBVIOUS
        <3> HIDE DEF s, Good
        <3>3. QED BY <1>3, <3>1, <3>2
    <2>3. QED BY <2>1, <2>2
<1>6. ASSUME NEW p \in Procs, Render(p)
      PROVE  BuildsAreApproved'
    <2>1. PICK d \in Digests :
              sess' = [sess EXCEPT ![p] = [pc |-> "commit", snap |-> sess[p].snap,
                                           at |-> sess[p].at, digest |-> d]]
        BY <1>6 DEF Render, Goto
    <2> DEFINE s == [pc |-> "commit", snap |-> sess[p].snap, at |-> sess[p].at, digest |-> d]
    <2>2. Good(s)
        BY <1>2, <1>6 DEF Render
    <2>3. sess' = [sess EXCEPT ![p] = s]
        BY <2>1
    <2> HIDE DEF s, Good
    <2>4. QED BY <1>3, <2>2, <2>3
<1>7. ASSUME NEW p \in Procs, NEW s, sess' = [sess EXCEPT ![p] = s],
             s.pc \notin {"render", "commit"}
      PROVE  BuildsAreApproved'
    BY <1>3, <1>7
<1> HIDE DEF Good
<1>8. QED
    BY <1>4, <1>5, <1>6, <1>7
    DEF Next, ProcNext, OpenBreak, Draft, Bundle, Stamp, CommitRequest, FlushApproval,
        LoadDecision, CommitDecision, RenderFails, CommitBuild, CommitApproval, Abort, ReportPdf,
        vars, dbVars, Goto, Idle

LEMMA RowsStep ==
    ASSUME TypeOK, BuildsAreApproved, RowsAreApproved, [Next]_vars
    PROVE  RowsAreApproved'
<1>1. \A row \in buildAudit \cup signAudit : row.digest # "none" => Approved(row.snap)'
    BY DecidedGrows DEF RowsAreApproved, Approved
<1>2. CASE buildAudit' = buildAudit /\ signAudit' = signAudit
    BY <1>1, <1>2 DEF RowsAreApproved, Approved
<1>3. ASSUME NEW p \in Procs, CommitBuild(p)
      PROVE  RowsAreApproved'
    <2>1. sess[p].digest # "none" => Approved(sess[p].snap)
        BY <1>3 DEF BuildsAreApproved, CommitBuild
    <2>2. QED BY <1>1, <1>3, <2>1, DecidedGrows DEF CommitBuild, RowsAreApproved, Approved
<1>4. ASSUME NEW p \in Procs, CommitApproval(p)
      PROVE  RowsAreApproved'
    <2>1. sess[p].at \in Stamps
        BY <1>4, SessionFields DEF CommitApproval, TypeOK
    <2>2. QED BY <1>1, <1>4, <2>1 DEF CommitApproval, RowsAreApproved, Approved
<1>5. QED
    BY <1>2, <1>3, <1>4
    DEF Next, ProcNext, OpenBreak, Draft, Bundle, Stamp, CommitRequest, FlushApproval,
        LoadDecision, CommitDecision, Gate, Render, RenderFails, Abort, ReportPdf, vars, dbVars

(* A PDF keeps its row, or the session that is about to write its row,     *)
(* until that session writes it or makes the snapshot a stray.             *)
LEMMA PinnedKept ==
    ASSUME TypeOK, PinnedDigest,
           NEW p \in Procs, NEW s, sess' = [sess EXCEPT ![p] = s],
           UNCHANGED pdf, strays \subseteq strays',
           buildAudit \subseteq buildAudit', signAudit \subseteq signAudit',
           sess[p].pc = "commit" =>
               \/ sess[p].digest = "none"
               \/ sess[p].snap \in strays'
               \/ \E row \in buildAudit' \cup signAudit' :
                      row.snap = sess[p].snap /\ row.digest = sess[p].digest
    PROVE  PinnedDigest'
<1> SUFFICES ASSUME NEW t \in Snapshots \ strays', pdf[t] # "none"
             PROVE  PinnedOnDisk(t)'
    BY DEF PinnedDigest
<1>1. PinnedOnDisk(t)
    BY DEF PinnedDigest
<1>2. CASE \E row \in buildAudit \cup signAudit : row.snap = t /\ row.digest = pdf[t]
    BY <1>2 DEF PinnedOnDisk
<1>3. ASSUME NEW q \in Procs,
             sess[q].pc = "commit" /\ sess[q].snap = t /\ sess[q].digest = pdf[t]
      PROVE  PinnedOnDisk(t)'
    <2>1. CASE q = p
        BY <1>3, <2>1 DEF PinnedOnDisk
    <2>2. CASE q # p
        BY <1>3, <2>2 DEF PinnedOnDisk, TypeOK
    <2>3. QED BY <2>1, <2>2
<1>4. QED BY <1>1, <1>2, <1>3 DEF PinnedOnDisk

LEMMA PinnedStep ==
    ASSUME TypeOK, PinnedDigest, [Next]_vars
    PROVE  PinnedDigest'
<1> USE DEF Goto, dbVars, fileVars
<1>1. CASE UNCHANGED vars \/ OpenBreak
    BY <1>1 DEF vars, OpenBreak, PinnedDigest, PinnedOnDisk
<1>2. ASSUME NEW p \in Procs, ProcNext(p) PROVE PinnedDigest'
    <2>1. CASE \/ \E s \in Snapshots : Draft(p, s)
               \/ Bundle(p)
               \/ \E s \in Snapshots, dec \in {"approved", "pending"} : Stamp(p, s, dec)
               \/ CommitRequest(p)
               \/ FlushApproval(p)
               \/ \E s \in Snapshots, n \in Stamps, dec \in Decisions :
                      LoadDecision(p, s, n, dec)
               \/ CommitDecision(p)
        BY <2>1, PinnedKept
        DEF Draft, Bundle, Stamp, CommitRequest, FlushApproval, LoadDecision, CommitDecision, Idle
    <2>2. CASE Gate(p)
        <3>1. PICK s : sess' = [sess EXCEPT ![p] = s]
            BY <2>2 DEF Gate
        <3>2. sess[p].pc # "commit" /\ UNCHANGED <<pdf, strays, buildAudit, signAudit>>
            BY <2>2 DEF Gate
        <3>3. QED BY <3>1, <3>2, PinnedKept
    <2>3. CASE Render(p)
        <3>1. sess[p].snap \in Snapshots
            BY <2>3, SessionFields DEF Render, TypeOK
        <3>2. PICK d \in Digests :
                  /\ pdf' = [pdf EXCEPT ![sess[p].snap] = d]
                  /\ sess' = [sess EXCEPT ![p] = [pc |-> "commit", snap |-> sess[p].snap,
                                                  at |-> sess[p].at, digest |-> d]]
            BY <2>3 DEF Render
        <3>3. /\ sess[p].pc = "render"
              /\ UNCHANGED <<strays, buildAudit, signAudit>>
              /\ sess'[p].pc = "commit" /\ sess'[p].snap = sess[p].snap /\ sess'[p].digest = d
              /\ \A q \in Procs : q # p => sess'[q] = sess[q]
            BY <2>3, <3>2 DEF Render, TypeOK
        <3>4. ASSUME NEW t \in Snapshots \ strays', pdf'[t] # "none"
              PROVE  PinnedOnDisk(t)'
            <4>1. CASE t = sess[p].snap
                BY <3>1, <3>2, <3>3, <4>1 DEF PinnedOnDisk, TypeOK
            <4>2. CASE t # sess[p].snap
                <5>1. pdf'[t] = pdf[t] /\ PinnedOnDisk(t)
                    BY <3>1, <3>2, <3>3, <3>4, <4>2 DEF PinnedDigest, TypeOK
                <5>2. QED BY <3>3, <5>1 DEF PinnedOnDisk
            <4>3. QED BY <4>1, <4>2
        <3>5. QED BY <3>4 DEF PinnedDigest
    <2>4. CASE RenderFails(p)
        <3>1. CASE UNCHANGED <<pdf, strays>>
            BY <2>4, <3>1, PinnedKept DEF RenderFails
        <3>2. CASE /\ pdf' = [pdf EXCEPT ![sess[p].snap] = "invalid"]
                   /\ strays' = strays \cup {sess[p].snap}
            BY <2>4, <3>2 DEF RenderFails, PinnedDigest, PinnedOnDisk, TypeOK
        <3>3. QED BY <2>4, <3>1, <3>2 DEF RenderFails
    <2>5. CASE CommitBuild(p) \/ CommitApproval(p)
        <3>1. UNCHANGED <<pdf, strays>> /\ sess' = [sess EXCEPT ![p] = Idle]
            BY <2>5 DEF CommitBuild, CommitApproval
        <3>2. /\ buildAudit \subseteq buildAudit' /\ signAudit \subseteq signAudit'
              /\ \E row \in buildAudit' \cup signAudit' :
                     row.snap = sess[p].snap /\ row.digest = sess[p].digest
            <4>1. CASE CommitBuild(p)
                <5> DEFINE row == [snap |-> sess[p].snap, digest |-> sess[p].digest]
                <5>1. buildAudit' = buildAudit \cup {row} /\ signAudit' = signAudit
                    BY <4>1 DEF CommitBuild
                <5>2. row \in buildAudit' /\ row.snap = sess[p].snap /\ row.digest = sess[p].digest
                    BY <5>1
                <5> HIDE DEF row
                <5>3. QED BY <5>1, <5>2
            <4>2. CASE CommitApproval(p)
                <5> DEFINE row == [snap |-> sess[p].snap, at |-> sess[p].at,
                                   digest |-> sess[p].digest]
                <5>1. signAudit' = signAudit \cup {row} /\ buildAudit' = buildAudit
                    BY <4>2 DEF CommitApproval
                <5>2. row \in signAudit' /\ row.snap = sess[p].snap /\ row.digest = sess[p].digest
                    BY <5>1
                <5> HIDE DEF row
                <5>3. QED BY <5>1, <5>2
            <4>3. QED BY <2>5, <4>1, <4>2
        <3>3. QED BY <3>1, <3>2, PinnedKept
    <2>6. CASE Abort(p)
        BY <2>6, PinnedKept DEF Abort
    <2>7. ASSUME NEW s \in Snapshots, ReportPdf(p, s) PROVE PinnedDigest'
        BY <2>7 DEF ReportPdf, PinnedDigest, PinnedOnDisk, TypeOK
    <2>8. QED
        BY <1>2, <2>1, <2>2, <2>3, <2>4, <2>5, <2>6, <2>7 DEF ProcNext
<1>3. QED BY <1>1, <1>2 DEF Next

LEMMA BackedStep == BackedInv /\ [Next]_vars => BackedInv'
    BY TypeStep, DecisionsStep, BuildsStep, RowsStep, PinnedStep DEF BackedInv

(* Every PDF on disk that `report pdf` or a failed session did not write   *)
(* is backed by a recorded approval of its snapshot and by an audit row    *)
(* that pins its digest, or by the session about to commit them.           *)
THEOREM PdfsBacked == Spec => []PdfsAreBacked
<1>1. Spec => []BackedInv
    BY BackedInit, BackedStep, PTL DEF Spec
<1>2. QED BY <1>1, BackedIsBacked, PTL
=============================================================================
