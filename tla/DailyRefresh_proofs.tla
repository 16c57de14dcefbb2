-------------------------- MODULE DailyRefresh_proofs --------------------------
(***************************************************************************)
(* Proofs about DailyRefresh, for any processes, runs, files and books.    *)
(***************************************************************************)
EXTENDS DailyRefresh, TLAPS

(* What a refresh has added by the end of its ingest, and of its           *)
(* reconciliation.                                                         *)
RowsRead(e) ==
    {IngestRow(e.run, e.file), AuditRow(e.run, "ingest_complete"),
     StepRow(e.run, "custodian_ingest")}

RowsFound(e) ==
    RowsRead(e) \cup BreakRows(e.run, e.file) \cup {StepRow(e.run, "reconcile")}
        \cup {AuditRow(e.run, "recon_break_opened") : b \in Breaks(e.file, Books)}

(* The rows of a session follow from the file its command was handed.      *)
Faithful(s) ==
    /\ s.pc = "reconcile" => /\ Readable(s.of.file) /\ s.read = s.of.file
                             /\ s.of.kind # "ingest" /\ s.rows = RowsRead(s.of)
    /\ s.pc = "finish" => /\ Readable(s.of.file) /\ s.read = s.of.file
                          /\ s.of.kind # "ingest" /\ s.rows = RowsFound(s.of)
    /\ s.pc = "commit" => Readable(s.of.file) /\ s.rows = RowsOf(s.of)

FaithfulInv == \A p \in Procs : Faithful(sess[p])

LockInv == \A p \in Procs : sess[p].pc \notin {"idle", "flush"} => lock = p

(* The lock keeps the sandbox the session's own from its copy to its read. *)
SandboxInv ==
    \A p \in Procs :
        sess[p].pc = "ingest" /\ sess[p].of.kind # "ingest" => sandbox = sess[p].of.file

(* A run belongs to one file and to one session at most.                   *)
UniqueRuns == \A e, f \in handed : e.run = f.run => e = f

ClaimInv ==
    \A p \in Procs : sess[p].pc # "idle" =>
        /\ sess[p].of \in handed
        /\ sess[p].of \notin OnRecord
        /\ \A q \in Procs : sess[q].pc # "idle" /\ sess[q].of = sess[p].of => q = p

RecordInv == WholeRuns /\ \A e \in OnRecord : Readable(e.file)

IInv == /\ TypeOK /\ FaithfulInv /\ LockInv /\ SandboxInv
        /\ UniqueRuns /\ ClaimInv /\ RecordInv

-----------------------------------------------------------------------------
LEMMA SessionFields ==
    ASSUME NEW s \in Session
    PROVE  /\ s.pc # "idle" => s.of \in Handed
           /\ s.pc \in {"reconcile", "finish"} => s.read \in Files
           /\ s.pc \in {"reconcile", "finish", "commit", "raise"} => s.rows \subseteq Row
           /\ s.pc \in {"idle", "flush", "copy", "ingest", "reconcile", "finish",
                        "commit", "raise"}
           /\ s.pc = "idle" => s = Idle
    BY DEF Session, Idle

LEMMA HandedFields ==
    ASSUME NEW e \in Handed
    PROVE  e.run \in Runs /\ e.kind \in Kinds /\ e.file \in Files
    BY DEF Handed

(* What a run on record has written is made of rows.                       *)
LEMMA RowsOfAreRows ==
    ASSUME NEW e \in Handed, Readable(e.file)
    PROVE  RowsOf(e) \subseteq Row /\ RowsFound(e) \subseteq Row /\ RowsRead(e) \subseteq Row
<1> USE HandedFields
<1>1. \A name \in Steps : StepRow(e.run, name) \in Row
    BY DEF Row, StepRow
<1>2. IngestRow(e.run, e.file) \in Row
    BY DEF Row, IngestRow
<1>3. BreakRows(e.run, e.file) \subseteq Row
    <2>1. \A b \in Breaks(e.file, Books) : b \in AllBreaks
        BY DEF AllBreaks
    <2>2. QED BY <2>1 DEF Row, BreakRows, BreakRow
<1>4. \A a \in Actions : AuditRow(e.run, a) \in Row
    BY DEF Row, AuditRow
<1>5. \A s \in Statuses : RefreshRow(e.run, s) \in Row
    BY DEF Row, RefreshRow
<1>6. RowsRead(e) \subseteq Row
    BY <1>1, <1>2, <1>4 DEF RowsRead, Steps, Actions
<1>7. RowsFound(e) \subseteq Row
    BY <1>1, <1>3, <1>4, <1>6 DEF RowsFound, Steps, Actions
<1>8. RowsOf(e) \subseteq Row
    BY <1>1, <1>2, <1>3, <1>4, <1>5 DEF RowsOf, Actions, Statuses
<1>9. QED BY <1>6, <1>7, <1>8

LEMMA TypeInit == Init => TypeOK
<1> SUFFICES ASSUME Init PROVE TypeOK
    OBVIOUS
<1>1. Idle \in Session
    BY DEF Idle, Session
<1>2. QED BY <1>1 DEF Init, TypeOK

LEMMA TypeStep == TypeOK /\ FaithfulInv /\ SandboxInv /\ [Next]_vars => TypeOK'
<1> SUFFICES ASSUME TypeOK, FaithfulInv, SandboxInv, [Next]_vars PROVE TypeOK'
    OBVIOUS
<1> USE DEF TypeOK, Goto
<1>1. CASE UNCHANGED vars
    BY <1>1 DEF vars
<1>2. ASSUME NEW p \in Procs, ProcNext(p) PROVE TypeOK'
    <2>0. sess[p] \in Session /\ Idle \in Session
        BY DEF Session, Idle
    <2>1. ASSUME NEW run \in Runs, NEW kind \in Kinds, NEW file \in Files,
                 Begin(p, run, kind, file)
          PROVE TypeOK'
        <3>1. [run |-> run, kind |-> kind, file |-> file] \in Handed
            BY DEF Handed
        <3>2. \A e \in Handed : [pc |-> "flush", of |-> e] \in Session
            BY DEF Session
        <3>3. QED BY <2>1, <3>1, <3>2 DEF Begin
    <2>2. CASE Flush(p)
        <3>1. sess[p].of \in Handed
            BY <2>0, <2>2, SessionFields DEF Flush
        <3>2. \A pc \in {"copy", "ingest"} : [pc |-> pc, of |-> sess[p].of] \in Session
            BY <3>1 DEF Session
        <3>3. QED BY <2>2, <3>2 DEF Flush
    <2>3. CASE Copy(p)
        <3>1. sess[p].of \in Handed
            BY <2>0, <2>3, SessionFields DEF Copy
        <3>2. [pc |-> "ingest", of |-> sess[p].of] \in Session
            BY <3>1 DEF Session
        <3>3. QED BY <2>3, <3>1, <3>2, HandedFields DEF Copy
    <2>4. CASE Ingest(p)
        <3>1. sess[p].of \in Handed
            BY <2>0, <2>4, SessionFields DEF Ingest
        <3>2. Content(sess[p]) = sess[p].of.file
            BY <2>4 DEF Ingest, Content, SandboxInv
        <3>3. RowsRead(sess[p].of) \subseteq Row /\ RowsOf(sess[p].of) \subseteq Row
            BY <2>4, <3>1, <3>2, RowsOfAreRows DEF Ingest
        <3>4. {IngestRow(sess[p].of.run, Content(sess[p])),
               AuditRow(sess[p].of.run, "ingest_complete"),
               StepRow(sess[p].of.run, "custodian_ingest")} \subseteq Row
            BY <3>2, <3>3 DEF RowsRead
        <3>5. CASE sess[p].of.kind = "ingest"
            <4>1. [pc |-> "commit", of |-> sess[p].of,
                   rows |-> {IngestRow(sess[p].of.run, Content(sess[p])),
                             AuditRow(sess[p].of.run, "ingest_complete")}] \in Session
                BY <3>1, <3>4 DEF Session
            <4>2. QED BY <2>4, <3>5, <4>1 DEF Ingest
        <3>6. CASE sess[p].of.kind # "ingest"
            <4>1. [pc |-> "reconcile", of |-> sess[p].of, read |-> Content(sess[p]),
                   rows |-> {IngestRow(sess[p].of.run, Content(sess[p])),
                             AuditRow(sess[p].of.run, "ingest_complete")}
                            \cup {StepRow(sess[p].of.run, "custodian_ingest")}] \in Session
                BY <3>1, <3>2, <3>4, HandedFields DEF Session
            <4>2. \A e \in events' : e.run \in Runs
                BY <2>4, <3>1, <3>6, HandedFields DEF Ingest, Event
            <4>3. sess' \in [Procs -> Session]
                BY <2>4, <3>6, <4>1 DEF Ingest
            <4>4. UNCHANGED <<db, handed, failed, sandbox, lock>>
                BY <2>4 DEF Ingest
            <4>5. QED BY <4>2, <4>3, <4>4
        <3>7. QED BY <3>5, <3>6
    <2>5. CASE IngestFails(p)
        <3>1. sess[p].of \in Handed
            BY <2>0, <2>5, SessionFields DEF IngestFails
        <3>2. {AuditRow(sess[p].of.run, "ingest_failed"),
               StepRow(sess[p].of.run, "custodian_ingest"), RefreshRow(sess[p].of.run, "error"),
               AuditRow(sess[p].of.run, "daily_refresh_failed")} \subseteq Row
            BY <3>1, HandedFields DEF Row, Steps, Statuses, Actions, AuditRow, StepRow, RefreshRow
        <3>3. \A rows \in SUBSET Row :
                  [pc |-> "raise", of |-> sess[p].of, rows |-> rows] \in Session
            BY <3>1 DEF Session
        <3>4. sess' \in [Procs -> Session]
            <4>1. CASE sess[p].of.kind = "ingest"
                BY <2>5, <3>2, <3>3, <4>1 DEF IngestFails
            <4>2. CASE sess[p].of.kind # "ingest"
                BY <2>5, <3>2, <3>3, <4>2 DEF IngestFails
            <4>3. QED BY <4>1, <4>2
        <3>5. QED BY <2>5, <3>1, <3>4, HandedFields DEF IngestFails
    <2>6. CASE Reconcile(p)
        <3>1. sess[p].of \in Handed /\ sess[p].read \in Files
            BY <2>0, <2>6, SessionFields DEF Reconcile
        <3>2. Readable(sess[p].of.file) /\ sess[p].read = sess[p].of.file
                  /\ sess[p].rows = RowsRead(sess[p].of)
            BY <2>6 DEF Reconcile, FaithfulInv, Faithful
        <3>3. RowsFound(sess[p].of) \subseteq Row
            BY <3>1, <3>2, RowsOfAreRows
        <3>4. [pc |-> "finish", of |-> sess[p].of, read |-> sess[p].read,
               rows |-> RowsFound(sess[p].of)] \in Session
            BY <3>1, <3>3 DEF Session
        <3>5. sess' = [sess EXCEPT ![p] =
                          [pc |-> "finish", of |-> sess[p].of, read |-> sess[p].read,
                           rows |-> RowsFound(sess[p].of)]]
            BY <2>6, <3>2 DEF Reconcile, RowsFound
        <3>6. \A e \in events' : e.run \in Runs
            BY <2>6, <3>1, HandedFields DEF Reconcile, Event
        <3>7. sess' \in [Procs -> Session]
            BY <3>4, <3>5
        <3>8. UNCHANGED <<db, handed, failed, sandbox, lock>>
            BY <2>6 DEF Reconcile
        <3>9. QED BY <3>6, <3>7, <3>8
    <2>7. CASE Finish(p)
        <3>1. sess[p].of \in Handed /\ sess[p].rows \subseteq Row
            BY <2>0, <2>7, SessionFields DEF Finish
        <3>2. \A s \in {"success", "completed_with_breaks"} :
                  {StepRow(sess[p].of.run, name) : name \in Steps} \cup
                  {RefreshRow(sess[p].of.run, s),
                   AuditRow(sess[p].of.run, "daily_refresh_complete")} \subseteq Row
            BY <3>1, HandedFields DEF Row, Statuses, Actions, AuditRow, StepRow, RefreshRow
        <3>3. \A rows \in SUBSET Row :
                  [pc |-> "commit", of |-> sess[p].of, rows |-> rows] \in Session
            BY <3>1 DEF Session
        <3> DEFINE status == IF Breaks(sess[p].read, Books) = {} THEN "success"
                             ELSE "completed_with_breaks"
                   rows == sess[p].rows \cup {StepRow(sess[p].of.run, name) : name \in Steps}
                               \cup {RefreshRow(sess[p].of.run, status),
                                     AuditRow(sess[p].of.run, "daily_refresh_complete")}
        <3>4. rows \in SUBSET Row
            BY <3>1, <3>2
        <3>5. sess' = [sess EXCEPT ![p] = [pc |-> "commit", of |-> sess[p].of, rows |-> rows]]
            BY <2>7 DEF Finish
        <3> HIDE DEF rows
        <3>6. QED BY <2>7, <3>3, <3>4, <3>5 DEF Finish
    <2>8. CASE Commit(p)
        <3>1. sess[p].rows \subseteq Row
            BY <2>0, <2>8, SessionFields DEF Commit
        <3>2. QED BY <2>0, <2>8, <3>1 DEF Commit
    <2>9. CASE Rollback(p)
        BY <2>0, <2>9 DEF Rollback
    <2>10. CASE TimeOut(p)
        BY <2>0, <2>10 DEF TimeOut
    <2>11. CASE Abort(p)
        BY <2>0, <2>11 DEF Abort
    <2>12. QED BY <1>2, <2>1, <2>2, <2>3, <2>4, <2>5, <2>6, <2>7, <2>8, <2>9, <2>10, <2>11
           DEF ProcNext, Proceed
<1>3. QED BY <1>1, <1>2 DEF Next

-----------------------------------------------------------------------------
(* Whoever is past its flush holds the lock, so nobody else is.            *)
LEMMA LockStep == TypeOK /\ LockInv /\ [Next]_vars => LockInv'
<1> SUFFICES ASSUME TypeOK, LockInv, [Next]_vars PROVE LockInv'
    OBVIOUS
<1> USE RefreshAssumption DEF TypeOK, LockInv, Goto, Idle
<1>1. CASE UNCHANGED vars
    BY <1>1 DEF vars
<1>2. ASSUME NEW p \in Procs, ProcNext(p) PROVE LockInv'
    <2>1. ASSUME NEW run \in Runs, NEW kind \in Kinds, NEW file \in Files,
                 Begin(p, run, kind, file)
          PROVE LockInv'
        BY <2>1 DEF Begin
    <2>2. CASE Flush(p)
        BY <2>2 DEF Flush
    <2>3. CASE Copy(p)
        BY <2>3 DEF Copy
    <2>4. CASE Ingest(p)
        BY <2>4 DEF Ingest
    <2>5. CASE IngestFails(p)
        BY <2>5 DEF IngestFails
    <2>6. CASE Reconcile(p)
        BY <2>6 DEF Reconcile
    <2>7. CASE Finish(p)
        BY <2>7 DEF Finish
    <2>8. CASE Commit(p)
        BY <2>8 DEF Commit
    <2>9. CASE Rollback(p)
        BY <2>9 DEF Rollback
    <2>10. CASE TimeOut(p)
        BY <2>10 DEF TimeOut
    <2>11. CASE Abort(p)
        BY <2>11 DEF Abort
    <2>12. QED BY <1>2, <2>1, <2>2, <2>3, <2>4, <2>5, <2>6, <2>7, <2>8, <2>9, <2>10, <2>11
           DEF ProcNext, Proceed
<1>3. QED BY <1>1, <1>2 DEF Next

(* Only Copy writes the sandbox, and only the holder of the lock copies.   *)
LEMMA SandboxStep == TypeOK /\ LockInv /\ SandboxInv /\ [Next]_vars => SandboxInv'
<1> SUFFICES ASSUME TypeOK, LockInv, SandboxInv, [Next]_vars PROVE SandboxInv'
    OBVIOUS
<1> USE DEF TypeOK, SandboxInv, Goto, Idle
<1>1. CASE UNCHANGED vars
    BY <1>1 DEF vars
<1>2. ASSUME NEW p \in Procs, ProcNext(p) PROVE SandboxInv'
    <2>1. ASSUME NEW run \in Runs, NEW kind \in Kinds, NEW file \in Files,
                 Begin(p, run, kind, file)
          PROVE SandboxInv'
        BY <2>1 DEF Begin
    <2>2. CASE Flush(p)
        BY <2>2 DEF Flush
    <2>3. CASE Copy(p)
        <3>1. \A q \in Procs : sess[q].pc = "ingest" => q = p
            BY <2>3 DEF Copy, LockInv
        <3>2. QED BY <2>3, <3>1 DEF Copy
    <2>4. CASE Ingest(p)
        BY <2>4 DEF Ingest
    <2>5. CASE IngestFails(p)
        BY <2>5 DEF IngestFails
    <2>6. CASE Reconcile(p)
        BY <2>6 DEF Reconcile
    <2>7. CASE Finish(p)
        BY <2>7 DEF Finish
    <2>8. CASE Commit(p)
        BY <2>8 DEF Commit
    <2>9. CASE Rollback(p)
        BY <2>9 DEF Rollback
    <2>10. CASE TimeOut(p)
        BY <2>10 DEF TimeOut
    <2>11. CASE Abort(p)
        BY <2>11 DEF Abort
    <2>12. QED BY <1>2, <2>1, <2>2, <2>3, <2>4, <2>5, <2>6, <2>7, <2>8, <2>9, <2>10, <2>11
           DEF ProcNext, Proceed
<1>3. QED BY <1>1, <1>2 DEF Next

(* The rows of a session stay what its file demands.                       *)
LEMMA FaithfulStep ==
    TypeOK /\ SandboxInv /\ FaithfulInv /\ [Next]_vars => FaithfulInv'
<1> SUFFICES ASSUME TypeOK, SandboxInv, FaithfulInv, [Next]_vars PROVE FaithfulInv'
    OBVIOUS
<1> USE DEF TypeOK, FaithfulInv, Goto
<1>0. ASSUME NEW p \in Procs, NEW s, sess' = [sess EXCEPT ![p] = s], Faithful(s)
      PROVE FaithfulInv'
    <2>1. \A q \in Procs : sess'[q] = IF q = p THEN s ELSE sess[q]
        BY <1>0
    <2>2. QED BY <1>0, <2>1 DEF Faithful
<1>1. CASE UNCHANGED vars
    BY <1>1 DEF vars
<1>i. Faithful(Idle)
    BY DEF Faithful, Idle
<1>f. \A e : Faithful([pc |-> "flush", of |-> e]) /\ Faithful([pc |-> "copy", of |-> e])
              /\ Faithful([pc |-> "ingest", of |-> e])
    BY DEF Faithful
<1>2. ASSUME NEW p \in Procs, ProcNext(p) PROVE FaithfulInv'
    <2>1. ASSUME NEW run \in Runs, NEW kind \in Kinds, NEW file \in Files,
                 Begin(p, run, kind, file)
          PROVE FaithfulInv'
        BY <2>1, <1>0, <1>f DEF Begin
    <2>2. CASE Flush(p)
        <3>1. CASE sess[p].of.kind = "ingest"
            BY <2>2, <3>1, <1>0, <1>f DEF Flush
        <3>2. CASE sess[p].of.kind # "ingest"
            BY <2>2, <3>2, <1>0, <1>f DEF Flush
        <3>3. QED BY <3>1, <3>2
    <2>3. CASE Copy(p)
        BY <2>3, <1>0, <1>f DEF Copy
    <2>4. CASE Ingest(p)
        <3>1. Content(sess[p]) = sess[p].of.file /\ Readable(sess[p].of.file)
            BY <2>4 DEF Ingest, Content, SandboxInv
        <3>2. CASE sess[p].of.kind = "ingest"
            <4> DEFINE s == [pc |-> "commit", of |-> sess[p].of, rows |-> RowsOf(sess[p].of)]
            <4>1. Faithful(s)
                BY <3>1 DEF Faithful
            <4>2. sess' = [sess EXCEPT ![p] = s]
                BY <2>4, <3>1, <3>2 DEF Ingest, RowsOf
            <4>3. QED BY <1>0, <4>1, <4>2
        <3>3. CASE sess[p].of.kind # "ingest"
            <4> DEFINE s == [pc |-> "reconcile", of |-> sess[p].of, read |-> sess[p].of.file,
                             rows |-> RowsRead(sess[p].of)]
            <4>1. Faithful(s)
                BY <3>1, <3>3 DEF Faithful
            <4>2. {IngestRow(sess[p].of.run, Content(sess[p])),
                   AuditRow(sess[p].of.run, "ingest_complete")}
                      \cup {StepRow(sess[p].of.run, "custodian_ingest")}
                      = RowsRead(sess[p].of)
                BY <3>1 DEF RowsRead
            <4>3. sess' = [sess EXCEPT ![p] = s]
                BY <2>4, <3>1, <3>3, <4>2 DEF Ingest
            <4>4. QED BY <1>0, <4>1, <4>3
        <3>4. QED BY <3>2, <3>3
    <2>5. CASE IngestFails(p)
        <3>1. \A rows : Faithful([pc |-> "raise", of |-> sess[p].of, rows |-> rows])
            BY DEF Faithful
        <3>2. QED BY <2>5, <3>1, <1>0 DEF IngestFails
    <2>6. CASE Reconcile(p)
        <3>1. Faithful(sess[p]) /\ sess[p].pc = "reconcile"
            BY <2>6 DEF Reconcile
        <3> DEFINE s == [pc |-> "finish", of |-> sess[p].of, read |-> sess[p].of.file,
                         rows |-> RowsFound(sess[p].of)]
        <3>2. Faithful(s)
            BY <3>1 DEF Faithful
        <3>3. sess' = [sess EXCEPT ![p] = s]
            BY <2>6, <3>1 DEF Reconcile, RowsFound, Faithful
        <3>4. QED BY <1>0, <3>2, <3>3
    <2>7. CASE Finish(p)
        <3>1. Faithful(sess[p]) /\ sess[p].pc = "finish"
            BY <2>7 DEF Finish
        <3> DEFINE e == sess[p].of
                   status == IF Breaks(e.file, Books) = {} THEN "success"
                             ELSE "completed_with_breaks"
                   s == [pc |-> "commit", of |-> e, rows |-> RowsOf(e)]
        <3>2. Faithful(s)
            BY <3>1 DEF Faithful
        <3>3. RowsRead(e) \cup {StepRow(e.run, "reconcile")}
                  \cup {StepRow(e.run, name) : name \in Steps}
              = {IngestRow(e.run, e.file), AuditRow(e.run, "ingest_complete")}
                  \cup {StepRow(e.run, name) : name \in Steps}
            BY DEF RowsRead, Steps
        <3>4. RowsFound(e) \cup {StepRow(e.run, name) : name \in Steps}
                  \cup {RefreshRow(e.run, status), AuditRow(e.run, "daily_refresh_complete")}
              = RowsOf(e)
            BY <3>1, <3>3 DEF RowsFound, RowsOf, Faithful
        <3>5. sess' = [sess EXCEPT ![p] = [pc |-> "commit", of |-> e, rows |->
                          RowsFound(e) \cup {StepRow(e.run, name) : name \in Steps}
                              \cup {RefreshRow(e.run, status),
                                    AuditRow(e.run, "daily_refresh_complete")}]]
            BY <2>7, <3>1 DEF Finish, Faithful
        <3>6. QED BY <1>0, <3>2, <3>4, <3>5
    <2>8. CASE Commit(p)
        BY <2>8, <1>0, <1>i DEF Commit
    <2>9. CASE Rollback(p)
        BY <2>9, <1>0, <1>i DEF Rollback
    <2>10. CASE TimeOut(p)
        BY <2>10, <1>0, <1>i DEF TimeOut
    <2>11. CASE Abort(p)
        BY <2>11, <1>0, <1>i DEF Abort
    <2>12. QED BY <1>2, <2>1, <2>2, <2>3, <2>4, <2>5, <2>6, <2>7, <2>8, <2>9, <2>10, <2>11
           DEF ProcNext, Proceed
<1>3. QED BY <1>1, <1>2 DEF Next

-----------------------------------------------------------------------------
(* The record.  The ingest rows in the database are those of the runs on   *)
(* record, and each step but Begin and Commit leaves it alone.             *)
LEMMA OwnIngestRow ==
    ASSUME NEW e, NEW run, NEW file, IngestRow(run, file) \in RowsOf(e)
    PROVE  run = e.run /\ file = e.file
BY DEF RowsOf, IngestRow, AuditRow, StepRow, RefreshRow, BreakRows, BreakRow

LEMMA BeginRecords ==
    ASSUME TypeOK, WholeRuns, NEW p \in Procs, NEW run \in Runs, NEW kind \in Kinds,
           NEW file \in Files, Begin(p, run, kind, file)
    PROVE  /\ OnRecord' = OnRecord
           /\ [run |-> run, kind |-> kind, file |-> file] \notin handed
           /\ [run |-> run, kind |-> kind, file |-> file] \notin OnRecord'
<1> DEFINE e == [run |-> run, kind |-> kind, file |-> file]
<1>1. handed' = handed \cup {e} /\ db' = db /\ \A h \in handed : h.run # run
    BY DEF Begin
<1>2. e \notin handed
    BY <1>1
<1>3. IngestRow(run, file) \notin db
    <2>1. SUFFICES ASSUME IngestRow(run, file) \in db PROVE FALSE
        OBVIOUS
    <2>2. PICK h \in OnRecord : IngestRow(run, file) \in RowsOf(h)
        BY <2>1 DEF WholeRuns
    <2>3. h.run = run /\ h \in handed
        BY <2>2, OwnIngestRow DEF OnRecord
    <2>4. QED BY <1>1, <2>3
<1>4. OnRecord' = OnRecord
    BY <1>1, <1>3 DEF OnRecord
<1>5. QED BY <1>2, <1>4 DEF OnRecord

LEMMA CommitRecords ==
    ASSUME TypeOK, FaithfulInv, UniqueRuns, ClaimInv, NEW p \in Procs, Commit(p)
    PROVE  /\ OnRecord' = OnRecord \cup {sess[p].of}
           /\ db' = db \cup RowsOf(sess[p].of)
           /\ Readable(sess[p].of.file)
           /\ sess[p].of \in handed /\ sess[p].of \notin OnRecord
<1> DEFINE of == sess[p].of
<1>1. /\ of \in handed /\ of \notin OnRecord
      /\ Readable(of.file) /\ db' = db \cup RowsOf(of) /\ handed' = handed
    BY DEF Commit, ClaimInv, FaithfulInv, Faithful
<1>2. IngestRow(of.run, of.file) \in RowsOf(of)
    BY DEF RowsOf
<1>3. ASSUME NEW e \in handed, IngestRow(e.run, e.file) \in RowsOf(of) PROVE e = of
    BY <1>1, <1>3, OwnIngestRow DEF UniqueRuns
<1>4. OnRecord' = OnRecord \cup {of}
    BY <1>1, <1>2, <1>3 DEF OnRecord
<1>5. QED BY <1>1, <1>4

(* Neither a run nor a row is recorded by the other steps.                 *)
Quiet(p) ==
    \/ Flush(p) \/ Copy(p) \/ Ingest(p) \/ IngestFails(p) \/ Reconcile(p)
    \/ Finish(p) \/ Rollback(p) \/ TimeOut(p) \/ Abort(p)

LEMMA QuietRecords ==
    ASSUME NEW p \in Procs, TypeOK, Quiet(p)
    PROVE  /\ UNCHANGED <<handed, db>> /\ OnRecord' = OnRecord
           /\ sess'[p].pc # "idle" => sess[p].pc # "idle" /\ sess'[p].of = sess[p].of
           /\ \A q \in Procs : q # p => sess'[q] = sess[q]
<1> USE DEF TypeOK, Goto, Idle
<1>0. UNCHANGED <<handed, db>> => OnRecord' = OnRecord
    BY DEF OnRecord
<1>1. CASE Flush(p)
    BY <1>0, <1>1 DEF Flush
<1>2. CASE Copy(p)
    BY <1>0, <1>2 DEF Copy
<1>3. CASE Ingest(p)
    BY <1>0, <1>3 DEF Ingest
<1>4. CASE IngestFails(p)
    BY <1>0, <1>4 DEF IngestFails
<1>5. CASE Reconcile(p)
    BY <1>0, <1>5 DEF Reconcile
<1>6. CASE Finish(p)
    BY <1>0, <1>6 DEF Finish
<1>7. CASE Rollback(p)
    BY <1>0, <1>7 DEF Rollback
<1>8. CASE TimeOut(p)
    BY <1>0, <1>8 DEF TimeOut
<1>9. CASE Abort(p)
    BY <1>0, <1>9 DEF Abort
<1>10. QED BY <1>1, <1>2, <1>3, <1>4, <1>5, <1>6, <1>7, <1>8, <1>9 DEF Quiet

RunsInv == UniqueRuns /\ ClaimInv /\ RecordInv

LEMMA RunsInit == Init => RunsInv
BY DEF Init, Idle, RunsInv, UniqueRuns, ClaimInv, RecordInv, WholeRuns, OnRecord

LEMMA RunsStep == TypeOK /\ FaithfulInv /\ RunsInv /\ [Next]_vars => RunsInv'
<1> SUFFICES ASSUME TypeOK, FaithfulInv, RunsInv, [Next]_vars PROVE RunsInv'
    OBVIOUS
<1> USE DEF RunsInv
<1>1. CASE UNCHANGED vars
    BY <1>1 DEF vars, UniqueRuns, ClaimInv, RecordInv, WholeRuns, OnRecord
<1>2. ASSUME NEW p \in Procs, NEW run \in Runs, NEW kind \in Kinds, NEW file \in Files,
             Begin(p, run, kind, file)
      PROVE RunsInv'
    <2> DEFINE e == [run |-> run, kind |-> kind, file |-> file]
    <2>1. /\ OnRecord' = OnRecord /\ e \notin handed /\ e \notin OnRecord'
          /\ handed' = handed \cup {e} /\ db' = db
          /\ \A h \in handed : h.run # run
        BY <1>2, BeginRecords DEF Begin, RecordInv
    <2>2. UniqueRuns'
        BY <2>1 DEF UniqueRuns
    <2>3. /\ sess'[p] = [pc |-> "flush", of |-> e]
          /\ \A q \in Procs : q # p => sess'[q] = sess[q]
        BY <1>2 DEF Begin, Goto, TypeOK
    <2>4. ClaimInv'
        BY <2>1, <2>3 DEF ClaimInv
    <2>5. RecordInv'
        BY <2>1 DEF RecordInv, WholeRuns
    <2>6. QED BY <2>2, <2>4, <2>5
<1>3. ASSUME NEW p \in Procs, Commit(p) PROVE RunsInv'
    <2>1. /\ OnRecord' = OnRecord \cup {sess[p].of} /\ db' = db \cup RowsOf(sess[p].of)
          /\ Readable(sess[p].of.file) /\ handed' = handed
        BY <1>3, CommitRecords DEF Commit
    <2>2. UniqueRuns'
        BY <2>1 DEF UniqueRuns
    <2>3. sess[p].pc # "idle" /\ sess'[p].pc = "idle"
              /\ \A q \in Procs : q # p => sess'[q] = sess[q]
        BY <1>3 DEF Commit, Goto, TypeOK, Idle
    <2>4. ClaimInv'
        BY <2>1, <2>3 DEF ClaimInv
    <2>5. RecordInv'
        BY <2>1 DEF RecordInv, WholeRuns
    <2>6. QED BY <2>2, <2>4, <2>5
<1>4. ASSUME NEW p \in Procs, Quiet(p) PROVE RunsInv'
    <2>1. /\ handed' = handed /\ db' = db /\ OnRecord' = OnRecord
          /\ sess'[p].pc # "idle" => sess[p].pc # "idle" /\ sess'[p].of = sess[p].of
          /\ \A q \in Procs : q # p => sess'[q] = sess[q]
        BY <1>4, QuietRecords
    <2>2. UniqueRuns' /\ RecordInv'
        BY <2>1 DEF UniqueRuns, RecordInv, WholeRuns
    <2>3. ClaimInv'
        BY <2>1 DEF ClaimInv
    <2>4. QED BY <2>2, <2>3
<1>5. QED BY <1>1, <1>2, <1>3, <1>4 DEF Next, ProcNext, Proceed, Quiet

-----------------------------------------------------------------------------
THEOREM Invariance == Spec => []IInv
<1>1. Init => IInv
    BY TypeInit, RunsInit
       DEF Init, Idle, IInv, FaithfulInv, Faithful, LockInv, SandboxInv, RunsInv
<1>2. IInv /\ [Next]_vars => IInv'
    BY TypeStep, FaithfulStep, LockStep, SandboxStep, RunsStep DEF IInv, RunsInv
<1>3. QED BY <1>1, <1>2, PTL DEF Spec

(* Every variable keeps its type.                                          *)
THEOREM TypeCorrect == Spec => []TypeOK
<1>1. IInv => TypeOK
    BY DEF IInv
<1>2. QED BY <1>1, Invariance, PTL

(* The database holds whole runs and nothing else, however refreshes and   *)
(* ingests overlap and fail (run_daily_refresh under session_scope).       *)
THEOREM RunsAreWhole == Spec => []WholeRuns
<1>1. IInv => WholeRuns
    BY DEF IInv, RecordInv
<1>2. QED BY <1>1, Invariance, PTL

(* A session's rows come from its own file, though the path is shared      *)
(* (copy_to_research_sandbox runs under the write lock).                   *)
THEOREM FilesAreOwn == Spec => []OwnFile
<1>1. IInv => OwnFile
    <2> SUFFICES ASSUME IInv, NEW p \in Procs,
                        sess[p].pc \in {"reconcile", "finish", "commit"},
                        NEW row \in sess[p].rows, row.kind = "ingest"
                 PROVE row.file = sess[p].of.file
        BY DEF OwnFile
    <2> DEFINE e == sess[p].of
    <2>1. sess[p].rows \in {RowsRead(e), RowsFound(e), RowsOf(e)}
        BY DEF IInv, FaithfulInv, Faithful
    <2>2. row \in RowsOf(e) \/ row \in RowsFound(e)
        BY <2>1 DEF RowsFound
    <2>3. row = IngestRow(e.run, e.file)
        BY <2>2 DEF RowsOf, RowsFound, RowsRead, IngestRow, AuditRow, StepRow, RefreshRow,
                    BreakRows, BreakRow
    <2>4. QED BY <2>3 DEF IngestRow
<1>2. QED BY <1>1, Invariance, PTL

(* The three commands implement the log of whole runs: a commit records    *)
(* one run under the file it was handed, every other step records none.    *)
THEOREM Refinement == Spec => ImplementsLog
<1>1. Init => Log!Init
    BY DEF Init, Log!Init, OnRecord
<1>2. IInv /\ [Next]_vars => [Log!Next]_<<handed, OnRecord>>
    <2> SUFFICES ASSUME IInv, [Next]_vars PROVE [Log!Next]_<<handed, OnRecord>>
        OBVIOUS
    <2>1. CASE UNCHANGED vars
        BY <2>1 DEF vars, OnRecord
    <2>2. ASSUME NEW p \in Procs, NEW run \in Runs, NEW kind \in Kinds, NEW file \in Files,
                 Begin(p, run, kind, file)
          PROVE Log!Next
        <3>1. OnRecord' = OnRecord
            BY <2>2, BeginRecords DEF IInv, RecordInv
        <3>2. Log!Hand(run, kind, file)
            BY <2>2, <3>1 DEF Log!Hand, Begin
        <3>3. QED BY <3>2 DEF Log!Next
    <2>3. ASSUME NEW p \in Procs, Commit(p) PROVE Log!Next
        <3>1. /\ OnRecord' = OnRecord \cup {sess[p].of}
              /\ Readable(sess[p].of.file)
              /\ sess[p].of \in handed /\ sess[p].of \notin OnRecord /\ handed' = handed
            BY <2>3, CommitRecords DEF IInv, Commit
        <3>2. Log!Record(sess[p].of)
            BY <3>1 DEF Log!Record
        <3>3. QED BY <3>1, <3>2 DEF Log!Next
    <2>4. ASSUME NEW p \in Procs, Quiet(p) PROVE UNCHANGED <<handed, OnRecord>>
        BY <2>4, QuietRecords DEF IInv
    <2>5. QED BY <2>1, <2>2, <2>3, <2>4 DEF Next, ProcNext, Proceed, Quiet
<1>3. QED BY <1>1, <1>2, Invariance, PTL DEF Spec, ImplementsLog, Log!Spec

-----------------------------------------------------------------------------
(* The breaks a session is about to record have been announced, and so has *)
(* its ingest: the events go out before the rows, and stay.                *)
Announced(row) ==
    /\ Event("break.opened", row.run, row.found) \in events
    /\ Event("ingest.completed", row.run, {}) \in events

IngestAnnounced(s) ==
    s.pc \in {"reconcile", "finish"} => Event("ingest.completed", s.of.run, {}) \in events

RowsAnnounced(s) ==
    s.pc \in {"reconcile", "finish", "commit"} =>
        \A row \in s.rows : row.kind = "break" => Announced(row)

AnnounceInv ==
    /\ BreaksAnnounced
    /\ \A p \in Procs : IngestAnnounced(sess[p]) /\ RowsAnnounced(sess[p])

LEMMA EventsStay == [Next]_vars => events \subseteq events'
    BY DEF Next, ProcNext, Proceed, Begin, Flush, Copy, Ingest, IngestFails, Reconcile, Finish,
           Commit, Rollback, TimeOut, Abort, vars

LEMMA AnnounceStep ==
    ASSUME TypeOK, FaithfulInv, AnnounceInv, [Next]_vars
    PROVE  AnnounceInv'
<1> USE DEF Goto
<1>1. \A row : Announced(row) => Announced(row)'
    BY EventsStay DEF Announced
<1>2. \A s : /\ IngestAnnounced(s) => IngestAnnounced(s)'
             /\ RowsAnnounced(s) => RowsAnnounced(s)'
    BY EventsStay, <1>1 DEF IngestAnnounced, RowsAnnounced
<1>3. \A p \in Procs : IngestAnnounced(sess[p]) /\ RowsAnnounced(sess[p])
    BY DEF AnnounceInv
<1>4. ASSUME NEW p \in Procs, NEW s, sess' = [sess EXCEPT ![p] = s],
             IngestAnnounced(s)' /\ RowsAnnounced(s)'
      PROVE  \A q \in Procs : IngestAnnounced(sess[q])' /\ RowsAnnounced(sess[q])'
    <2>1. \A q \in Procs : sess'[q] = IF q = p THEN s ELSE sess[q]
        BY <1>4 DEF TypeOK
    <2>2. QED BY <1>2, <1>3, <1>4, <2>1 DEF IngestAnnounced, RowsAnnounced, Announced
<1>5. \A s : s.pc \notin {"reconcile", "finish", "commit"} =>
             IngestAnnounced(s)' /\ RowsAnnounced(s)'
    BY DEF IngestAnnounced, RowsAnnounced
<1>6. ASSUME db' = db PROVE BreaksAnnounced'
    BY <1>6, EventsStay DEF AnnounceInv, BreaksAnnounced
<1>7. CASE UNCHANGED vars
    BY <1>7, <1>2, <1>3, <1>6 DEF vars, AnnounceInv, IngestAnnounced, RowsAnnounced, Announced
<1>8. ASSUME NEW p \in Procs, ProcNext(p) PROVE AnnounceInv'
    <2>1. CASE \/ \E run \in Runs, kind \in Kinds, file \in Files : Begin(p, run, kind, file)
               \/ Flush(p) \/ Copy(p) \/ IngestFails(p) \/ Rollback(p) \/ TimeOut(p) \/ Abort(p)
        <3>1. PICK s : sess' = [sess EXCEPT ![p] = s]
                       /\ s.pc \notin {"reconcile", "finish", "commit"}
            BY <2>1 DEF Begin, Flush, Copy, IngestFails, Rollback, TimeOut, Abort, Idle
        <3>2. db' = db
            BY <2>1 DEF Begin, Flush, Copy, IngestFails, Rollback, TimeOut, Abort
        <3>3. QED BY <1>4, <1>5, <1>6, <3>1, <3>2 DEF AnnounceInv
    <2>2. CASE Ingest(p)
        <3> DEFINE run == sess[p].of.run
                   rows == {IngestRow(run, Content(sess[p])), AuditRow(run, "ingest_complete")}
                   more == rows \cup {StepRow(run, "custodian_ingest")}
        <3>1. \A row \in more : row.kind # "break"
            BY DEF IngestRow, AuditRow, StepRow
        <3>2. db' = db
            BY <2>2 DEF Ingest
        <3>3. CASE sess[p].of.kind = "ingest"
            <4>1. PICK s : s = [pc |-> "commit", of |-> sess[p].of, rows |-> rows]
                OBVIOUS
            <4>2. sess' = [sess EXCEPT ![p] = s]
                BY <2>2, <3>3, <4>1 DEF Ingest
            <4>3. IngestAnnounced(s)' /\ RowsAnnounced(s)'
                BY <3>1, <4>1 DEF IngestAnnounced, RowsAnnounced
            <4>4. QED BY <1>4, <1>6, <3>2, <4>2, <4>3 DEF AnnounceInv
        <3>4. CASE sess[p].of.kind # "ingest"
            <4>1. PICK s : s = [pc |-> "reconcile", of |-> sess[p].of, read |-> Content(sess[p]),
                                rows |-> more]
                OBVIOUS
            <4>2. sess' = [sess EXCEPT ![p] = s]
                  /\ Event("ingest.completed", s.of.run, {}) \in events'
                BY <2>2, <3>4, <4>1 DEF Ingest
            <4>3. IngestAnnounced(s)' /\ RowsAnnounced(s)'
                BY <3>1, <4>1, <4>2 DEF IngestAnnounced, RowsAnnounced
            <4>4. QED BY <1>4, <1>6, <3>2, <4>2, <4>3 DEF AnnounceInv
        <3>5. QED BY <3>3, <3>4
    <2>3. CASE Reconcile(p)
        <3> DEFINE run == sess[p].of.run
                   found == Breaks(sess[p].read, Books)
                   others == {StepRow(run, "reconcile")}
                                 \cup {AuditRow(run, "recon_break_opened") : b \in found}
                   opened == BreakRows(run, sess[p].read)
        <3>0. PICK s : s = [pc |-> "finish", of |-> sess[p].of, read |-> sess[p].read, rows |->
                             sess[p].rows \cup opened \cup others]
            OBVIOUS
        <3>1. sess[p].pc = "reconcile" /\ db' = db
            BY <2>3 DEF Reconcile
        <3>2. sess' = [sess EXCEPT ![p] = s]
            <4>1. sess[p].rows \cup opened \cup others
                  = sess[p].rows \cup opened \cup {StepRow(run, "reconcile")}
                        \cup {AuditRow(run, "recon_break_opened") : b \in found}
                OBVIOUS
            <4>2. QED BY <2>3, <3>0, <4>1 DEF Reconcile
        <3>3. Event("ingest.completed", run, {}) \in events'
            BY <1>3, <3>1, EventsStay DEF IngestAnnounced
        <3>4. \A row \in opened : Announced(row)'
            <4>1. TAKE row \in opened
            <4>2. PICK b \in found : row = BreakRow(run, b)
                BY DEF BreakRows
            <4>3. Event("break.opened", run, b) \in events'
                BY <2>3, <4>2 DEF Reconcile
            <4>4. row.run = run /\ row.found = b
                BY <4>2 DEF BreakRow
            <4>5. QED BY <3>3, <4>3, <4>4 DEF Announced
        <3>5. \A row \in others : row.kind # "break"
            BY DEF StepRow, AuditRow
        <3>6. \A row \in sess[p].rows : row.kind = "break" => Announced(row)'
            BY <1>1, <1>3, <3>1 DEF RowsAnnounced
        <3>7. IngestAnnounced(s)' /\ RowsAnnounced(s)'
            <4>1. s.of = sess[p].of /\ s.rows = sess[p].rows \cup opened \cup others
                BY <3>0
            <4> HIDE DEF others, opened
            <4>2. QED BY <3>3, <3>4, <3>5, <3>6, <4>1 DEF IngestAnnounced, RowsAnnounced
        <3>8. QED BY <1>4, <1>6, <3>1, <3>2, <3>7 DEF AnnounceInv
    <2>4. CASE Finish(p)
        <3> DEFINE run == sess[p].of.run
                   status == IF Breaks(sess[p].read, Books) = {} THEN "success"
                             ELSE "completed_with_breaks"
                   others == {StepRow(run, name) : name \in Steps}
                                 \cup {RefreshRow(run, status),
                                       AuditRow(run, "daily_refresh_complete")}
        <3>0. PICK s : s = [pc |-> "commit", of |-> sess[p].of,
                            rows |-> sess[p].rows \cup others]
            OBVIOUS
        <3>1. sess[p].pc = "finish" /\ db' = db
            BY <2>4 DEF Finish
        <3>2. sess' = [sess EXCEPT ![p] = s]
            BY <2>4, <3>0 DEF Finish
        <3>3. \A row \in others : row.kind # "break"
            BY DEF StepRow, AuditRow, RefreshRow
        <3>4. \A row \in sess[p].rows : row.kind = "break" => Announced(row)'
            BY <1>1, <1>3, <3>1 DEF RowsAnnounced
        <3>5. IngestAnnounced(s)' /\ RowsAnnounced(s)'
            <4>1. s.pc = "commit" /\ s.rows = sess[p].rows \cup others
                BY <3>0
            <4> HIDE DEF others
            <4>2. QED BY <3>3, <3>4, <4>1 DEF IngestAnnounced, RowsAnnounced
        <3>6. QED BY <1>4, <1>6, <3>1, <3>2, <3>5 DEF AnnounceInv
    <2>5. CASE Commit(p)
        <3>1. \A row \in sess[p].rows : row.kind = "break" => Announced(row)'
            BY <1>1, <1>3, <2>5 DEF Commit, RowsAnnounced
        <3>2. BreaksAnnounced'
            <4>1. db' = db \cup sess[p].rows
                BY <2>5 DEF Commit
            <4>2. \A row \in db : row.kind = "break" => Announced(row)'
                BY <1>1 DEF AnnounceInv, BreaksAnnounced, Announced
            <4>3. QED BY <3>1, <4>1, <4>2 DEF BreaksAnnounced, Announced
        <3>3. sess' = [sess EXCEPT ![p] = Idle] /\ Idle.pc = "idle"
            BY <2>5 DEF Commit, Idle
        <3>4. QED BY <1>4, <1>5, <3>2, <3>3 DEF AnnounceInv
    <2>6. QED
        BY <1>8, <2>1, <2>2, <2>3, <2>4, <2>5 DEF ProcNext, Proceed
<1>9. QED BY <1>7, <1>8 DEF Next

(* Every break on record was announced to the exception panel, and so was  *)
(* its ingest (reconcile_ingest publishes before the session commits).     *)
THEOREM BreaksAreAnnounced == Spec => []BreaksAnnounced
<1>1. Init => AnnounceInv
    BY DEF Init, Idle, AnnounceInv, BreaksAnnounced, IngestAnnounced, RowsAnnounced
<1>2. IInv /\ AnnounceInv /\ [Next]_vars => AnnounceInv'
    BY AnnounceStep DEF IInv
<1>3. AnnounceInv => BreaksAnnounced
    BY DEF AnnounceInv
<1>4. QED BY <1>1, <1>2, <1>3, Invariance, PTL DEF Spec
=============================================================================
