------------------------------ MODULE DailyRefresh ------------------------------
(***************************************************************************)
(* The commands that bring custodian files in: `warehouse ingest`, the     *)
(* daily refresh (ingest, reconcile, lots, corporate actions, exceptions)  *)
(* and the dashboard's demo refresh, each in one session.                  *)
(*                                                                         *)
(* A session's rows are its own until it commits.  Its first flush takes   *)
(* SQLite's write lock, for which it waits no longer than the busy         *)
(* timeout.  A refresh first copies its file into the research sandbox,    *)
(* where files of one name overwrite each other, and reads it from there.  *)
(* Events reach the log at once.                                           *)
(*                                                                         *)
(* The files all have one name.  A file is the sequence of its positions,  *)
(* empty when no parser accepts it.  Left out: the rows the seed writes,   *)
(* several custodians, times and wording.                                  *)
(***************************************************************************)
EXTENDS Reconciliation

CONSTANTS
    Procs,      \* processes, one session each
    NoProc,     \* nobody: the write lock is free
    Runs,       \* run ids, drawn at random
    Files,      \* contents a custodian file may have
    DemoFile,   \* the file of the demo refresh
    NoFile,     \* nothing in the sandbox
    Books,      \* the books, which none of these commands changes
    Faults      \* TRUE: sessions may fail, or wait for the lock too long

ASSUME RefreshAssumption ==
    /\ NoProc \notin Procs
    /\ NoFile \notin Files
    /\ DemoFile \in Files
    /\ Faults \in BOOLEAN

VARIABLES
    db,         \* committed rows
    handed,     \* the runs begun, each with the file it was handed (history)
    failed,     \* the runs whose command raised an error (history)
    sandbox,    \* content of the file in the research sandbox
    events,     \* the event log
    lock,       \* the process that holds the write lock
    sess        \* the open session of each process

vars == <<db, handed, failed, sandbox, events, lock, sess>>

-----------------------------------------------------------------------------
Kinds == {"ingest", "refresh", "demo"}
Handed == [run : Runs, kind : Kinds, file : Files]

Steps == {"custodian_ingest", "reconcile", "update_lots", "corporate_actions",
          "exception_queue"}

(* The parser accepts the file and the security master knows its tickers.  *)
Readable(file) ==
    /\ file # <<>>
    /\ \A i \in DOMAIN file : file[i].security \in DOMAIN Books.ids["isin"]

IngestRow(run, file) == [kind |-> "ingest", run |-> run, file |-> file]
StepRow(run, name) == [kind |-> "step", run |-> run, name |-> name]
BreakRow(run, b) == [kind |-> "break", run |-> run, found |-> b]
RefreshRow(run, status) == [kind |-> "refresh", run |-> run, status |-> status]
AuditRow(run, action) == [kind |-> "audit", run |-> run, action |-> action]

BreakRows(run, file) == {BreakRow(run, b) : b \in Breaks(file, Books)}

Event(op, run, about) == [op |-> op, run |-> run, about |-> about]

Statuses == {"success", "completed_with_breaks", "error"}
Actions == {"ingest_complete", "ingest_failed", "recon_break_opened",
            "daily_refresh_complete", "daily_refresh_failed"}
AllBreaks == UNION {Breaks(file, Books) : file \in {f \in Files : Readable(f)}}

Row ==
         [kind : {"ingest"}, run : Runs, file : Files]
    \cup [kind : {"step"}, run : Runs, name : Steps]
    \cup [kind : {"break"}, run : Runs, found : AllBreaks]
    \cup [kind : {"refresh"}, run : Runs, status : Statuses]
    \cup [kind : {"audit"}, run : Runs, action : Actions]

(* read is the content the session has parsed.                             *)
Session ==
         [pc : {"idle"}]
    \cup [pc : {"flush", "copy", "ingest"}, of : Handed]
    \cup [pc : {"reconcile", "finish"}, of : Handed, read : Files, rows : SUBSET Row]
    \cup [pc : {"commit", "raise"}, of : Handed, rows : SUBSET Row]

Idle == [pc |-> "idle"]

TypeOK ==
    /\ db \subseteq Row
    /\ handed \subseteq Handed
    /\ failed \subseteq Runs
    /\ sandbox \in Files \cup {NoFile}
    /\ \A e \in events : e.run \in Runs
    /\ lock \in Procs \cup {NoProc}
    /\ sess \in [Procs -> Session]

Init ==
    /\ db = {}
    /\ handed = {}
    /\ failed = {}
    /\ sandbox = NoFile
    /\ events = {}
    /\ lock = NoProc
    /\ sess = [p \in Procs |-> Idle]

Goto(p, session) == sess' = [sess EXCEPT ![p] = session]

-----------------------------------------------------------------------------
(* Mutant: run ids that two commands may share.                            *)
Begin_SharedId(p, run, kind, file) ==
    LET e == [run |-> run, kind |-> kind, file |-> file]
    IN  /\ sess[p] = Idle
        /\ handed' = handed \cup {e}
        /\ Goto(p, [pc |-> "flush", of |-> e])
        /\ UNCHANGED <<db, failed, sandbox, events, lock>>

(* A command draws its run id.  The demo refresh first looks for any       *)
(* ingest run and leaves if there is one.                                  *)
Begin(p, run, kind, file) ==
    LET e == [run |-> run, kind |-> kind, file |-> file]
    IN  /\ sess[p] = Idle
        /\ run \notin {h.run : h \in handed}
        /\ kind = "demo" => file = DemoFile /\ ~\E row \in db : row.kind = "ingest"
        /\ handed' = handed \cup {e}
        /\ Goto(p, [pc |-> "flush", of |-> e])
        /\ UNCHANGED <<db, failed, sandbox, events, lock>>

(* Mutant: the run row is added but not flushed before the copy.           *)
Flush_Unflushed(p) ==
    /\ sess[p].pc = "flush"
    /\ Goto(p, [pc |-> IF sess[p].of.kind = "ingest" THEN "ingest" ELSE "copy",
                of |-> sess[p].of])
    /\ UNCHANGED <<db, handed, failed, sandbox, events, lock>>

(* The run row is flushed: the session holds the write lock from here on.  *)
Flush(p) ==
    LET s == sess[p]
    IN  /\ s.pc = "flush"
        /\ lock = NoProc
        /\ lock' = p
        /\ Goto(p, [pc |-> IF s.of.kind = "ingest" THEN "ingest" ELSE "copy", of |-> s.of])
        /\ UNCHANGED <<db, handed, failed, sandbox, events>>

(* copy_to_research_sandbox                                                *)
Copy(p) ==
    /\ sess[p].pc = "copy"
    /\ sandbox' = sess[p].of.file
    /\ Goto(p, [pc |-> "ingest", of |-> sess[p].of])
    /\ UNCHANGED <<db, handed, failed, events, lock>>

(* What the session's path leads to.                                       *)
Content(s) == IF s.of.kind = "ingest" THEN s.of.file ELSE sandbox

(* run_custodian_ingest on a good file; a refresh then announces it.       *)
Ingest(p) ==
    LET s == sess[p]
        run == s.of.run
        rows == {IngestRow(run, Content(s)), AuditRow(run, "ingest_complete")}
    IN  /\ s.pc = "ingest"
        /\ Readable(Content(s))
        /\ IF s.of.kind = "ingest"
           THEN /\ Goto(p, [pc |-> "commit", of |-> s.of, rows |-> rows])
                /\ UNCHANGED events
           ELSE /\ Goto(p, [pc |-> "reconcile", of |-> s.of, read |-> Content(s),
                            rows |-> rows \cup {StepRow(run, "custodian_ingest")}])
                /\ events' = events \cup {Event("ingest.completed", run, {})}
        /\ UNCHANGED <<db, handed, failed, sandbox, lock>>

(* A bad file: both layers write their failure rows and raise.             *)
IngestFails(p) ==
    LET s == sess[p]
        run == s.of.run
    IN  /\ s.pc = "ingest"
        /\ ~Readable(Content(s))
        /\ Goto(p, [pc |-> "raise", of |-> s.of, rows |->
                        {AuditRow(run, "ingest_failed")} \cup
                        IF s.of.kind = "ingest" THEN {}
                        ELSE {StepRow(run, "custodian_ingest"), RefreshRow(run, "error"),
                              AuditRow(run, "daily_refresh_failed")}])
        /\ failed' = failed \cup {run}
        /\ UNCHANGED <<db, handed, sandbox, events, lock>>

(* Mutant: breaks are opened and not announced.                            *)
Reconcile_Silent(p) ==
    LET s == sess[p]
        run == s.of.run
        found == Breaks(s.read, Books)
    IN  /\ s.pc = "reconcile"
        /\ Goto(p, [pc |-> "finish", of |-> s.of, read |-> s.read, rows |->
                        s.rows \cup BreakRows(run, s.read) \cup {StepRow(run, "reconcile")}
                               \cup {AuditRow(run, "recon_break_opened") : b \in found}])
        /\ UNCHANGED <<db, handed, failed, sandbox, events, lock>>

(* reconcile_ingest on the rows of this run; each break is announced.      *)
Reconcile(p) ==
    LET s == sess[p]
        run == s.of.run
        found == Breaks(s.read, Books)
    IN  /\ s.pc = "reconcile"
        /\ Goto(p, [pc |-> "finish", of |-> s.of, read |-> s.read, rows |->
                        s.rows \cup BreakRows(run, s.read) \cup {StepRow(run, "reconcile")}
                               \cup {AuditRow(run, "recon_break_opened") : b \in found}])
        /\ events' = events \cup {Event("break.opened", run, b) : b \in found}
        /\ UNCHANGED <<db, handed, failed, sandbox, lock>>

(* The three steps that change no book, and the verdict.                   *)
Finish(p) ==
    LET s == sess[p]
        run == s.of.run
        status == IF Breaks(s.read, Books) = {} THEN "success" ELSE "completed_with_breaks"
    IN  /\ s.pc = "finish"
        /\ Goto(p, [pc |-> "commit", of |-> s.of, rows |->
                        s.rows \cup {StepRow(run, name) : name \in Steps}
                               \cup {RefreshRow(run, status),
                                     AuditRow(run, "daily_refresh_complete")}])
        /\ UNCHANGED <<db, handed, failed, sandbox, events, lock>>

Commit(p) ==
    /\ sess[p].pc = "commit"
    /\ db' = db \cup sess[p].rows
    /\ lock' = NoProc
    /\ Goto(p, Idle)
    /\ UNCHANGED <<handed, failed, sandbox, events>>

(* Mutants: the session commits although its command raised; it is not     *)
(* closed.                                                                 *)
Rollback_Commits(p) ==
    /\ sess[p].pc = "raise"
    /\ db' = db \cup sess[p].rows
    /\ lock' = NoProc
    /\ Goto(p, Idle)
    /\ UNCHANGED <<handed, failed, sandbox, events>>

Rollback_Unclosed(p) ==
    /\ sess[p].pc = "raise"
    /\ Goto(p, Idle)
    /\ UNCHANGED <<db, handed, failed, sandbox, events, lock>>

Rollback(p) ==
    /\ sess[p].pc = "raise"
    /\ lock' = NoProc
    /\ Goto(p, Idle)
    /\ UNCHANGED <<db, handed, failed, sandbox, events>>

(* database is locked                                                      *)
TimeOut(p) ==
    /\ Faults
    /\ sess[p].pc = "flush"
    /\ lock # NoProc
    /\ Goto(p, Idle)
    /\ UNCHANGED <<db, handed, failed, sandbox, events, lock>>

(* A crash, a full disk, a file that has gone: nothing of the session      *)
(* stays but its copy and its events.                                      *)
Abort(p) ==
    /\ Faults
    /\ sess[p] # Idle
    /\ lock' = IF lock = p THEN NoProc ELSE lock
    /\ Goto(p, Idle)
    /\ UNCHANGED <<db, handed, failed, sandbox, events>>

-----------------------------------------------------------------------------
(* What a process does once it has begun, unless it fails.                 *)
Proceed(p) ==
    \/ Flush(p) \/ Copy(p)
    \/ Ingest(p) \/ IngestFails(p)
    \/ Reconcile(p) \/ Finish(p)
    \/ Commit(p) \/ Rollback(p)

ProcNext(p) ==
    \/ \E run \in Runs, kind \in Kinds, file \in Files : Begin(p, run, kind, file)
    \/ Proceed(p)
    \/ TimeOut(p)
    \/ Abort(p)

Next == \E p \in Procs : ProcNext(p)

Spec == Init /\ [][Next]_vars

(* A process that can go on does: nothing in these commands waits but for  *)
(* the lock, and whoever holds that is not waiting.                        *)
FairSpec == Spec /\ \A p \in Procs : WF_vars(Proceed(p))

-----------------------------------------------------------------------------
(* The runs on record, and everything a run on record has written.         *)
OnRecord == {e \in handed : IngestRow(e.run, e.file) \in db}

RowsOf(e) ==
    {IngestRow(e.run, e.file), AuditRow(e.run, "ingest_complete")} \cup
    IF e.kind = "ingest" THEN {}
    ELSE {StepRow(e.run, name) : name \in Steps}
         \cup BreakRows(e.run, e.file)
         \cup {AuditRow(e.run, "recon_break_opened") : b \in Breaks(e.file, Books)}
         \cup {RefreshRow(e.run, IF Breaks(e.file, Books) = {} THEN "success"
                                 ELSE "completed_with_breaks"),
               AuditRow(e.run, "daily_refresh_complete")}

(* The database holds whole runs and nothing else: for each run on record  *)
(* the verdict, the breaks and the steps that follow from the file the     *)
(* command was handed (run_daily_refresh is one unit of work).             *)
WholeRuns == db = UNION {RowsOf(e) : e \in OnRecord}

(* The rows a session is about to commit come from its own file, though    *)
(* refreshes read it from a path they share (copy_to_research_sandbox).    *)
OwnFile ==
    \A p \in Procs : sess[p].pc \in {"reconcile", "finish", "commit"} =>
        \A row \in sess[p].rows : row.kind = "ingest" => row.file = sess[p].of.file

(* Every break on record was announced to the exception panel, and so was  *)
(* the ingest it belongs to.                                               *)
BreaksAnnounced ==
    \A row \in db : row.kind = "break" =>
        /\ Event("break.opened", row.run, row.found) \in events
        /\ Event("ingest.completed", row.run, {}) \in events

(* The commands implement the log of whole runs.                           *)
Log == INSTANCE IngestLog WITH log <- OnRecord
ImplementsLog == Log!Spec

(* Whoever takes the write lock gives it back.                             *)
LockReleased == \A p \in Procs : lock = p ~> lock # p

(* A command that fails leaves a *_failed audit row.                       *)
FailureRecorded ==
    \A run \in failed : (\E p \in Procs : sess[p].pc = "raise" /\ sess[p].of.run = run)
                            \/ AuditRow(run, "ingest_failed") \in db
=============================================================================
