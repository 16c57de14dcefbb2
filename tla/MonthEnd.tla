-------------------------------- MODULE MonthEnd --------------------------------
(***************************************************************************)
(* The month-end batch: one session, one report pack per household, and    *)
(* the packs of earlier months that a report is compared with.             *)
(*                                                                         *)
(* A pack is three files, internal.md, external.md and bundle.json, under  *)
(* a fresh snapshot id; they are written at once and for all to see.  Its  *)
(* report_build audit row is flushed, which takes SQLite's write lock, and *)
(* becomes visible with the only commit of the batch.  A failed flush      *)
(* rolls the transaction back and leaves the session unusable: everything  *)
(* asked of it afterwards raises, the commit included.                     *)
(*                                                                         *)
(* Left out: the sections of the report, period labels, and the external   *)
(* PDF, which ReportDelivery is about (a fresh snapshot has no approval).  *)
(***************************************************************************)
EXTENDS Naturals, Sequences

CONSTANTS
    Procs,      \* processes, one session each
    NoProc,     \* nobody: the write lock is free
    Households, \* household ids
    Lists,      \* what one command goes through: all households, by id, or one
    Reportable, \* the households with positions and a policy statement
    Dates,      \* as_of dates
    Snapshots,  \* the snapshot ids packs may draw
    NoSnap,     \* no prior report
    Faults      \* TRUE: sessions, writes and flushes may fail

ASSUME MonthEndAssumption ==
    /\ NoProc \notin Procs
    /\ Lists \subseteq Seq(Households)
    /\ Reportable \subseteq Households
    /\ Dates \subseteq Nat
    /\ NoSnap \notin Snapshots
    /\ Faults \in BOOLEAN

VARIABLES
    files,      \* the three files of each pack
    pack,       \* what the bundle of a snapshot says
    clock,      \* generated_at of the newest bundle
    readable,   \* the bundles each collection found whole (history)
    audit,      \* snapshots with a committed report_build row
    lock,       \* the process that holds the write lock
    sess        \* the batch of each process

vars == <<files, pack, clock, readable, audit, lock, sess>>

FileNames == {"internal.md", "external.md", "bundle.json"}
Contents == {"absent", "torn", "whole"}
Blank == [made |-> 0]
Pack == [household : Households, as_of : Dates, made : Nat \ {0},
         prior : Snapshots \cup {NoSnap}]

Idle == [pc |-> "idle"]

(* packs are the outcomes so far that say "completed", rows the audit rows *)
(* the transaction holds, swallowed the households that failed because the *)
(* session did.                                                            *)
Batch == [pc : {"next", "write", "flush", "commit"}, todo : Seq(Households),
          as_of : Dates, snap : Snapshots \cup {NoSnap}, packs : SUBSET Snapshots,
          rows : SUBSET Snapshots, poisoned : BOOLEAN, swallowed : SUBSET Households]

TypeOK ==
    /\ files \in [Snapshots -> [FileNames -> Contents]]
    /\ pack \in [Snapshots -> Pack \cup {Blank}]
    /\ clock \in Nat
    /\ readable \in [Snapshots -> SUBSET Snapshots]
    /\ audit \subseteq Snapshots
    /\ lock \in Procs \cup {NoProc}
    /\ sess \in [Procs -> Batch \cup {Idle}]

Init ==
    /\ files = [s \in Snapshots |-> [f \in FileNames |-> "absent"]]
    /\ pack = [s \in Snapshots |-> Blank]
    /\ clock = 0
    /\ readable = [s \in Snapshots |-> {}]
    /\ audit = {}
    /\ lock = NoProc
    /\ sess = [p \in Procs |-> Idle]

Goto(p, session) == sess' = [sess EXCEPT ![p] = session]
Release(p) == lock' = IF lock = p THEN NoProc ELSE lock

-----------------------------------------------------------------------------
(* The batch over the households in the order of their ids, or the command *)
(* for one of them, which exits before a commit that would commit nothing  *)
(* when that one fails.                                                    *)
Begin(p, todo, as_of) ==
    /\ sess[p] = Idle
    /\ Goto(p, [pc |-> "next", todo |-> todo, as_of |-> as_of, snap |-> NoSnap,
                packs |-> {}, rows |-> {}, poisoned |-> FALSE, swallowed |-> {}])
    /\ UNCHANGED <<files, pack, clock, readable, audit, lock>>

(* The readable bundles of a household: a torn one does not parse.         *)
Bundles(h) ==
    {s \in Snapshots : files[s]["bundle.json"] = "whole" /\ pack[s].household = h}

(* Mutant: a bundle of the same date counts as earlier.                    *)
Earlier_OrSame(h, as_of) == {s \in Bundles(h) : pack[s].as_of <= as_of}

(* The bundles find_prior_bundle considers.                                *)
Earlier(h, as_of) == {s \in Bundles(h) : pack[s].as_of < as_of}

(* Mutant: of several bundles of one date the first made is kept.          *)
Newer_FirstMade(s, t) ==
    \/ pack[s].as_of > pack[t].as_of
    \/ pack[s].as_of = pack[t].as_of /\ pack[s].made < pack[t].made

(* The later date, and of one date the later generated_at.                 *)
Newer(s, t) ==
    \/ pack[s].as_of > pack[t].as_of
    \/ pack[s].as_of = pack[t].as_of /\ pack[s].made > pack[t].made

(* find_prior_bundle                                                       *)
IsPrior(prior, h, as_of) ==
    IF Earlier(h, as_of) = {} THEN prior = NoSnap
    ELSE /\ prior \in Earlier(h, as_of)
         /\ \A s \in Earlier(h, as_of) \ {prior} : Newer(prior, s)

(* collect_report_bundle: a fresh snapshot, and the prior one at this      *)
(* moment.                                                                 *)
Collect(p, s, prior) ==
    LET b == sess[p]
        h == Head(b.todo)
    IN  /\ b.pc = "next" /\ b.todo # <<>>
        /\ ~b.poisoned /\ h \in Reportable
        /\ pack[s] = Blank
        /\ IsPrior(prior, h, b.as_of)
        /\ clock' = clock + 1
        /\ pack' = [pack EXCEPT ![s] = [household |-> h, as_of |-> b.as_of,
                                        made |-> clock + 1, prior |-> prior]]
        /\ readable' = [readable EXCEPT ![s] = Bundles(h)]
        /\ Goto(p, [b EXCEPT !.pc = "write", !.snap = s])
        /\ UNCHANGED <<files, audit, lock>>

(* A household that cannot be reported on fails alone; one whose turn      *)
(* comes after a failed flush fails with it.                               *)
Skip(p) ==
    LET b == sess[p]
    IN  /\ b.pc = "next" /\ b.todo # <<>>
        /\ b.poisoned \/ Head(b.todo) \notin Reportable
        /\ Goto(p, [b EXCEPT !.todo = Tail(@),
                             !.swallowed = IF b.poisoned THEN @ \cup {Head(b.todo)} ELSE @])
        /\ UNCHANGED <<files, pack, clock, readable, audit, lock>>

(* Mutant: bundle.json before the Markdown.                                *)
WriteOrder_BundleFirst == <<"bundle.json", "internal.md", "external.md">>

(* write_report_bundle: both Markdown files, then the bundle.              *)
WriteOrder == <<"internal.md", "external.md", "bundle.json">>

(* The first file in that order that a pack still lacks.                   *)
IsNext(f, s) ==
    \E i \in 1..3 :
        /\ f = WriteOrder[i]
        /\ files[s][f] # "whole"
        /\ \A j \in 1..3 : j < i => files[s][WriteOrder[j]] = "whole"

Write(p, f) ==
    LET b == sess[p]
    IN  /\ b.pc = "write"
        /\ IsNext(f, b.snap)
        /\ files' = [files EXCEPT ![b.snap][f] = "whole"]
        /\ IF f = WriteOrder[3] THEN Goto(p, [b EXCEPT !.pc = "flush"])
                                ELSE UNCHANGED sess
        /\ UNCHANGED <<pack, clock, readable, audit, lock>>

(* Who stops while writing may leave the file created and not complete.    *)
LeaveFiles(p) ==
    \/ UNCHANGED files
    \/ /\ sess[p].pc = "write"
       /\ \E f \in FileNames :
             /\ IsNext(f, sess[p].snap)
             /\ files' = [files EXCEPT ![sess[p].snap][f] = "torn"]

(* Mutant: a failed write is passed over.                                  *)
WriteFails_Passed(p) ==
    /\ Faults
    /\ sess[p].pc = "write"
    /\ Goto(p, [sess[p] EXCEPT !.pc = "flush"])
    /\ UNCHANGED <<files, pack, clock, readable, audit, lock>>

(* An OSError: the household fails, the files written so far stay.         *)
WriteFails(p) ==
    /\ Faults
    /\ sess[p].pc = "write"
    /\ LeaveFiles(p)
    /\ Goto(p, [sess[p] EXCEPT !.pc = "next", !.todo = Tail(@)])
    /\ UNCHANGED <<pack, clock, readable, audit, lock>>

(* The audit row of the pack, flushed: the household is completed.         *)
Flush(p) ==
    LET b == sess[p]
    IN  /\ b.pc = "flush"
        /\ lock \in {NoProc, p}
        /\ lock' = p
        /\ Goto(p, [b EXCEPT !.pc = "next", !.todo = Tail(@),
                             !.packs = @ \cup {b.snap}, !.rows = @ \cup {b.snap}])
        /\ UNCHANGED <<files, pack, clock, readable, audit>>

(* Mutant: the handler of the failure rolls back and goes on.              *)
FlushFails_GoesOn(p) ==
    /\ Faults
    /\ sess[p].pc = "flush"
    /\ Release(p)
    /\ Goto(p, [sess[p] EXCEPT !.pc = "next", !.todo = Tail(@), !.rows = {}])
    /\ UNCHANGED <<files, pack, clock, readable, audit>>

(* The database is locked, or full: the transaction is rolled back, with   *)
(* the rows of the households before.                                      *)
FlushFails(p) ==
    /\ Faults
    /\ sess[p].pc = "flush"
    /\ Release(p)
    /\ Goto(p, [sess[p] EXCEPT !.pc = "next", !.todo = Tail(@), !.rows = {},
                               !.poisoned = TRUE])
    /\ UNCHANGED <<files, pack, clock, readable, audit>>

(* The outcomes are printed, inside the session still.                     *)
PrintOutcomes(p) ==
    /\ sess[p].pc = "next" /\ sess[p].todo = <<>>
    /\ Goto(p, [sess[p] EXCEPT !.pc = "commit"])
    /\ UNCHANGED <<files, pack, clock, readable, audit, lock>>

Commit(p) ==
    /\ sess[p].pc = "commit" /\ ~sess[p].poisoned
    /\ audit' = audit \cup sess[p].rows
    /\ Release(p)
    /\ Goto(p, Idle)
    /\ UNCHANGED <<files, pack, clock, readable>>

(* The commit of an unusable session raises.                               *)
CommitFails(p) ==
    /\ sess[p].pc = "commit" /\ sess[p].poisoned
    /\ Release(p)
    /\ Goto(p, Idle)
    /\ UNCHANGED <<files, pack, clock, readable, audit>>

(* A crash, or a commit that fails for its own reasons.                    *)
Abort(p) ==
    /\ Faults
    /\ sess[p] # Idle
    /\ LeaveFiles(p)
    /\ Release(p)
    /\ Goto(p, Idle)
    /\ UNCHANGED <<pack, clock, readable, audit>>

-----------------------------------------------------------------------------
ProcNext(p) ==
    \/ \E todo \in Lists, as_of \in Dates : Begin(p, todo, as_of)
    \/ \E s \in Snapshots, prior \in Snapshots \cup {NoSnap} : Collect(p, s, prior)
    \/ Skip(p)
    \/ \E f \in FileNames : Write(p, f)
    \/ WriteFails(p)
    \/ Flush(p) \/ FlushFails(p)
    \/ PrintOutcomes(p)
    \/ Commit(p) \/ CommitFails(p)
    \/ Abort(p)

Next == \E p \in Procs : ProcNext(p)

Spec == Init /\ [][Next]_vars

-----------------------------------------------------------------------------
Whole(s) == \A f \in FileNames : files[s][f] = "whole"

(* An audit row never speaks of a pack that is not whole on disk, whoever  *)
(* failed at which file (the row is flushed after write_report_bundle).    *)
AuditedIsWhole == \A s \in audit : Whole(s)

(* A pack whose bundle can be read has both its Markdown files: whatever   *)
(* failed, no reader takes a half-written pack for one (bundle.json last). *)
ReadableIsWhole ==
    \A s \in Snapshots : files[s]["bundle.json"] = "whole" => Whole(s)

(* Whatever failed at which file, no record speaks and no reader takes up  *)
(* a pack that is not whole.                                               *)
PacksAreWhole == AuditedIsWhole /\ ReadableIsWhole

(* No report is compared with one of its own date or a later one, nor with *)
(* another household's, however batches for different dates overlap        *)
(* (find_prior_bundle's walk-forward rule).                                *)
NoLookahead ==
    \A s \in Snapshots : pack[s] # Blank /\ pack[s].prior # NoSnap =>
        LET prior == pack[pack[s].prior]
        IN  /\ prior # Blank
            /\ prior.household = pack[s].household
            /\ prior.as_of < pack[s].as_of

(* And no report in between is passed over: of the bundles that could be   *)
(* read at the time, none is of an earlier date and nearer than the prior, *)
(* nor of the prior's date and made after it.                              *)
NothingPassedOver ==
    \A s \in Snapshots : \A t \in readable[s] :
        pack[t].as_of < pack[s].as_of =>
            LET prior == pack[pack[s].prior]
            IN  /\ pack[s].prior # NoSnap
                /\ pack[t].as_of <= prior.as_of
                /\ pack[t].as_of = prior.as_of => pack[t].made <= prior.made

(* A report is compared with the nearest earlier one of its household.     *)
PriorIsNearest == NoLookahead /\ NothingPassedOver

(* What a batch printed as completed is on record as a whole or not at all *)
(* (one commit for the batch, none after a failed flush).                  *)
AllOrNothing ==
    [][\A p \in Procs : sess[p].pc = "commit" /\ sess'[p] = Idle =>
           \/ sess[p].packs \subseteq audit'
           \/ sess[p].packs \cap audit' = {}]_vars

(* One household's failure does not make another fail.                     *)
IsolatedFailures == \A p \in Procs : sess[p] # Idle => sess[p].swallowed = {}
=============================================================================
