---------------------------- MODULE MonthEnd_proofs ----------------------------
(***************************************************************************)
(* Proofs about MonthEnd, for any processes, households, dates and         *)
(* snapshots, and for every failure.                                       *)
(***************************************************************************)
EXTENDS MonthEnd, TLAPS

(* Who writes or flushes has a household and a pack to do it for.          *)
BusyInv ==
    \A p \in Procs : sess[p].pc \in {"write", "flush"} =>
        sess[p].todo # <<>> /\ sess[p].snap \in Snapshots

(* A file exists only in a collected pack, and external.md and bundle.json *)
(* only after the files before them.                                       *)
FilesInv ==
    \A s \in Snapshots :
        /\ pack[s] = Blank => files[s]["bundle.json"] # "whole"
        /\ files[s]["bundle.json"] = "whole" => Whole(s)

(* The packs an open session answers for.                                  *)
Held(p) ==
    IF sess[p] = Idle THEN {}
    ELSE sess[p].packs \cup
             (IF sess[p].pc \in {"write", "flush"} THEN {sess[p].snap} ELSE {})

(* Each of them is collected, on no record yet, and nobody else's.         *)
OwnInv ==
    /\ \A s \in audit : pack[s] # Blank
    /\ \A p \in Procs : \A s \in Held(p) :
          /\ pack[s] # Blank
          /\ s \notin audit
          /\ \A q \in Procs : s \in Held(q) => p = q

(* What a session is about to put on record is whole; while nothing failed *)
(* that is everything it calls completed.                                  *)
RowsInv ==
    \A p \in Procs : sess[p] # Idle =>
        /\ \A s \in sess[p].rows : Whole(s)
        /\ sess[p].pc \in {"write", "flush"} => sess[p].snap \in Snapshots
        /\ sess[p].pc = "flush" => Whole(sess[p].snap)
        /\ ~sess[p].poisoned => sess[p].rows = sess[p].packs

(* What a collection read is still there, as it was.                       *)
ReadableInv ==
    \A s \in Snapshots :
        /\ pack[s] = Blank => readable[s] = {}
        /\ \A t \in readable[s] : pack[t] # Blank

(* The inductive invariant.                                                *)
IInv ==
    /\ TypeOK
    /\ BusyInv
    /\ FilesInv
    /\ OwnInv
    /\ RowsInv
    /\ AuditedIsWhole
    /\ ReadableInv
    /\ NoLookahead
    /\ NothingPassedOver

-----------------------------------------------------------------------------
LEMMA BatchFields ==
    ASSUME NEW b \in Batch
    PROVE  /\ b.pc \in {"next", "write", "flush", "commit"}
           /\ b.todo \in Seq(Households)
           /\ b.as_of \in Dates
           /\ b.snap \in Snapshots \cup {NoSnap}
           /\ b.packs \in SUBSET Snapshots
           /\ b.rows \in SUBSET Snapshots
           /\ b.poisoned \in BOOLEAN
           /\ b.swallowed \in SUBSET Households
           /\ b # Idle
    BY DEF Batch, Idle

LEMMA OpenSession ==
    ASSUME TypeOK, NEW p \in Procs, sess[p] # Idle
    PROVE  sess[p] \in Batch
    BY DEF TypeOK

LEMMA ReleaseType ==
    ASSUME TypeOK, NEW p \in Procs, Release(p) PROVE lock' \in Procs \cup {NoProc}
    BY DEF TypeOK, Release

LEMMA SetFile ==
    ASSUME TypeOK, NEW s \in Snapshots, NEW f \in FileNames, NEW c \in Contents,
           files' = [files EXCEPT ![s][f] = c]
    PROVE  /\ files' \in [Snapshots -> [FileNames -> Contents]]
           /\ \A t \in Snapshots, g \in FileNames :
                  files'[t][g] = IF t = s /\ g = f THEN c ELSE files[t][g]
<1>1. files \in [Snapshots -> [FileNames -> Contents]]
    BY DEF TypeOK
<1> DEFINE N == FileNames
           C == Contents
<1>2. s \in Snapshots /\ f \in N /\ c \in C /\ files \in [Snapshots -> [N -> C]]
    BY <1>1
<1> HIDE DEF N, C
<1>3. /\ files' \in [Snapshots -> [N -> C]]
      /\ \A t \in Snapshots, g \in N :
             files'[t][g] = IF t = s /\ g = f THEN c ELSE files[t][g]
    BY <1>2
<1>4. QED BY <1>3 DEF N, C

(* Whatever a session leaves behind, what was whole stays whole and        *)
(* nothing becomes whole.                                                  *)
LEMMA LeaveEffect ==
    ASSUME TypeOK, BusyInv, NEW p \in Procs, LeaveFiles(p)
    PROVE  /\ files' \in [Snapshots -> [FileNames -> Contents]]
           /\ \A t \in Snapshots, g \in FileNames :
                  files'[t][g] = "whole" <=> files[t][g] = "whole"
<1>1. CASE UNCHANGED files
    BY <1>1 DEF TypeOK
<1>2. CASE ~UNCHANGED files
    <2>1. sess[p].pc = "write" /\ sess[p].snap \in Snapshots
        BY <1>2 DEF LeaveFiles, BusyInv
    <2>2. PICK f \in FileNames : /\ IsNext(f, sess[p].snap)
                                 /\ files' = [files EXCEPT ![sess[p].snap][f] = "torn"]
        BY <1>2 DEF LeaveFiles
    <2>3. files[sess[p].snap][f] # "whole"
        BY <2>2 DEF IsNext
    <2>4. "torn" \in Contents
        BY DEF Contents
    <2>5. QED BY <2>1, <2>2, <2>3, <2>4, SetFile
<1>3. QED BY <1>1, <1>2

LEMMA WriteFiles ==
    ASSUME TypeOK, BusyInv, NEW p \in Procs, NEW f \in FileNames, Write(p, f)
    PROVE  /\ files' \in [Snapshots -> [FileNames -> Contents]]
           /\ \A t \in Snapshots, g \in FileNames :
                  files'[t][g] = IF t = sess[p].snap /\ g = f THEN "whole" ELSE files[t][g]
<1>1. sess[p].snap \in Snapshots /\ "whole" \in Contents
    BY DEF Write, BusyInv, Contents
<1>2. QED BY <1>1, SetFile DEF Write

LEMMA TypeInit == Init => TypeOK /\ BusyInv
    BY DEF Init, TypeOK, BusyInv, Contents, Idle

LEMMA TypeStep == TypeOK /\ BusyInv /\ [Next]_vars => TypeOK'
<1> SUFFICES ASSUME TypeOK, BusyInv, [Next]_vars PROVE TypeOK'
    OBVIOUS
<1> USE MonthEndAssumption
<1>1. CASE UNCHANGED vars
    BY <1>1 DEF vars, TypeOK
<1>2. ASSUME NEW p \in Procs, ProcNext(p) PROVE TypeOK'
    <2>1. ASSUME NEW todo \in Lists, NEW as_of \in Dates, Begin(p, todo, as_of)
          PROVE TypeOK'
        <3> DEFINE b == [pc |-> "next", todo |-> todo, as_of |-> as_of, snap |-> NoSnap,
                         packs |-> {}, rows |-> {}, poisoned |-> FALSE, swallowed |-> {}]
        <3>1. b \in Batch
            BY DEF Batch
        <3>2. QED BY <2>1, <3>1 DEF Begin, Goto, TypeOK
    <2>2. ASSUME NEW s \in Snapshots, NEW prior \in Snapshots \cup {NoSnap},
                 Collect(p, s, prior)
          PROVE TypeOK'
        <3> DEFINE b == sess[p]
        <3>1. b \in Batch
            BY <2>2, OpenSession DEF Collect, Idle
        <3>2. Head(b.todo) \in Households
            BY <2>2, <3>1, BatchFields DEF Collect
        <3>3. [household |-> Head(b.todo), as_of |-> b.as_of,
               made |-> clock + 1, prior |-> prior] \in Pack
            BY <3>1, <3>2, BatchFields DEF Pack, TypeOK
        <3>4. [b EXCEPT !.pc = "write", !.snap = s] \in Batch
            BY <3>1 DEF Batch
        <3>5. Bundles(Head(b.todo)) \subseteq Snapshots
            BY DEF Bundles
        <3>6. QED BY <2>2, <3>3, <3>4, <3>5 DEF Collect, Goto, TypeOK
    <2>3. CASE Skip(p)
        <3>1. sess[p] \in Batch
            BY <2>3, OpenSession DEF Skip, Idle
        <3>2. Head(sess[p].todo) \in Households /\ Tail(sess[p].todo) \in Seq(Households)
            BY <2>3, <3>1, BatchFields DEF Skip
        <3>3. [sess[p] EXCEPT !.todo = Tail(@),
                 !.swallowed = IF sess[p].poisoned THEN @ \cup {Head(sess[p].todo)} ELSE @]
                 \in Batch
            BY <3>1, <3>2 DEF Batch
        <3>4. QED BY <2>3, <3>3 DEF Skip, Goto, TypeOK
    <2>4. ASSUME NEW f \in FileNames, Write(p, f) PROVE TypeOK'
        <3>1. sess[p] \in Batch
            BY <2>4, OpenSession DEF Write, Idle
        <3>2. [sess[p] EXCEPT !.pc = "flush"] \in Batch
            BY <3>1 DEF Batch
        <3>3. files' \in [Snapshots -> [FileNames -> Contents]]
            BY <2>4, WriteFiles
        <3>4. sess' \in [Procs -> Batch \cup {Idle}]
            <4>1. Goto(p, [sess[p] EXCEPT !.pc = "flush"]) \/ UNCHANGED sess
                BY <2>4 DEF Write
            <4>2. QED BY <3>2, <4>1 DEF Goto, TypeOK
        <3>5. UNCHANGED <<pack, clock, readable, audit, lock>>
            BY <2>4 DEF Write
        <3>6. QED BY <3>3, <3>4, <3>5 DEF TypeOK
    <2>5. CASE WriteFails(p)
        <3>1. sess[p] \in Batch /\ sess[p] # Idle
            BY <2>5, OpenSession DEF WriteFails, Idle
        <3>0. Tail(sess[p].todo) \in Seq(Households)
            BY <2>5, <3>1, BatchFields DEF WriteFails, BusyInv
        <3>2. [sess[p] EXCEPT !.pc = "next", !.todo = Tail(@)] \in Batch
            BY <3>1, <3>0, BatchFields DEF Batch
        <3>3. QED BY <2>5, <3>1, <3>2, LeaveEffect DEF WriteFails, Goto, TypeOK
    <2>6. CASE Flush(p)
        <3>1. sess[p] \in Batch
            BY <2>6, OpenSession DEF Flush, Idle
        <3>0. Tail(sess[p].todo) \in Seq(Households)
            BY <2>6, <3>1, BatchFields DEF Flush, BusyInv
        <3>4. sess[p].snap \in Snapshots
            BY <2>6 DEF Flush, BusyInv
        <3>2. [sess[p] EXCEPT !.pc = "next", !.todo = Tail(@),
                              !.packs = @ \cup {sess[p].snap},
                              !.rows = @ \cup {sess[p].snap}] \in Batch
            BY <3>1, <3>0, <3>4, BatchFields DEF Batch
        <3>3. QED BY <2>6, <3>2 DEF Flush, Goto, TypeOK
    <2>7. CASE FlushFails(p)
        <3>1. sess[p] \in Batch
            BY <2>7, OpenSession DEF FlushFails, Idle
        <3>0. Tail(sess[p].todo) \in Seq(Households)
            BY <2>7, <3>1, BatchFields DEF FlushFails, BusyInv
        <3>2. [sess[p] EXCEPT !.pc = "next", !.todo = Tail(@), !.rows = {},
                              !.poisoned = TRUE] \in Batch
            BY <3>1, <3>0, BatchFields DEF Batch
        <3>3. QED BY <2>7, <3>2, ReleaseType DEF FlushFails, Goto, TypeOK
    <2>8. CASE PrintOutcomes(p)
        <3>1. sess[p] \in Batch
            BY <2>8, OpenSession DEF PrintOutcomes, Idle
        <3>2. [sess[p] EXCEPT !.pc = "commit"] \in Batch
            BY <3>1 DEF Batch
        <3>3. QED BY <2>8, <3>2 DEF PrintOutcomes, Goto, TypeOK
    <2>9. CASE Commit(p)
        <3>1. sess[p] \in Batch
            BY <2>9, OpenSession DEF Commit, Idle
        <3>2. audit' \subseteq Snapshots
            BY <2>9, <3>1, BatchFields DEF Commit, TypeOK
        <3>3. QED BY <2>9, <3>2, ReleaseType DEF Commit, Goto, TypeOK
    <2>10. CASE CommitFails(p)
        <3>1. lock' \in Procs \cup {NoProc}
            BY <2>10, ReleaseType DEF CommitFails
        <3>2. QED BY <2>10, <3>1 DEF CommitFails, Goto, TypeOK
    <2>11. CASE Abort(p)
        <3>1. lock' \in Procs \cup {NoProc}
            BY <2>11, ReleaseType DEF Abort
        <3>2. files' \in [Snapshots -> [FileNames -> Contents]]
            BY <2>11, LeaveEffect DEF Abort
        <3>3. QED BY <2>11, <3>1, <3>2 DEF Abort, Goto, TypeOK
    <2>12. QED
        BY <1>2, <2>1, <2>2, <2>3, <2>4, <2>5, <2>6, <2>7, <2>8, <2>9, <2>10, <2>11
           DEF ProcNext
<1>3. QED
    BY <1>1, <1>2 DEF Next

LEMMA BusyStep == TypeOK /\ BusyInv /\ [Next]_vars => BusyInv'
<1> SUFFICES ASSUME TypeOK, BusyInv, [Next]_vars PROVE BusyInv'
    OBVIOUS
<1> USE DEF BusyInv
<1>1. CASE UNCHANGED vars
    BY <1>1 DEF vars
<1>2. ASSUME NEW p \in Procs, ProcNext(p) PROVE BusyInv'
    <2>0. sess \in [Procs -> Batch \cup {Idle}]
        BY DEF TypeOK
    <2>1. ASSUME NEW s \in Snapshots, NEW prior \in Snapshots \cup {NoSnap},
                 Collect(p, s, prior)
          PROVE BusyInv'
        <3>1. sess[p] \in Batch
            BY <2>1, OpenSession DEF Collect, Idle
        <3>2. /\ [sess[p] EXCEPT !.pc = "write", !.snap = s].todo = sess[p].todo
              /\ [sess[p] EXCEPT !.pc = "write", !.snap = s].snap = s
            BY <3>1 DEF Batch
        <3>3. QED BY <2>0, <2>1, <3>2 DEF Collect, Goto
    <2>2. ASSUME NEW f \in FileNames, Write(p, f) PROVE BusyInv'
        <3>1. sess[p] \in Batch
            BY <2>2, OpenSession DEF Write, Idle
        <3>2. /\ [sess[p] EXCEPT !.pc = "flush"].todo = sess[p].todo
              /\ [sess[p] EXCEPT !.pc = "flush"].snap = sess[p].snap
            BY <3>1 DEF Batch
        <3>3. QED BY <2>0, <2>2, <3>2 DEF Write, Goto
    <2>4. ASSUME NEW todo \in Lists, NEW as_of \in Dates, Begin(p, todo, as_of)
          PROVE BusyInv'
        BY <2>0, <2>4 DEF Begin, Goto
    <2>5. CASE Skip(p)
        <3>1. sess[p] \in Batch
            BY <2>5, OpenSession DEF Skip, Idle
        <3>2. QED BY <2>0, <2>5, <3>1, BatchFields DEF Skip, Goto, Batch
    <2>6. CASE WriteFails(p) \/ Flush(p) \/ FlushFails(p) \/ PrintOutcomes(p)
        <3>1. sess[p] \in Batch
            BY <2>6, OpenSession DEF WriteFails, Flush, FlushFails, PrintOutcomes, Idle
        <3>2. sess'[p].pc \in {"next", "commit"}
            <4>1. CASE WriteFails(p)
                BY <2>0, <3>1, <4>1 DEF WriteFails, Goto, Batch
            <4>2. CASE Flush(p)
                BY <2>0, <3>1, <4>2 DEF Flush, Goto, Batch
            <4>3. CASE FlushFails(p)
                BY <2>0, <3>1, <4>3 DEF FlushFails, Goto, Batch
            <4>4. CASE PrintOutcomes(p)
                BY <2>0, <3>1, <4>4 DEF PrintOutcomes, Goto, Batch
            <4>5. QED BY <2>6, <4>1, <4>2, <4>3, <4>4
        <3>3. \A q \in Procs \ {p} : sess'[q] = sess[q]
            BY <2>0, <2>6 DEF WriteFails, Flush, FlushFails, PrintOutcomes, Goto
        <3>4. QED BY <3>2, <3>3
    <2>7. CASE Commit(p) \/ CommitFails(p) \/ Abort(p)
        BY <2>0, <2>7 DEF Commit, CommitFails, Abort, Goto, Idle
    <2>8. QED
        BY <1>2, <2>1, <2>2, <2>4, <2>5, <2>6, <2>7 DEF ProcNext
<1>3. QED
    BY <1>1, <1>2 DEF Next

(* Every variable of MonthEnd keeps its type.                              *)
THEOREM TypeCorrect == Spec => []TypeOK
    BY TypeInit, TypeStep, BusyStep, PTL DEF Spec

-----------------------------------------------------------------------------
(* The invariant with the files and the sessions.                          *)

LEMMA OthersStay ==
    ASSUME TypeOK, NEW p \in Procs, NEW b, Goto(p, b), NEW q \in Procs
    PROVE  sess'[q] = IF q = p THEN b ELSE sess[q]
    BY DEF TypeOK, Goto

(* The files: what is whole stays whole, and a bundle comes last.          *)
LEMMA FilesStep ==
    ASSUME TypeOK, BusyInv, OwnInv, FilesInv, [Next]_vars
    PROVE  /\ FilesInv'
           /\ \A s \in Snapshots : Whole(s) => Whole(s)'
           /\ \A s \in Snapshots : pack[s] # Blank => pack'[s] = pack[s]
<1> USE DEF FilesInv, Whole
<1>1. CASE UNCHANGED vars
    BY <1>1 DEF vars
<1>2. ASSUME NEW p \in Procs, ProcNext(p)
      PROVE  /\ FilesInv'
             /\ \A s \in Snapshots : Whole(s) => Whole(s)'
             /\ \A s \in Snapshots : pack[s] # Blank => pack'[s] = pack[s]
    <2>1. ASSUME NEW s \in Snapshots, NEW prior \in Snapshots \cup {NoSnap},
                 Collect(p, s, prior)
          PROVE  /\ FilesInv'
                 /\ UNCHANGED files
                 /\ \A t \in Snapshots : pack[t] # Blank => pack'[t] = pack[t]
        BY <2>1 DEF Collect, TypeOK
    <2>2. ASSUME NEW f \in FileNames, Write(p, f)
          PROVE  /\ FilesInv'
                 /\ \A s \in Snapshots : Whole(s) => Whole(s)'
                 /\ UNCHANGED pack
        <3> DEFINE s == sess[p].snap
        <3>1. s \in Snapshots /\ "whole" \in Contents
            BY <2>2 DEF Write, BusyInv, Contents
        <3>2. \A t \in Snapshots, g \in FileNames :
                  files'[t][g] = IF t = s /\ g = f THEN "whole" ELSE files[t][g]
            BY <2>2, WriteFiles
        <3>3. pack[s] # Blank
            <4>1. sess[p] # Idle /\ sess[p].pc = "write"
                BY <2>2 DEF Write, Idle
            <4>2. QED BY <4>1 DEF OwnInv, Held
        <3>4. f = "bundle.json" =>
                  files[s]["internal.md"] = "whole" /\ files[s]["external.md"] = "whole"
            BY <2>2 DEF Write, IsNext, WriteOrder
        <3>5. UNCHANGED pack
            BY <2>2 DEF Write
        <3>6. QED BY <3>1, <3>2, <3>3, <3>4, <3>5 DEF FileNames
    <2>3. CASE WriteFails(p) \/ Abort(p)
        <3>1. \A t \in Snapshots, g \in FileNames :
                  files'[t][g] = "whole" <=> files[t][g] = "whole"
            BY <2>3, LeaveEffect DEF WriteFails, Abort
        <3>2. UNCHANGED pack
            BY <2>3 DEF WriteFails, Abort
        <3>3. QED BY <3>1, <3>2 DEF FileNames
    <2>4. CASE UNCHANGED <<files, pack>>
        BY <2>4
    <2>5. QED
        BY <1>2, <2>1, <2>2, <2>3, <2>4
           DEF ProcNext, Begin, Skip, Flush, FlushFails, PrintOutcomes, Commit, CommitFails
<1>3. QED
    BY <1>1, <1>2 DEF Next

(* What each kind of step leaves of the session that takes it.             *)
LEMMA CollectAfter ==
    ASSUME TypeOK, NEW p \in Procs, NEW s \in Snapshots,
           NEW prior \in Snapshots \cup {NoSnap}, Collect(p, s, prior)
    PROVE  /\ sess[p] # Idle /\ sess'[p] # Idle
           /\ sess'[p].pc = "write" /\ sess'[p].snap = s
           /\ sess'[p].packs = sess[p].packs /\ sess'[p].rows = sess[p].rows
           /\ sess'[p].poisoned = sess[p].poisoned
<1>1. sess[p] # Idle /\ sess[p] \in Batch
    BY OpenSession DEF Collect, Idle
<1>2. sess'[p] = [sess[p] EXCEPT !.pc = "write", !.snap = s]
    BY OthersStay DEF Collect
<1>3. QED BY <1>1, <1>2 DEF Batch, Idle

LEMMA WriteAfter ==
    ASSUME TypeOK, NEW p \in Procs, NEW f \in FileNames, Write(p, f)
    PROVE  /\ sess[p] # Idle /\ sess'[p] # Idle
           /\ sess'[p].pc = IF f = "bundle.json" THEN "flush" ELSE "write"
           /\ sess'[p].snap = sess[p].snap
           /\ sess'[p].packs = sess[p].packs /\ sess'[p].rows = sess[p].rows
           /\ sess'[p].poisoned = sess[p].poisoned
<1>1. sess[p] # Idle /\ sess[p] \in Batch /\ sess[p].pc = "write"
    BY OpenSession DEF Write, Idle
<1>2. CASE f = "bundle.json"
    <2>1. sess'[p] = [sess[p] EXCEPT !.pc = "flush"]
        BY <1>2, OthersStay DEF Write, WriteOrder
    <2>2. QED BY <1>1, <1>2, <2>1 DEF Batch, Idle
<1>3. CASE f # "bundle.json"
    BY <1>1, <1>3 DEF Write, WriteOrder
<1>4. QED BY <1>2, <1>3

LEMMA FlushAfter ==
    ASSUME TypeOK, NEW p \in Procs, Flush(p)
    PROVE  /\ sess[p] # Idle /\ sess'[p] # Idle
           /\ sess'[p].pc = "next"
           /\ sess'[p].packs = sess[p].packs \cup {sess[p].snap}
           /\ sess'[p].rows = sess[p].rows \cup {sess[p].snap}
           /\ sess'[p].poisoned = sess[p].poisoned
<1>1. sess[p] # Idle /\ sess[p] \in Batch
    BY OpenSession DEF Flush, Idle
<1>2. sess'[p] = [sess[p] EXCEPT !.pc = "next", !.todo = Tail(@),
                      !.packs = @ \cup {sess[p].snap}, !.rows = @ \cup {sess[p].snap}]
    BY OthersStay DEF Flush
<1>3. QED BY <1>1, <1>2 DEF Batch, Idle

LEMMA FlushFailsAfter ==
    ASSUME TypeOK, NEW p \in Procs, FlushFails(p)
    PROVE  /\ sess[p] # Idle /\ sess'[p] # Idle
           /\ sess'[p].pc = "next"
           /\ sess'[p].packs = sess[p].packs /\ sess'[p].rows = {}
           /\ sess'[p].poisoned = TRUE
<1>1. sess[p] # Idle /\ sess[p] \in Batch
    BY OpenSession DEF FlushFails, Idle
<1>2. sess'[p] = [sess[p] EXCEPT !.pc = "next", !.todo = Tail(@), !.rows = {},
                                 !.poisoned = TRUE]
    BY OthersStay DEF FlushFails
<1>3. QED BY <1>1, <1>2 DEF Batch, Idle

LEMMA PassAfter ==
    ASSUME TypeOK, NEW p \in Procs, Skip(p) \/ WriteFails(p) \/ PrintOutcomes(p)
    PROVE  /\ sess[p] # Idle /\ sess'[p] # Idle
           /\ sess'[p].pc \in {"next", "commit"}
           /\ sess'[p].packs = sess[p].packs /\ sess'[p].rows = sess[p].rows
           /\ sess'[p].poisoned = sess[p].poisoned
<1>1. sess[p] # Idle /\ sess[p] \in Batch
    BY OpenSession DEF Skip, WriteFails, PrintOutcomes, Idle
<1>2. CASE Skip(p)
    <2> DEFINE swallowed == IF sess[p].poisoned
                            THEN sess[p].swallowed \cup {Head(sess[p].todo)}
                            ELSE sess[p].swallowed
    <2>1. sess[p].pc = "next" /\
          sess'[p] = [sess[p] EXCEPT !.todo = Tail(@), !.swallowed = swallowed]
        BY <1>2, OthersStay DEF Skip
    <2> HIDE DEF swallowed
    <2>2. QED BY <1>1, <2>1 DEF Batch, Idle
<1>3. CASE WriteFails(p)
    <2>1. sess'[p] = [sess[p] EXCEPT !.pc = "next", !.todo = Tail(@)]
        BY <1>3, OthersStay DEF WriteFails
    <2>2. QED BY <1>1, <2>1 DEF Batch, Idle
<1>4. CASE PrintOutcomes(p)
    <2>1. sess'[p] = [sess[p] EXCEPT !.pc = "commit"]
        BY <1>4, OthersStay DEF PrintOutcomes
    <2>2. QED BY <1>1, <2>1 DEF Batch, Idle
<1>5. QED BY <1>2, <1>3, <1>4

(* Nobody shares a pack, and no session holds one that is on record.       *)
LEMMA OwnStep ==
    ASSUME TypeOK, BusyInv, OwnInv, RowsInv, [Next]_vars
    PROVE  OwnInv'
<1> USE DEF OwnInv, Held
<1>1. CASE UNCHANGED vars
    BY <1>1 DEF vars
<1>2. ASSUME NEW p \in Procs, ProcNext(p) PROVE OwnInv'
    <2>0. \A q \in Procs \ {p} : sess'[q] = sess[q]
        BY <1>2
           DEF ProcNext, Begin, Collect, Skip, Write, WriteFails, Flush, FlushFails,
               PrintOutcomes, Commit, CommitFails, Abort, Goto, TypeOK
    <2>1. ASSUME NEW todo \in Lists, NEW as_of \in Dates, Begin(p, todo, as_of)
          PROVE OwnInv'
        <3>1. Held(p)' = {}
            BY <2>1, OthersStay DEF Begin
        <3>2. UNCHANGED <<pack, audit>>
            BY <2>1 DEF Begin
        <3>3. QED BY <2>0, <3>1, <3>2
    <2>2. ASSUME NEW s \in Snapshots, NEW prior \in Snapshots \cup {NoSnap},
                 Collect(p, s, prior)
          PROVE OwnInv'
        <3>1. Held(p)' = Held(p) \cup {s}
            BY <2>2, CollectAfter DEF Collect
        <3>2. pack[s] = Blank /\ pack'[s] # Blank
            BY <2>2 DEF Collect, TypeOK, Blank
        <3>3. \A t \in Snapshots : t # s => pack'[t] = pack[t]
            BY <2>2 DEF Collect, TypeOK
        <3>4. \A q \in Procs : Held(q) \subseteq Snapshots
            BY OpenSession, BatchFields DEF BusyInv
        <3>5. audit' = audit /\ audit \subseteq Snapshots
            BY <2>2 DEF Collect, TypeOK
        <3> HIDE DEF Held
        <3>6. \A q \in Procs \ {p} : Held(q)' = Held(q)
            BY <2>0 DEF Held
        <3>7. QED BY <3>1, <3>2, <3>3, <3>4, <3>5, <3>6
    <2>3. ASSUME Held(p)' \subseteq Held(p), UNCHANGED <<pack, audit>>
          PROVE OwnInv'
        <3>1. \A q \in Procs \ {p} : Held(q)' = Held(q)
            BY <2>0
        <3> HIDE DEF Held
        <3>2. QED BY <2>3, <3>1
    <2>4. CASE Skip(p) \/ WriteFails(p) \/ PrintOutcomes(p)
        <3>1. Held(p)' \subseteq Held(p)
            BY <2>4, PassAfter
        <3>2. QED
            BY <2>3, <2>4, <3>1 DEF Skip, WriteFails, PrintOutcomes
    <2>5. ASSUME NEW f \in FileNames, Write(p, f) PROVE OwnInv'
        <3>1. Held(p)' \subseteq Held(p)
            BY <2>5, WriteAfter DEF Write
        <3>2. UNCHANGED <<pack, audit>>
            BY <2>5 DEF Write
        <3>3. QED BY <2>3, <3>1, <3>2
    <2>6. CASE Flush(p)
        <3>1. Held(p)' \subseteq Held(p)
            BY <2>6, FlushAfter DEF Flush
        <3>2. QED BY <2>3, <2>6, <3>1 DEF Flush
    <2>7. CASE FlushFails(p)
        <3>1. Held(p)' \subseteq Held(p)
            BY <2>7, FlushFailsAfter
        <3>2. QED BY <2>3, <2>7, <3>1 DEF FlushFails
    <2>8. CASE Commit(p)
        <3>1. sess'[p] = Idle /\ Held(p)' = {}
            BY <2>8, OthersStay DEF Commit
        <3>2. sess[p] # Idle /\ sess[p].rows = sess[p].packs
            BY <2>8 DEF Commit, RowsInv, Idle
        <3>3. audit' = audit \cup sess[p].packs /\ UNCHANGED pack
            BY <2>8, <3>2 DEF Commit
        <3>4. sess[p].packs \subseteq Held(p)
            BY <3>2
        <3> HIDE DEF Held
        <3>5. \A q \in Procs \ {p} : Held(q)' = Held(q)
            BY <2>0 DEF Held
        <3>6. QED BY <3>1, <3>3, <3>4, <3>5
    <2>9. CASE CommitFails(p) \/ Abort(p)
        <3>1. Held(p)' = {}
            BY <2>9, OthersStay DEF CommitFails, Abort
        <3>2. QED BY <2>3, <2>9, <3>1 DEF CommitFails, Abort
    <2>10. QED
        BY <1>2, <2>1, <2>2, <2>4, <2>5, <2>6, <2>7, <2>8, <2>9 DEF ProcNext
<1>3. QED
    BY <1>1, <1>2 DEF Next

(* What is about to be recorded is whole, and so is what is recorded.      *)
LEMMA RowsStep ==
    ASSUME TypeOK, BusyInv, OwnInv, FilesInv, RowsInv, AuditedIsWhole, [Next]_vars
    PROVE  RowsInv' /\ AuditedIsWhole'
<1>0. \A s \in Snapshots : Whole(s) => Whole(s)'
    BY FilesStep
<1>1. CASE UNCHANGED vars
    BY <1>1 DEF vars, RowsInv, AuditedIsWhole, Whole
<1>2. ASSUME NEW p \in Procs, ProcNext(p) PROVE RowsInv' /\ AuditedIsWhole'
    <2> DEFINE Good(b) == b # Idle =>
                   /\ \A s \in b.rows : Whole(s)
                   /\ b.pc \in {"write", "flush"} => b.snap \in Snapshots
                   /\ b.pc = "flush" => Whole(b.snap)
                   /\ ~b.poisoned => b.rows = b.packs
    <2>1. Good(sess[p]) /\ \A q \in Procs : Good(sess[q])
        BY DEF RowsInv
    <2>2. \A q \in Procs \ {p} : Good(sess[q])'
        <3> SUFFICES ASSUME NEW q \in Procs \ {p} PROVE Good(sess[q])'
            OBVIOUS
        <3>1. sess'[q] = sess[q]
            BY <1>2
               DEF ProcNext, Begin, Collect, Skip, Write, WriteFails, Flush, FlushFails,
                   PrintOutcomes, Commit, CommitFails, Abort, Goto, TypeOK
        <3>2. sess[q] # Idle => sess[q].rows \subseteq Snapshots
            BY OpenSession, BatchFields
        <3>3. QED BY <1>0, <2>1, <3>1, <3>2
    <2>3. SUFFICES Good(sess[p])' /\ AuditedIsWhole'
        BY <2>2 DEF RowsInv
    <2>4. sess[p] # Idle => sess[p].rows \subseteq Snapshots
        BY OpenSession, BatchFields
    <2>5. UNCHANGED audit => AuditedIsWhole'
        BY <1>0 DEF AuditedIsWhole, TypeOK
    <2>6. ASSUME NEW todo \in Lists, NEW as_of \in Dates, Begin(p, todo, as_of)
          PROVE  Good(sess[p])' /\ UNCHANGED audit
        BY <2>6, OthersStay DEF Begin
    <2>7. ASSUME NEW s \in Snapshots, NEW prior \in Snapshots \cup {NoSnap},
                 Collect(p, s, prior)
          PROVE  Good(sess[p])' /\ UNCHANGED audit
        <3>1. UNCHANGED audit
            BY <2>7 DEF Collect
        <3>2. QED BY <1>0, <2>1, <2>4, <2>7, <3>1, CollectAfter
    <2>8. CASE Skip(p) \/ WriteFails(p) \/ PrintOutcomes(p)
        <3>1. UNCHANGED audit
            BY <2>8 DEF Skip, WriteFails, PrintOutcomes
        <3>2. QED BY <1>0, <2>1, <2>4, <2>5, <2>8, <3>1, PassAfter
    <2>9. ASSUME NEW f \in FileNames, Write(p, f)
          PROVE  Good(sess[p])' /\ UNCHANGED audit
        <3>1. UNCHANGED audit /\ sess[p].pc = "write" /\ sess[p].snap \in Snapshots
            BY <2>9 DEF Write, BusyInv
        <3>2. f = "bundle.json" => Whole(sess[p].snap)'
            <4>1. \A g \in FileNames : f = "bundle.json" =>
                      files'[sess[p].snap][g] = "whole"
                <5>1. IsNext(f, sess[p].snap)
                    BY <2>9 DEF Write
                <5>2. f = "bundle.json" => \A g \in FileNames \ {f} :
                                              files[sess[p].snap][g] = "whole"
                    BY <5>1 DEF IsNext, WriteOrder, FileNames
                <5>3. \A g \in FileNames : files'[sess[p].snap][g] =
                          IF g = f THEN "whole" ELSE files[sess[p].snap][g]
                    BY <1>0, <2>1, <2>9, <3>1, WriteFiles
                <5>4. QED BY <5>2, <5>3
            <4>2. QED BY <2>9, <3>1, <4>1, WriteAfter DEF Whole
        <3>3. QED BY <1>0, <2>1, <2>4, <2>9, <3>1, <3>2, WriteAfter
    <2>10. CASE Flush(p)
        <3>1. UNCHANGED audit /\ sess[p].pc = "flush" /\ sess[p].snap \in Snapshots
            BY <2>10 DEF Flush, BusyInv
        <3>2. QED BY <1>0, <2>1, <2>4, <2>5, <2>10, <3>1, FlushAfter
    <2>11. CASE FlushFails(p)
        <3>1. UNCHANGED audit
            BY <2>11 DEF FlushFails
        <3>2. QED BY <2>5, <2>11, <3>1, FlushFailsAfter
    <2>12. CASE Commit(p)
        <3>1. sess'[p] = Idle /\ sess[p] # Idle /\ audit' = audit \cup sess[p].rows
            BY <2>12, OthersStay DEF Commit, Idle
        <3>2. AuditedIsWhole'
            BY <1>0, <2>1, <2>4, <3>1 DEF AuditedIsWhole, TypeOK
        <3>3. QED BY <3>1, <3>2
    <2>13. CASE CommitFails(p) \/ Abort(p)
        <3>1. sess'[p] = Idle /\ UNCHANGED audit
            BY <2>13, OthersStay DEF CommitFails, Abort
        <3>2. QED BY <2>5, <3>1
    <2>14. QED
        BY <1>2, <2>5, <2>6, <2>7, <2>8, <2>9, <2>10, <2>11, <2>12, <2>13 DEF ProcNext
<1>3. QED
    BY <1>1, <1>2 DEF Next

-----------------------------------------------------------------------------
(* The comparison with earlier packs.                                      *)

(* The prior of a collection, against every bundle it could read.          *)
LEMMA PriorIsNext ==
    ASSUME TypeOK, NEW h, NEW d \in Dates, NEW prior \in Snapshots \cup {NoSnap},
           IsPrior(prior, h, d), FilesInv
    PROVE  /\ prior # NoSnap => /\ prior \in Snapshots
                                /\ pack[prior] # Blank
                                /\ pack[prior].household = h
                                /\ pack[prior].as_of < d
           /\ \A t \in Bundles(h) : pack[t].as_of < d =>
                  /\ prior # NoSnap
                  /\ pack[t].as_of <= pack[prior].as_of
                  /\ (pack[t].as_of = pack[prior].as_of => pack[t].made <= pack[prior].made)
<1>1. \A t \in Bundles(h) : t \in Snapshots /\ pack[t] # Blank /\ pack[t] \in Pack
    BY DEF Bundles, FilesInv, TypeOK
<1>2. \A t \in Bundles(h) : pack[t].as_of \in Nat /\ pack[t].made \in Nat
    BY <1>1, MonthEndAssumption DEF Pack
<1>3. CASE Earlier(h, d) = {}
    BY <1>3 DEF IsPrior, Earlier
<1>4. CASE Earlier(h, d) # {}
    <2>1. /\ prior \in Bundles(h) /\ pack[prior].as_of < d
          /\ \A s \in Earlier(h, d) \ {prior} : Newer(prior, s)
        BY <1>4 DEF IsPrior, Earlier
    <2>2. prior # NoSnap
        BY <1>1, <2>1, MonthEndAssumption
    <2>3. ASSUME NEW t \in Bundles(h), pack[t].as_of < d
          PROVE  /\ pack[t].as_of <= pack[prior].as_of
                 /\ (pack[t].as_of = pack[prior].as_of => pack[t].made <= pack[prior].made)
        <3>1. t \in Earlier(h, d)
            BY <2>3 DEF Earlier
        <3>2. CASE t = prior
            BY <1>2, <3>2
        <3>3. CASE t # prior
            BY <1>2, <2>1, <3>1, <3>3 DEF Newer
        <3>4. QED BY <3>2, <3>3
    <2>4. QED BY <1>1, <2>1, <2>2, <2>3 DEF Bundles
<1>5. QED BY <1>3, <1>4

LEMMA PriorStep ==
    ASSUME TypeOK, BusyInv, OwnInv, FilesInv, ReadableInv, NoLookahead,
           NothingPassedOver, [Next]_vars
    PROVE  ReadableInv' /\ NoLookahead' /\ NothingPassedOver'
<1> USE DEF ReadableInv, NoLookahead, NothingPassedOver
<1>1. CASE UNCHANGED <<pack, readable>>
    BY <1>1
<1>2. ASSUME NEW p \in Procs, NEW s \in Snapshots, NEW prior \in Snapshots \cup {NoSnap},
             Collect(p, s, prior)
      PROVE  ReadableInv' /\ NoLookahead' /\ NothingPassedOver'
    <2> DEFINE h == Head(sess[p].todo)
               d == sess[p].as_of
    <2>1. d \in Dates /\ IsPrior(prior, h, d)
        BY <1>2, OpenSession, BatchFields DEF Collect, Idle
    <2>2. /\ pack[s] = Blank
          /\ pack'[s] = [household |-> h, as_of |-> d, made |-> clock + 1, prior |-> prior]
          /\ \A t \in Snapshots \ {s} : pack'[t] = pack[t]
          /\ readable'[s] = Bundles(h)
          /\ \A t \in Snapshots \ {s} : readable'[t] = readable[t]
        BY <1>2 DEF Collect, TypeOK
    <2>3. pack'[s] # Blank
        BY <2>2 DEF TypeOK, Blank
    <2>4. /\ prior # NoSnap => /\ prior \in Snapshots \ {s}
                               /\ pack[prior] # Blank
                               /\ pack[prior].household = h
                               /\ pack[prior].as_of < d
          /\ \A t \in Bundles(h) : pack[t].as_of < d =>
                  /\ prior # NoSnap
                  /\ pack[t].as_of <= pack[prior].as_of
                  /\ (pack[t].as_of = pack[prior].as_of => pack[t].made <= pack[prior].made)
        BY <2>1, <2>2, PriorIsNext
    <2>5. \A t \in Bundles(h) : t \in Snapshots /\ t # s /\ pack[t] # Blank
        BY <2>2 DEF Bundles, FilesInv
    <2>6. ReadableInv'
        <3>1. \A t \in Snapshots \ {s} : \A u \in readable[t] : u \in Snapshots /\ u # s
            BY <2>2 DEF TypeOK
        <3>2. QED BY <2>2, <2>3, <2>5, <3>1
    <2>7. NoLookahead'
        <3>1. \A t \in Snapshots : pack[t] # Blank /\ pack[t].prior # NoSnap =>
                  pack[t].prior \in Snapshots \ {s}
            BY <2>2 DEF TypeOK, Pack
        <3>2. QED BY <2>2, <2>3, <2>4, <3>1
    <2>8. NothingPassedOver'
        <3>1. ASSUME NEW t \in Snapshots \ {s}, NEW u \in readable[t],
                     pack[u].as_of < pack[t].as_of
              PROVE  u \in Snapshots \ {s} /\ pack[t].prior \in Snapshots \ {s}
            <4>1. u \in Snapshots /\ pack[u] # Blank /\ pack[t] # Blank
                BY DEF TypeOK
            <4>2. pack[t].prior # NoSnap
                BY <3>1
            <4>3. QED BY <2>2, <4>1, <4>2 DEF TypeOK, Pack
        <3>2. \A t \in Snapshots \ {s} : \A u \in readable[t] : u \in Snapshots \ {s}
            BY <2>2 DEF TypeOK
        <3>3. QED BY <2>2, <2>4, <2>5, <3>1, <3>2
    <2>9. QED BY <2>6, <2>7, <2>8
<1>3. QED
    BY <1>1, <1>2
       DEF Next, ProcNext, Begin, Skip, Write, WriteFails, Flush, FlushFails,
           PrintOutcomes, Commit, CommitFails, Abort, vars

-----------------------------------------------------------------------------
LEMMA InvInit == Init => IInv
<1> SUFFICES ASSUME Init PROVE IInv
    OBVIOUS
<1>1. TypeOK /\ BusyInv
    BY TypeInit
<1>2. FilesInv
    BY DEF Init, FilesInv, FileNames
<1>3. OwnInv /\ RowsInv /\ AuditedIsWhole
    BY DEF Init, OwnInv, RowsInv, AuditedIsWhole, Held
<1>4. ReadableInv /\ NoLookahead /\ NothingPassedOver
    BY DEF Init, ReadableInv, NoLookahead, NothingPassedOver
<1>5. QED BY <1>1, <1>2, <1>3, <1>4 DEF IInv

LEMMA Invariant == Spec => []IInv
<1>1. IInv /\ [Next]_vars => IInv'
    <2> SUFFICES ASSUME IInv, [Next]_vars PROVE IInv'
        OBVIOUS
    <2> USE DEF IInv
    <2>1. TypeOK' /\ BusyInv'
        BY TypeStep, BusyStep
    <2>2. FilesInv'
        BY FilesStep
    <2>3. OwnInv'
        BY OwnStep
    <2>4. RowsInv' /\ AuditedIsWhole'
        BY RowsStep
    <2>5. ReadableInv' /\ NoLookahead' /\ NothingPassedOver'
        BY PriorStep
    <2>6. QED BY <2>1, <2>2, <2>3, <2>4, <2>5
<1>2. QED BY InvInit, <1>1, PTL DEF Spec

(* An audit row never speaks of a pack that is not whole on disk: the row  *)
(* is flushed after write_report_bundle returned.                          *)
THEOREM AuditedAreWhole == Spec => []AuditedIsWhole
<1>1. IInv => AuditedIsWhole
    BY DEF IInv
<1>2. QED BY <1>1, Invariant, PTL

(* A pack whose bundle.json is whole has both Markdown files, whoever      *)
(* failed at which of its files.                                           *)
THEOREM ReadableAreWhole == Spec => []ReadableIsWhole
<1>1. IInv => ReadableIsWhole
    BY DEF IInv, FilesInv, ReadableIsWhole
<1>2. QED BY <1>1, Invariant, PTL

(* A report is never compared with one of its own date or later, nor with  *)
(* another household's.                                                    *)
THEOREM PriorsAreEarlier == Spec => []NoLookahead
<1>1. IInv => NoLookahead
    BY DEF IInv
<1>2. QED BY <1>1, Invariant, PTL

(* Whatever failed, no record and no reader meets a pack that is not whole.*)
THEOREM WholePacks == Spec => []PacksAreWhole
BY AuditedAreWhole, ReadableAreWhole, PTL DEF PacksAreWhole

(* Of the bundles it could read, a report is compared with the nearest.    *)
THEOREM NothingIsPassedOver == Spec => []NothingPassedOver
<1>1. IInv => NothingPassedOver
    BY DEF IInv
<1>2. QED BY <1>1, Invariant, PTL

(* A report is compared with the nearest earlier one of its household.     *)
THEOREM NearestPrior == Spec => []PriorIsNearest
BY PriorsAreEarlier, NothingIsPassedOver, PTL DEF PriorIsNearest

(* What a batch printed as completed is on record as a whole or not at     *)
(* all: with the one commit, or never after a failure.                     *)
THEOREM BatchesAreWhole == Spec => AllOrNothing
<1> DEFINE Step == \A p \in Procs : sess[p].pc = "commit" /\ sess'[p] = Idle =>
                       (\/ sess[p].packs \subseteq audit'
                        \/ sess[p].packs \cap audit' = {})
<1>1. ASSUME IInv, [Next]_vars PROVE [Step]_vars
    <2> SUFFICES ASSUME NEW p \in Procs, sess[p].pc = "commit", sess'[p] = Idle, Next
                 PROVE  \/ sess[p].packs \subseteq audit'
                        \/ sess[p].packs \cap audit' = {}
        BY <1>1
    <2> USE <1>1 DEF IInv
    <2>1. sess[p] # Idle /\ sess[p] \in Batch
        BY OpenSession DEF Idle
    <2>2. PICK q \in Procs : ProcNext(q)
        BY DEF Next
    <2>3. sess'[p] # sess[p]
        BY <2>1
    <2>4. sess[p].packs \cap audit = {}
        BY <2>1 DEF OwnInv, Held
    <2>5. CASE UNCHANGED audit
        BY <2>4, <2>5
    <2>6. CASE Commit(q)
        <3>1. q = p
            BY <2>2, <2>3, <2>6, OthersStay DEF Commit
        <3>2. sess[p].rows = sess[p].packs
            BY <2>1, <2>6, <3>1 DEF RowsInv, Commit
        <3>3. QED BY <2>6, <3>1, <3>2 DEF Commit
    <2>7. QED
        BY <2>2, <2>5, <2>6
           DEF ProcNext, Begin, Collect, Skip, Write, WriteFails, Flush, FlushFails,
               PrintOutcomes, CommitFails, Abort
<1>2. QED BY <1>1, Invariant, PTL DEF Spec, AllOrNothing
=============================================================================
