---------------------------- MODULE ReportDelivery ----------------------------
(***************************************************************************)
(* The client-of-record PDF of a household report: building a snapshot's   *)
(* artifacts, the advisor's sign-off on it, the two gates in front of the  *)
(* external PDF (open reconciliation breaks, then approval), the rendering *)
(* by Pandoc and the command that renders a PDF again.                     *)
(*                                                                         *)
(* Files are written at once and for all to see; rows are seen when their  *)
(* session commits.  The first flush of a session takes SQLite's write     *)
(* lock and keeps it to the commit.  `report approve` flushes its request  *)
(* before the gates and renders under the lock; a build only reads until   *)
(* its audit row.  Waiting for the lock longer than the busy timeout, an   *)
(* exception or a crash ends a session without its rows, not without its   *)
(* files.                                                                  *)
(*                                                                         *)
(* Left out: what the report says, periods and paths, the reviewer.        *)
(***************************************************************************)
EXTENDS Naturals, FiniteSets, FiniteSetsExt

CONSTANTS
    Procs,      \* processes, one session each
    NoProc,     \* nobody: the write lock is free
    Snapshots,  \* the snapshot ids builds may draw
    Digests,    \* SHA-256 digests of well-formed PDFs
    MaxStamp,   \* bound on created_at: the number of requests
    Rerender,   \* TRUE: `report pdf` is used
    Faults      \* TRUE: sessions may fail, and Pandoc

ASSUME DeliveryAssumption ==
    /\ NoProc \notin Procs
    /\ MaxStamp \in Nat \ {0}
    /\ "none" \notin Digests /\ "invalid" \notin Digests
    /\ Rerender \in BOOLEAN /\ Faults \in BOOLEAN

Stamps == 1..MaxStamp
Decisions == {"pending", "approved", "rejected"}
Pinned == Digests \cup {"none"}     \* external_pdf_sha256 of an audit row

VARIABLES
    disk,       \* artifacts of a snapshot: Markdown first, bundle.json last
    pdf,        \* digest of external.pdf, "invalid" if Pandoc left a bad file
    strays,     \* snapshots whose PDF was written outside a sign-off that
                \* went through: by `report pdf`, or before a failure (history)
    clock,      \* created_at of the newest approval request
    status,     \* committed requests on a snapshot, by created_at
    decided,    \* committed approval_<decision> rows: snapshot, request, decision
    buildAudit, \* committed report_build rows: snapshot and digest
    signAudit,  \* committed report_approved rows: snapshot, request and digest
    breaks,     \* some committed reconciliation break is open
    lock,       \* the process that holds the write lock
    sess        \* the open session of each process

dbVars == <<status, decided, buildAudit, signAudit, breaks>>
fileVars == <<disk, pdf, strays>>
vars == <<fileVars, clock, dbVars, lock, sess>>

-----------------------------------------------------------------------------
Idle == [pc |-> "idle"]

(* at is the created_at of the session's own request, 0 for a build.       *)
Session ==
         [pc : {"idle"}]
    \cup [pc : {"draft"}, snap : Snapshots]
    \cup [pc : {"stamped", "decide"}, snap : Snapshots, at : Stamps, dec : Decisions]
    \cup [pc : {"gate", "render"}, snap : Snapshots, at : Stamps \cup {0}]
    \cup [pc : {"commit"}, snap : Snapshots, at : Stamps \cup {0}, digest : Pinned]

TypeOK ==
    /\ disk \in [Snapshots -> {"none", "drafted", "bundled"}]
    /\ pdf \in [Snapshots -> Pinned \cup {"invalid"}]
    /\ strays \subseteq Snapshots
    /\ clock \in Stamps \cup {0}
    /\ status \in [Snapshots -> [Stamps -> Decisions \cup {"absent"}]]
    /\ decided \subseteq Snapshots \X Stamps \X Decisions
    /\ buildAudit \subseteq [snap : Snapshots, digest : Pinned]
    /\ signAudit \subseteq [snap : Snapshots, at : Stamps, digest : Pinned]
    /\ breaks \in BOOLEAN
    /\ lock \in Procs \cup {NoProc}
    /\ sess \in [Procs -> Session]

Init ==
    /\ disk = [s \in Snapshots |-> "none"]
    /\ pdf = [s \in Snapshots |-> "none"]
    /\ strays = {}
    /\ clock = 0
    /\ status = [s \in Snapshots |-> [n \in Stamps |-> "absent"]]
    /\ decided = {}
    /\ buildAudit = {}
    /\ signAudit = {}
    /\ breaks = FALSE
    /\ lock = NoProc
    /\ sess = [p \in Procs |-> Idle]

Goto(p, session) == sess' = [sess EXCEPT ![p] = session]
Release(p) == lock' = IF lock = p THEN NoProc ELSE lock

-----------------------------------------------------------------------------
(* build_and_write_household_reports: a fresh snapshot id, the Markdown    *)
(* files, the bundle, then the gates.                                      *)
Draft(p, s) ==
    /\ sess[p] = Idle
    /\ disk[s] = "none"
    /\ disk' = [disk EXCEPT ![s] = "drafted"]
    /\ Goto(p, [pc |-> "draft", snap |-> s])
    /\ UNCHANGED <<pdf, strays, clock, dbVars, lock>>

Bundle(p) ==
    /\ sess[p].pc = "draft"
    /\ disk' = [disk EXCEPT ![sess[p].snap] = "bundled"]
    /\ Goto(p, [pc |-> "gate", snap |-> sess[p].snap, at |-> 0])
    /\ UNCHANGED <<pdf, strays, clock, dbVars, lock>>

(* A new request is stamped in memory: by `report approve`, which first    *)
(* loads the bundle, or by approval.create, which takes any snapshot id.   *)
Stamp(p, s, dec) ==
    /\ sess[p] = Idle
    /\ clock < MaxStamp
    /\ dec = "approved" => disk[s] = "bundled"
    /\ clock' = clock + 1
    /\ Goto(p, [pc |-> "stamped", snap |-> s, at |-> clock + 1, dec |-> dec])
    /\ UNCHANGED <<fileVars, dbVars, lock>>

(* approval.create commits its pending request.                            *)
CommitRequest(p) ==
    LET s == sess[p]
    IN  /\ s.pc = "stamped" /\ s.dec = "pending"
        /\ lock = NoProc
        /\ status' = [status EXCEPT ![s.snap][s.at] = "pending"]
        /\ Goto(p, Idle)
        /\ UNCHANGED <<fileVars, clock, decided, buildAudit, signAudit, breaks, lock>>

(* `report approve` flushes its request and holds the lock from here on;   *)
(* the request is then decided in the same session.                        *)
FlushApproval(p) ==
    /\ sess[p].pc = "stamped" /\ sess[p].dec = "approved"
    /\ lock = NoProc
    /\ lock' = p
    /\ Goto(p, [pc |-> "gate", snap |-> sess[p].snap, at |-> sess[p].at])
    /\ UNCHANGED <<fileVars, clock, dbVars>>

(* approval.decide on a request somebody opened: read, then written.       *)
LoadDecision(p, s, n, dec) ==
    /\ sess[p] = Idle
    /\ status[s][n] = "pending"
    /\ Goto(p, [pc |-> "decide", snap |-> s, at |-> n, dec |-> dec])
    /\ UNCHANGED <<fileVars, clock, dbVars, lock>>

CommitDecision(p) ==
    LET s == sess[p]
    IN  /\ s.pc = "decide"
        /\ lock = NoProc
        /\ IF s.dec = "pending" THEN UNCHANGED status
           ELSE status' = [status EXCEPT ![s.snap][s.at] = s.dec]
        /\ decided' = decided \cup {<<s.snap, s.at, s.dec>>}
        /\ Goto(p, Idle)
        /\ UNCHANGED <<fileVars, clock, buildAudit, signAudit, breaks, lock>>

-----------------------------------------------------------------------------
(* report_approval_status: the decision on the newest request.             *)
Latest(requests) ==
    LET made == {n \in Stamps : requests[n] # "absent"}
    IN  IF made = {} THEN "absent" ELSE requests[Max(made)]

(* A session sees the committed requests and its own.                      *)
Seen(s) == IF s.at = 0 THEN status[s.snap]
                       ELSE [status[s.snap] EXCEPT ![s.at] = "approved"]

(* Mutants: one of the two gates is missing.                               *)
MayRender_NoRecon(s) == Latest(Seen(s)) = "approved"
MayRender_NoApproval(s) == ~breaks

MayRender(s) == ~breaks /\ Latest(Seen(s)) = "approved"

(* The two gates of _attach_external_pdf.                                  *)
Gate(p) ==
    LET s == sess[p]
    IN  /\ s.pc = "gate"
        /\ IF MayRender(s)
           THEN Goto(p, [s EXCEPT !.pc = "render"])
           ELSE Goto(p, [pc |-> "commit", snap |-> s.snap, at |-> s.at, digest |-> "none"])
        /\ UNCHANGED <<fileVars, clock, dbVars, lock>>

(* Mutant: the digest of the render is not put on the audit row.           *)
Render_Unpinned(p) ==
    LET s == sess[p]
    IN  /\ s.pc = "render"
        /\ \E d \in Digests : pdf' = [pdf EXCEPT ![s.snap] = d]
        /\ Goto(p, [pc |-> "commit", snap |-> s.snap, at |-> s.at, digest |-> "none"])
        /\ UNCHANGED <<disk, strays, clock, dbVars, lock>>

Render(p) ==
    LET s == sess[p]
    IN  /\ s.pc = "render"
        /\ \E d \in Digests :
              /\ pdf' = [pdf EXCEPT ![s.snap] = d]
              /\ Goto(p, [pc |-> "commit", snap |-> s.snap, at |-> s.at, digest |-> d])
        /\ UNCHANGED <<disk, strays, clock, dbVars, lock>>

(* No engine delivers a PDF; the last one may have left a bad file.        *)
RenderFails(p) ==
    /\ Faults
    /\ sess[p].pc = "render"
    /\ \/ /\ pdf' = [pdf EXCEPT ![sess[p].snap] = "invalid"]
          /\ strays' = strays \cup {sess[p].snap}
       \/ UNCHANGED <<pdf, strays>>
    /\ Goto(p, Idle)
    /\ Release(p)
    /\ UNCHANGED <<disk, clock, dbVars>>

(* The report_build row, or the report_approved row with its request.      *)
CommitBuild(p) ==
    LET s == sess[p]
    IN  /\ s.pc = "commit" /\ s.at = 0
        /\ lock = NoProc
        /\ buildAudit' = buildAudit \cup {[snap |-> s.snap, digest |-> s.digest]}
        /\ Goto(p, Idle)
        /\ UNCHANGED <<fileVars, clock, status, decided, signAudit, breaks, lock>>

CommitApproval(p) ==
    LET s == sess[p]
    IN  /\ s.pc = "commit" /\ s.at # 0
        /\ status' = [status EXCEPT ![s.snap][s.at] = "approved"]
        /\ decided' = decided \cup {<<s.snap, s.at, "approved">>}
        /\ signAudit' = signAudit \cup
                            {[snap |-> s.snap, at |-> s.at, digest |-> s.digest]}
        /\ Goto(p, Idle)
        /\ Release(p)
        /\ UNCHANGED <<fileVars, clock, buildAudit, breaks>>

Abort(p) ==
    /\ Faults
    /\ sess[p] # Idle
    /\ strays' = strays \cup IF sess[p].pc = "commit" /\ sess[p].digest # "none"
                             THEN {sess[p].snap} ELSE {}
    /\ Goto(p, Idle)
    /\ Release(p)
    /\ UNCHANGED <<disk, pdf, clock, dbVars>>

(* `report pdf` renders from external.md and asks neither gate.            *)
ReportPdf(p, s) ==
    /\ Rerender
    /\ sess[p] = Idle
    /\ disk[s] # "none"
    /\ \/ \E d \in Digests : pdf' = [pdf EXCEPT ![s] = d]
       \/ Faults /\ pdf' = [pdf EXCEPT ![s] = "invalid"]
    /\ strays' = strays \cup {s}
    /\ UNCHANGED <<disk, clock, dbVars, lock, sess>>

(* A reconciliation commits a break; no code ever resolves one.            *)
OpenBreak ==
    /\ ~breaks
    /\ lock = NoProc
    /\ breaks' = TRUE
    /\ UNCHANGED <<fileVars, clock, status, decided, buildAudit, signAudit, lock, sess>>

-----------------------------------------------------------------------------
ProcNext(p) ==
    \/ \E s \in Snapshots : Draft(p, s)
    \/ Bundle(p)
    \/ \E s \in Snapshots, dec \in {"approved", "pending"} : Stamp(p, s, dec)
    \/ CommitRequest(p)
    \/ FlushApproval(p)
    \/ \E s \in Snapshots, n \in Stamps, dec \in Decisions : LoadDecision(p, s, n, dec)
    \/ CommitDecision(p)
    \/ Gate(p)
    \/ Render(p)
    \/ RenderFails(p)
    \/ CommitBuild(p)
    \/ CommitApproval(p)
    \/ Abort(p)
    \/ \E s \in Snapshots : ReportPdf(p, s)

Next == OpenBreak \/ \E p \in Procs : ProcNext(p)

Spec == Init /\ [][Next]_vars

-----------------------------------------------------------------------------
(* Both gates still hold when the sign-off commits, not only when they     *)
(* were read: a report_approved row that pins a digest is committed while  *)
(* no break is open and while the newest decision on the snapshot is an    *)
(* approval (_attach_external_pdf runs under the session's write lock).    *)
GatesHoldAtCommit ==
    [][\A row \in signAudit' \ signAudit :
          row.digest # "none" =>
              /\ ~breaks'
              /\ Latest(status'[row.snap]) = "approved"]_vars

(* Two renders of `report approve` never overlap: whoever is past its      *)
(* flush holds the one write lock.                                         *)
OneSignOffAtATime ==
    \A p, q \in Procs :
        /\ sess[p].pc \in {"gate", "render", "commit"} /\ sess[p].at # 0
        /\ sess[q].pc \in {"gate", "render", "commit"} /\ sess[q].at # 0
        => p = q

(* A named human decision stands behind the PDF of s: a recorded approval, *)
(* or one that is about to be committed.                                   *)
SignedOff(s) ==
    \/ \E n \in Stamps : <<s, n, "approved">> \in decided
    \/ \E p \in Procs : sess[p].pc = "commit" /\ sess[p].snap = s /\ sess[p].at # 0

(* An audit row pins the digest on disk, or is about to be committed.      *)
PinnedOnDisk(s) ==
    \/ \E row \in buildAudit \cup signAudit : row.snap = s /\ row.digest = pdf[s]
    \/ \E p \in Procs : /\ sess[p].pc = "commit"
                        /\ sess[p].snap = s /\ sess[p].digest = pdf[s]

(* Unless `report pdf` or a failed session wrote it, a PDF on disk was     *)
(* signed off, however builds, requests and sign-offs overlap              *)
(* (_attach_external_pdf, approve_and_render_report).                      *)
PdfsAreSignedOff ==
    \A s \in Snapshots \ strays : pdf[s] # "none" => SignedOff(s)

(* And its digest is the one an audit row pins to its snapshot             *)
(* (render_external_pdf's digest on the report_approved row).              *)
PinnedDigest ==
    \A s \in Snapshots \ strays : pdf[s] # "none" => PinnedOnDisk(s)

(* A PDF on disk is backed by a sign-off and by an audit row of its digest.*)
PdfsAreBacked == PdfsAreSignedOff /\ PinnedDigest

(* No document ships without a named human decision.                       *)
NoUnsignedPdf == \A s \in Snapshots : pdf[s] # "none" => SignedOff(s)
=============================================================================
