------------------------------- MODULE DemoPages -------------------------------
(***************************************************************************)
(* What opening a page of the dashboard does to the database.  A page is   *)
(* assembled by loaders that call one another (dashboard/pages, phase2 to  *)
(* phase4), and three of them set the demo household up as they go: a      *)
(* daily refresh, an optimizer run with its backtest, and, last, a solver  *)
(* comparison, a tax scenario, the sign-off and staging of a request, and  *)
(* a second custodian's file.  Each set-up is one session.  A loader       *)
(* catches its own failure and reports it, but the loaders it calls fail   *)
(* unseen.                                                                 *)
(*                                                                         *)
(* Pages are served by processes that share the database with each other   *)
(* and with an advisor's commands.  Look-ups are steps of their own; what  *)
(* a session adds it commits at the end; from its first flush it holds     *)
(* SQLite's write lock.  The demo seed, and so the policy, is in place     *)
(* (module Bootstrap).  Left out: every household but the demo's, and what *)
(* a page shows.                                                           *)
(***************************************************************************)
EXTENDS Naturals, Sequences

CONSTANTS
    Procs,      \* dashboard servers and advisors
    NoProc,     \* nobody: the write lock is free
    Requests,   \* ids an approval request may draw
    NoRequest,  \* no request
    Visited     \* the pages that are opened

ASSUME PagesAssumption ==
    /\ NoProc \notin Procs
    /\ NoRequest \notin Requests
    /\ Visited \subseteq {"infra", "research", "decision", "reporting", "execution"}

VARIABLES
    stored,     \* the pieces of the demo with a committed row
    status,     \* committed status of each request
    subject,    \* what a request asks a sign-off for
    trades,     \* does it have a run that proposes trades
    author,     \* who opened it: a page, or an advisor's command (history)
    signed,     \* reviewers with an audited approval of the request
    orders,     \* the requests with committed orders
    drawn,      \* requests in the order of their created_at
    writer,     \* the process that holds the write lock
    sess        \* what each process is doing

requestVars == <<status, subject, trades, author, signed, orders>>
dbVars == <<stored, requestVars>>
vars == <<dbVars, drawn, writer, sess>>

-----------------------------------------------------------------------------
Pieces == {"refresh", "backtest", "comparison", "tax", "fidelity"}
Reviewers == {"advisor", "page"}

(* The set-ups a page runs, in order, and whether the page shows their     *)
(* failure.  The decision page loads phase 3 again for the advisory panel, *)
(* the research page takes its refresh from the risk engine's ledger       *)
(* adapter, and the data page is the execution page's double.              *)
Run(setup, shown) == [setup |-> setup, shown |-> shown]
Pages == [
    infra     |-> <<Run("refresh", TRUE)>>,
    research  |-> <<Run("refresh", TRUE), Run("decide", TRUE)>>,
    decision  |-> <<Run("refresh", FALSE), Run("decide", TRUE),
                    Run("refresh", FALSE), Run("decide", FALSE)>>,
    reporting |-> <<Run("refresh", FALSE), Run("decide", FALSE),
                    Run("execute", TRUE)>>,
    execution |-> <<Run("refresh", TRUE), Run("refresh", FALSE),
                    Run("decide", FALSE), Run("execute", TRUE)>>]

(* Beyond the last set-up of the longest page.                             *)
MaxSetups == 5

PCs == {"idle", "look", "refresh", "decide", "tax", "orders", "requests",
        "approve", "stage", "fidelity", "commit", "answered", "decision"}

(* at: the set-up the page has come to; err: a failure to show; settled:   *)
(* was the demo complete when the page was opened (history); new: the      *)
(* pieces the session will add; pick: the request it decides or has drawn. *)
Session == [pc : PCs, page : DOMAIN Pages, at : 1..MaxSetups, err : BOOLEAN,
            settled : BOOLEAN, new : SUBSET Pieces,
            pick : Requests \cup {NoRequest}, dec : {"approved", "rejected"},
            stages : BOOLEAN]

Idle == [pc |-> "idle", page |-> "infra", at |-> 1, err |-> FALSE,
         settled |-> FALSE, new |-> {}, pick |-> NoRequest,
         dec |-> "approved", stages |-> FALSE]

TypeOK ==
    /\ stored \subseteq Pieces
    /\ status \in [Requests -> {"absent", "pending", "approved", "rejected"}]
    /\ subject \in [Requests -> {"run", "report"}]
    /\ trades \in [Requests -> BOOLEAN]
    /\ author \in [Requests -> Reviewers]
    /\ signed \in [Requests -> SUBSET Reviewers]
    /\ orders \subseteq Requests
    /\ drawn \in Seq(Requests)
    /\ writer \in Procs \cup {NoProc}
    /\ sess \in [Procs -> Session]

Init ==
    /\ stored = {}
    /\ status = [r \in Requests |-> "absent"]
    /\ subject = [r \in Requests |-> "run"]
    /\ trades = [r \in Requests |-> FALSE]
    /\ author = [r \in Requests |-> "page"]
    /\ signed = [r \in Requests |-> {}]
    /\ orders = {}
    /\ drawn = <<>>
    /\ writer = NoProc
    /\ sess = [p \in Procs |-> Idle]

-----------------------------------------------------------------------------
(* What the look-ups of the set-ups ask the committed rows.                *)
IngestStored == stored \cap {"refresh", "fidelity"} # {}
RunStored ==
    \/ "comparison" \in stored
    \/ \E r \in Requests : status[r] # "absent" /\ subject[r] = "run"
OrderStored == orders # {}
Pending == {r \in Requests : status[r] = "pending"}

(* The demo is complete: no set-up finds anything to do.                   *)
Settled ==
    /\ IngestStored
    /\ RunStored
    /\ {"comparison", "tax", "fidelity"} \subseteq stored
    /\ OrderStored

Places(r) == {i \in DOMAIN drawn : drawn[i] = r}

(* The first pending one of list_approval_requests: the youngest.          *)
Newest(r) ==
    r \in Pending /\ \A s \in Pending : \E i \in Places(r) : \A j \in Places(s) : j <= i

(* The write lock is free, or p's own.                                     *)
CanWrite(p) == writer \in {p, NoProc}

Release(p) == writer' = IF writer = p THEN NoProc ELSE writer

Put(p, fields) == sess' = [sess EXCEPT ![p] = fields]

-----------------------------------------------------------------------------
(* A page is opened, and every session after the first begins, with        *)
(* nothing in it.  Bootstrap is a session of its own before each.          *)
Open(p, page) ==
    /\ sess[p].pc = "idle"
    /\ Put(p, [Idle EXCEPT !.pc = "look", !.page = page, !.settled = Settled])
    /\ UNCHANGED <<dbVars, drawn, writer>>

At(p, setup) ==
    /\ sess[p].pc = "look"
    /\ Pages[sess[p].page][sess[p].at].setup = setup

(* The loader goes on to the next set-up, or the page is answered.         *)
Onward(s, err) ==
    [s EXCEPT !.pc = IF s.at = Len(Pages[s.page]) THEN "answered" ELSE "look",
              !.at = @ + 1, !.err = err, !.new = {}, !.pick = NoRequest,
              !.stages = FALSE]

(* Mutant: a page answers as if all were well when its own set-up failed.  *)
ShowsFailure_Never(s) == s.err

ShowsFailure(s) == s.err \/ Pages[s.page][s.at].shown

(* A set-up's session is rolled back: an exception, a wait for the lock    *)
(* that lasted too long, or a loader that never came to it.                *)
SetupFails(p) ==
    /\ sess[p].pc \notin {"idle", "answered", "decision"}
    /\ Put(p, Onward(sess[p], ShowsFailure(sess[p])))
    /\ Release(p)
    /\ UNCHANGED <<dbVars, drawn>>

(* _ensure_demo_refresh: any custodian's run will do.                      *)
LookForIngest(p) ==
    /\ At(p, "refresh")
    /\ IF IngestStored THEN Put(p, Onward(sess[p], sess[p].err))
                       ELSE Put(p, [sess[p] EXCEPT !.pc = "refresh"])
    /\ UNCHANGED <<dbVars, drawn, writer>>

Refresh(p) ==
    /\ sess[p].pc = "refresh"
    /\ CanWrite(p)
    /\ stored' = stored \cup {"refresh"}
    /\ Put(p, Onward(sess[p], sess[p].err))
    /\ UNCHANGED <<requestVars, drawn, writer>>

(* Mutant: the set-up of the decision page forgets to look.                *)
LooksForRun_Always == TRUE

LooksForRun == ~RunStored

(* _ensure_demo_decision_runs: any run of the household will do.  A        *)
(* request draws its created_at before it is stored.                       *)
LookForRun(p) ==
    /\ At(p, "decide")
    /\ IF LooksForRun
       THEN \E r \in Requests :
               /\ Places(r) = {}
               /\ drawn' = Append(drawn, r)
               /\ Put(p, [sess[p] EXCEPT !.pc = "decide", !.pick = r])
       ELSE Put(p, Onward(sess[p], sess[p].err)) /\ UNCHANGED drawn
    /\ UNCHANGED <<dbVars, writer>>

(* Mutant: the backtest is left to another session.                        *)
BacktestsDue_None == {}

BacktestsDue == {"backtest"} \ stored

NewRequest(r, subj, who) ==
    /\ status[r] = "absent"
    /\ status' = [status EXCEPT ![r] = "pending"]
    /\ subject' = [subject EXCEPT ![r] = subj]
    /\ author' = [author EXCEPT ![r] = who]
    /\ \E t \in IF subj = "run" THEN BOOLEAN ELSE {FALSE} :
          trades' = [trades EXCEPT ![r] = t]
    /\ UNCHANGED <<signed, orders>>

Decide(p) ==
    /\ sess[p].pc = "decide"
    /\ CanWrite(p)
    /\ NewRequest(sess[p].pick, "run", "page")
    /\ stored' = stored \cup BacktestsDue
    /\ Put(p, Onward(sess[p], sess[p].err))
    /\ UNCHANGED <<drawn, writer>>

-----------------------------------------------------------------------------
(* _ensure_demo_phase4.  A comparison is flushed at once, the rest later.  *)

(* Mutant: the comparison's runs wait for the commit.                      *)
FlushComparison_Late(p) == UNCHANGED writer

FlushComparison(p) == CanWrite(p) /\ writer' = p

LookForComparison(p) ==
    /\ At(p, "execute")
    /\ IF "comparison" \notin stored
       THEN /\ FlushComparison(p)
            /\ Put(p, [sess[p] EXCEPT !.pc = "tax", !.new = {"comparison"}])
       ELSE /\ Put(p, [sess[p] EXCEPT !.pc = "tax"])
            /\ UNCHANGED writer
    /\ UNCHANGED <<dbVars, drawn>>

LookForTax(p) ==
    /\ sess[p].pc = "tax"
    /\ Put(p, [sess[p] EXCEPT !.pc = "orders",
                              !.new = @ \cup ({"tax"} \ stored)])
    /\ UNCHANGED <<dbVars, drawn, writer>>

LookForOrders(p) ==
    /\ sess[p].pc = "orders"
    /\ Put(p, [sess[p] EXCEPT !.pc = IF OrderStored THEN "fidelity" ELSE "requests"])
    /\ UNCHANGED <<dbVars, drawn, writer>>

Stageable(r) == subject[r] = "run"

(* Mutant: a rejection is staged like an approval.                         *)
Stages_AnyDecision(r, dec) == Stageable(r) /\ r \notin orders

(* A decision on a request is followed by staging, once.                   *)
Stages(r, dec) == dec = "approved" /\ Stageable(r) /\ r \notin orders

(* Nothing is pending: nothing to stage.  Otherwise the youngest pending   *)
(* request is taken, and approved as "advisor:demo".                       *)
PickRequest(p) ==
    /\ sess[p].pc = "requests"
    /\ IF Pending = {}
       THEN Put(p, [sess[p] EXCEPT !.pc = "fidelity"])
       ELSE \E r \in Requests :
               Newest(r) /\ Put(p, [sess[p] EXCEPT !.pc = "approve", !.pick = r])
    /\ UNCHANGED <<dbVars, drawn, writer>>

(* update_approval_status reads it again, and the OMS what it has staged;  *)
(* a request decided meanwhile, or a report's, raises (SetupFails).        *)
Approve(p) ==
    /\ sess[p].pc = "approve"
    /\ status[sess[p].pick] = "pending"
    /\ Stageable(sess[p].pick)
    /\ Put(p, [sess[p] EXCEPT !.pc = "stage", !.stages = Stages(sess[p].pick, "approved")])
    /\ UNCHANGED <<dbVars, drawn, writer>>

(* Staging ends in a flush.                                                *)
FlushStaging(p) ==
    /\ sess[p].pc = "stage"
    /\ CanWrite(p)
    /\ writer' = p
    /\ Put(p, [sess[p] EXCEPT !.pc = "fidelity"])
    /\ UNCHANGED <<dbVars, drawn>>

LookForFidelity(p) ==
    /\ sess[p].pc = "fidelity"
    /\ IF "fidelity" \notin stored
       THEN /\ CanWrite(p)
            /\ writer' = p
            /\ Put(p, [sess[p] EXCEPT !.pc = "commit", !.new = @ \cup {"fidelity"}])
       ELSE /\ Put(p, [sess[p] EXCEPT !.pc = "commit"])
            /\ UNCHANGED writer
    /\ UNCHANGED <<dbVars, drawn>>

(* A decision and what it stages, as one commit writes them.               *)
WriteDecision(p, who) ==
    LET r == sess[p].pick
    IN  /\ status' = [status EXCEPT ![r] = sess[p].dec]
        /\ signed' = [signed EXCEPT ![r] =
                         @ \cup {w \in {who} : sess[p].dec = "approved"}]
        /\ orders' = orders \cup {q \in {r} : sess[p].stages /\ trades[q]}
        /\ UNCHANGED <<subject, trades, author>>

CommitExecute(p) ==
    /\ sess[p].pc = "commit"
    /\ CanWrite(p) \/ (sess[p].new = {} /\ sess[p].pick = NoRequest)
    /\ stored' = stored \cup sess[p].new
    /\ IF sess[p].pick = NoRequest THEN UNCHANGED requestVars
                                   ELSE WriteDecision(p, "page")
    /\ Put(p, Onward(sess[p], sess[p].err))
    /\ Release(p)
    /\ UNCHANGED drawn

Answer(p) ==
    /\ sess[p].pc = "answered"
    /\ Put(p, Idle)
    /\ UNCHANGED <<dbVars, drawn, writer>>

-----------------------------------------------------------------------------
(* An advisor's commands (module ApprovalOms has them in full).            *)

(* warehouse optimize and report write open a request, backtest,           *)
(* compare-solvers, tax-scenario and ingest store a piece.                 *)
RequestByHand(p, r, subj) ==
    /\ sess[p].pc = "idle"
    /\ writer = NoProc
    /\ Places(r) = {}
    /\ drawn' = Append(drawn, r)
    /\ NewRequest(r, subj, "advisor")
    /\ UNCHANGED <<stored, writer, sess>>

StoreByHand(p, k) ==
    /\ sess[p].pc = "idle"
    /\ writer = NoProc
    /\ stored' = stored \cup {k}
    /\ UNCHANGED <<requestVars, drawn, writer, sess>>

(* approve decide, with the staging that follows an approval of a run; and *)
(* a report's decision, which stages nothing.                              *)
LoadForDecision(p, r, dec) ==
    /\ sess[p].pc = "idle"
    /\ status[r] = "pending"
    /\ Put(p, [Idle EXCEPT !.pc = "decision", !.pick = r, !.dec = dec,
                        !.stages = Stages(r, dec)])
    /\ UNCHANGED <<dbVars, drawn, writer>>

CommitDecision(p) ==
    /\ sess[p].pc = "decision"
    /\ CanWrite(p)
    /\ WriteDecision(p, "advisor")
    /\ Put(p, Idle)
    /\ UNCHANGED <<stored, drawn, writer>>

DecisionFails(p) ==
    /\ sess[p].pc = "decision"
    /\ Put(p, Idle)
    /\ UNCHANGED <<dbVars, drawn, writer>>

-----------------------------------------------------------------------------
PageNext(p) ==
    \/ \E page \in Visited : Open(p, page)
    \/ LookForIngest(p) \/ Refresh(p)
    \/ LookForRun(p) \/ Decide(p)
    \/ LookForComparison(p) \/ LookForTax(p) \/ LookForOrders(p)
    \/ PickRequest(p) \/ Approve(p) \/ FlushStaging(p) \/ LookForFidelity(p) \/ CommitExecute(p)
    \/ SetupFails(p)
    \/ Answer(p)

AdvisorNext(p) ==
    \/ \E r \in Requests, subj \in {"run", "report"} : RequestByHand(p, r, subj)
    \/ \E k \in Pieces : StoreByHand(p, k)
    \/ \E r \in Requests, dec \in {"approved", "rejected"} : LoadForDecision(p, r, dec)
    \/ CommitDecision(p)
    \/ DecisionFails(p)

Next == \E p \in Procs : PageNext(p) \/ AdvisorNext(p)

Spec == Init /\ [][Next]_vars

-----------------------------------------------------------------------------
(* What a set-up is for.  A household whose first run is the demo's has a  *)
(* backtest.                                                               *)
Done(setup) ==
    CASE setup = "refresh" -> IngestStored
      [] setup = "decide"  ->
            /\ RunStored
            /\ \/ stored \cap {"backtest", "comparison"} # {}
               \/ \E r \in Requests : author[r] = "advisor"
      [] setup = "execute" -> {"comparison", "tax", "fidelity"} \subseteq stored

(* A page that shows no failure has its demo data: what the set-ups it     *)
(* answers for look for is stored, whoever stored it and whatever failed   *)
(* unseen on the way.                                                      *)
CleanPageHasItsDemo ==
    \A p \in Procs :
        sess[p].pc = "answered" /\ ~sess[p].err =>
            \A i \in DOMAIN Pages[sess[p].page] :
                LET u == Pages[sess[p].page][i] IN u.shown => Done(u.setup)

(* Opening pages settles: a page opened on a complete demo comes to no     *)
(* write, whatever else runs beside it (the look-ups of all three          *)
(* set-ups, and every one again on the pages that load them twice).        *)
SettledPagesAreQuiet ==
    \A p \in Procs : sess[p].settled =>
        /\ sess[p].pc \in {"look", "tax", "orders", "fidelity", "commit", "answered"}
        /\ sess[p].new = {} /\ sess[p].pick = NoRequest
        /\ writer # p

(* A page that stores the comparison too has held the write lock since     *)
(* before it read the requests: it takes back nobody's decision.           *)
FirstPageDecidesOnlyPending ==
    [][\A r \in Requests :
          /\ "page" \in signed'[r] \ signed[r]
          /\ "comparison" \in stored' \ stored
          => status[r] = "pending"]_vars

(* However pages and advisors overlap, orders come only from a sign-off on *)
(* record of a run, and a page that signs off stages in the same commit.   *)
OrdersAreBacked ==
    \A r \in Requests :
        /\ r \in orders => subject[r] = "run" /\ signed[r] # {} /\ trades[r]
        /\ "page" \in signed[r] /\ trades[r] => r \in orders

-----------------------------------------------------------------------------
(* What the documentation says and the code does not do.                   *)

(* "No autonomous trading.  The loop is advisory; the human approval gate  *)
(* dominates": orders follow the sign-off of an advisor.                   *)
OrdersAreAdvisors ==
    \A r \in orders : "advisor" \in signed[r]
=============================================================================
