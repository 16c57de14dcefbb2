---------------------------- MODULE DemoPages_proofs ----------------------------
(***************************************************************************)
(* The properties of DemoPages for any processes, requests and pages       *)
(* visited.  IInv adds to the type invariant what a process may count on   *)
(* while it is at work (Sound) and how the columns of a request hang       *)
(* together (Kept).                                                        *)
(***************************************************************************)
EXTENDS DemoPages, TLAPS

Executing == {"tax", "orders", "requests", "approve", "stage", "fidelity", "commit"}
Working == Executing \cup {"look", "refresh", "decide"}
Complete == {"comparison", "tax", "fidelity"} \subseteq stored /\ orders # {}

Here(s) == Pages[s.page][s.at]

(* Where a page is, and that its answer so far is true.                    *)
Placed(s) ==
    /\ s.pc \in Working => s.at <= Len(Pages[s.page])
    /\ s.pc = "answered" => s.at > Len(Pages[s.page])
    /\ s.pc = "refresh" => Here(s).setup = "refresh"
    /\ s.pc = "decide" => Here(s).setup = "decide"
    /\ s.pc \in Executing => Here(s).setup = "execute"

Truthful(s) ==
    s.pc \in Working \cup {"answered"} /\ ~s.err =>
        \A i \in DOMAIN Pages[s.page] :
            i < s.at /\ Pages[s.page][i].shown => Done(Pages[s.page][i].setup)

(* What the session will write.                                            *)
Gathered(s) ==
    /\ s.pc \notin Executing => s.new = {}
    /\ s.pc \in Executing => "comparison" \in stored \cup s.new
    /\ s.pc \in Executing \ {"tax"} => "tax" \in stored \cup s.new
    /\ s.pc = "commit" => "fidelity" \in stored \cup s.new

Picked(s) ==
    /\ s.pc \in {"idle", "look", "refresh", "answered", "tax", "orders", "requests"} =>
           s.pick = NoRequest
    /\ s.pc \in {"decide", "approve", "stage", "decision"} => s.pick # NoRequest
    /\ s.pc # "decision" => s.dec = "approved"
    /\ s.pick # NoRequest /\ s.pc # "decide" => status[s.pick] # "absent"
    /\ s.stages => /\ s.pick # NoRequest /\ s.pc # "decide"
                   /\ subject[s.pick] = "run" /\ s.dec = "approved"
    /\ s.pc \in {"stage", "fidelity", "commit"} /\ s.pick # NoRequest =>
           s.stages \/ s.pick \in orders

(* The write lock, and a page opened on a complete demo.                   *)
Locked(p) ==
    /\ writer = p => sess[p].pc \in Executing
    /\ "comparison" \in sess[p].new =>
           /\ writer = p
           /\ sess[p].pick # NoRequest => status[sess[p].pick] = "pending"

Quiet(p) ==
    sess[p].settled =>
        /\ Complete
        /\ sess[p].pc \in {"look", "tax", "orders", "fidelity", "commit", "answered"}
        /\ sess[p].new = {} /\ sess[p].pick = NoRequest
        /\ writer # p

Sound(p) == /\ Placed(sess[p]) /\ Truthful(sess[p]) /\ Gathered(sess[p])
            /\ Picked(sess[p]) /\ Locked(p) /\ Quiet(p)

Kept(r) ==
    /\ status[r] = "absent" => signed[r] = {} /\ r \notin orders /\ author[r] = "page"
    /\ r \in orders => subject[r] = "run" /\ signed[r] # {} /\ trades[r]
    /\ "page" \in signed[r] /\ trades[r] => r \in orders
    /\ status[r] # "absent" /\ subject[r] = "run" /\ author[r] = "page" =>
           "backtest" \in stored

IInv == TypeOK /\ (\A p \in Procs : Sound(p)) /\ (\A r \in Requests : Kept(r))

-----------------------------------------------------------------------------
(* What no step takes away.                                                *)
Grows ==
    /\ stored \subseteq stored'
    /\ orders \subseteq orders'
    /\ \A r \in Requests : status[r] # "absent" =>
           status'[r] # "absent" /\ subject'[r] = subject[r] /\ author'[r] = author[r]

Setups == {"refresh", "decide", "execute"}

Shape(q) ==
    /\ Len(q) \in 1..4
    /\ DOMAIN q = 1..Len(q)
    /\ \A i \in DOMAIN q : q[i].setup \in Setups

LEMMA PagesShape ==
    ASSUME NEW page \in DOMAIN Pages
    PROVE  Shape(Pages[page])
<1>1. page \in {"infra", "research", "decision", "reporting", "execution"}
  BY DEF Pages
<1>2. Pages["infra"] = <<Run("refresh", TRUE)>>
  BY DEF Pages
<1>3. Pages["research"] = <<Run("refresh", TRUE), Run("decide", TRUE)>>
  BY DEF Pages
<1>4. Pages["decision"] = <<Run("refresh", FALSE), Run("decide", TRUE),
                            Run("refresh", FALSE), Run("decide", FALSE)>>
  BY DEF Pages
<1>5. Pages["reporting"] = <<Run("refresh", FALSE), Run("decide", FALSE),
                             Run("execute", TRUE)>>
  BY DEF Pages
<1>6. Pages["execution"] = <<Run("refresh", TRUE), Run("refresh", FALSE),
                             Run("decide", FALSE), Run("execute", TRUE)>>
  BY DEF Pages
<1>7. \A setup \in Setups, shown \in BOOLEAN : Run(setup, shown).setup \in Setups
  BY DEF Run
<1>8. /\ Run("refresh", TRUE).setup \in Setups /\ Run("refresh", FALSE).setup \in Setups
      /\ Run("decide", TRUE).setup \in Setups /\ Run("decide", FALSE).setup \in Setups
      /\ Run("execute", TRUE).setup \in Setups
  BY <1>7 DEF Setups
<1>9. ASSUME NEW a, NEW b, NEW c, NEW d, a.setup \in Setups, b.setup \in Setups,
             c.setup \in Setups, d.setup \in Setups
      PROVE  Shape(<<a>>) /\ Shape(<<a, b>>) /\ Shape(<<a, b, c>>) /\ Shape(<<a, b, c, d>>)
  <2>1. Shape(<<a>>)  BY <1>9 DEF Shape
  <2>2. Shape(<<a, b, c>>)
    <3>1. \A i \in 1..3 : i = 1 \/ i = 2 \/ i = 3  OBVIOUS
    <3>2. QED  BY <1>9, <3>1 DEF Shape
  <2>3. Shape(<<a, b, c, d>>)
    <3>1. \A i \in 1..4 : i = 1 \/ i = 2 \/ i = 3 \/ i = 4  OBVIOUS
    <3>2. QED  BY <1>9, <3>1 DEF Shape
  <2>4. Shape(<<a, b>>)
    <3>1. \A i \in 1..2 : i = 1 \/ i = 2  OBVIOUS
    <3>2. QED  BY <1>9, <3>1 DEF Shape
  <2>5. QED  BY <2>1, <2>2, <2>3, <2>4
<1>10. QED  BY <1>1, <1>2, <1>3, <1>4, <1>5, <1>6, <1>8, <1>9

(* What a set-up found or stored stays found.                              *)
LEMMA DoneStays ==
    ASSUME TypeOK, \A r \in Requests : Kept(r), Grows
    PROVE  \A setup \in Setups : Done(setup) => Done(setup)'
<1>1. IngestStored => IngestStored'
  BY DEF Grows, IngestStored
<1>2. RunStored => RunStored'
  BY DEF Grows, RunStored
<1>3. ASSUME \E r \in Requests : author[r] = "advisor"
      PROVE  \E r \in Requests : author'[r] = "advisor"
  BY <1>3 DEF Grows, Kept
<1>4. QED  BY <1>1, <1>2, <1>3 DEF Done, Grows, Setups

(* A process that does not move keeps what it may count on.                *)
LEMMA OthersSound ==
    ASSUME IInv, Grows, NEW q \in Procs, sess'[q] = sess[q],
           writer = q => UNCHANGED <<status, writer>>,
           writer # q => writer' # q
    PROVE  Sound(q)'
<1>0. /\ Sound(q) /\ TypeOK /\ sess[q] \in Session
      /\ sess[q].page \in DOMAIN Pages /\ sess[q].pick \in Requests \cup {NoRequest}
  BY DEF IInv, TypeOK, Session
<1>1. Placed(sess[q])'
  BY <1>0 DEF Sound, Placed, Here
<1>2. Truthful(sess[q])'
  <2> SUFFICES ASSUME sess[q].pc \in Working \cup {"answered"}, ~sess[q].err,
                      NEW i \in DOMAIN Pages[sess[q].page],
                      i < sess[q].at, Pages[sess[q].page][i].shown
               PROVE  Done(Pages[sess[q].page][i].setup)'
    BY DEF Truthful
  <2>1. Done(Pages[sess[q].page][i].setup)
    BY <1>0 DEF Sound, Truthful
  <2>2. Pages[sess[q].page][i].setup \in Setups
    BY <1>0, PagesShape DEF Shape
  <2>3. QED  BY <1>0, <2>1, <2>2, DoneStays DEF IInv
<1>3. Gathered(sess[q])'
  BY <1>0 DEF Sound, Gathered, Grows, Executing
<1>4. Picked(sess[q])'
  BY <1>0 DEF Sound, Picked, Grows
<1>5. Locked(q)'
  BY <1>0 DEF Sound, Locked
<1>6. Quiet(q)'
  BY <1>0 DEF Sound, Quiet, Complete, Grows
<1>7. QED  BY <1>1, <1>2, <1>3, <1>4, <1>5, <1>6 DEF Sound

(* A process that goes on to its next set-up, or answers: its answer so    *)
(* far is true if the set-up behind it is done or its failure shows.       *)
LEMMA OnwardSound ==
    ASSUME IInv, Grows, NEW p \in Procs, NEW err \in BOOLEAN, sess[p].pc \in Working,
           sess' = [sess EXCEPT ![p] = Onward(sess[p], err)],
           ~err => /\ ~sess[p].err
                   /\ \A u \in Setups :
                          Here(sess[p]).shown /\ Here(sess[p]).setup = u => Done(u)',
           writer' # p
    PROVE  Sound(p)' /\ sess'[p] \in Session
<1> DEFINE s == sess[p]
           t == Onward(s, err)
<1>0. /\ Sound(p) /\ TypeOK /\ s \in Session /\ s.page \in DOMAIN Pages /\ s.at \in 1..5
      /\ s.dec \in {"approved", "rejected"}
  BY DEF IInv, TypeOK, Session, MaxSetups
<1>1. sess'[p] = t
  BY <1>0 DEF TypeOK
<1>2. /\ t.pc = (IF s.at = Len(Pages[s.page]) THEN "answered" ELSE "look")
      /\ t.at = s.at + 1 /\ t.err = err /\ t.new = {} /\ t.pick = NoRequest
      /\ t.stages = FALSE /\ t.page = s.page /\ t.settled = s.settled /\ t.dec = s.dec
      /\ t \in [pc : {t.pc}, page : {s.page}, at : {s.at + 1}, err : {err},
                 settled : {s.settled}, new : {{}}, pick : {NoRequest},
                 dec : {s.dec}, stages : {FALSE}]
  BY <1>0 DEF Onward, Session
<1>3. /\ s.at <= Len(Pages[s.page]) /\ Len(Pages[s.page]) \in 1..4
      /\ DOMAIN Pages[s.page] = 1..Len(Pages[s.page])
      /\ \A i \in DOMAIN Pages[s.page] :
             Pages[s.page][i].setup \in Setups
  BY <1>0, PagesShape DEF Sound, Placed, Shape
<1>4. t \in Session
  BY <1>0, <1>2, <1>3, s.at + 1 \in 1..5 DEF Session, PCs, MaxSetups
<1>5. Placed(sess[p])'
  BY <1>0, <1>1, <1>2, <1>3 DEF Placed, Working, Executing
<1>6. Truthful(sess[p])'
  <2> SUFFICES ASSUME ~err, NEW i \in DOMAIN Pages[s.page], NEW u \in Setups,
                      i < s.at + 1, Pages[s.page][i].shown, Pages[s.page][i].setup = u
               PROVE  Done(u)'
    <3>1. /\ sess'[p].page = s.page /\ sess'[p].at = s.at + 1 /\ sess'[p].err = err
      BY <1>1, <1>2
    <3>2. QED  BY <1>3, <3>1 DEF Truthful
  <2>1. CASE i = s.at
    BY <2>1 DEF Here
  <2>2. CASE i < s.at
    <3>1. Done(u)
      BY <1>0, <2>2 DEF Sound, Truthful
    <3>2. QED  BY <1>0, <3>1, DoneStays DEF IInv
  <2>3. QED  BY <1>0, <1>3, <2>1, <2>2
<1>7. Gathered(sess[p])'
  BY <1>1, <1>2 DEF Gathered, Executing
<1>8. Picked(sess[p])'
  BY <1>0, <1>1, <1>2 DEF Picked, Sound, Working, Executing
<1>9. Locked(p)'
  BY <1>1, <1>2 DEF Locked
<1>10. Quiet(p)'
  BY <1>0, <1>1, <1>2 DEF Quiet, Sound, Complete, Grows
<1>11. QED  BY <1>1, <1>4, <1>5, <1>6, <1>7, <1>8, <1>9, <1>10 DEF Sound

(* One process moved, within what the write lock allows: the invariant     *)
(* follows from what that process may count on.                            *)
LEMMA StepSound ==
    ASSUME IInv, Grows, TypeOK', \A r \in Requests : Kept(r)', NEW p \in Procs,
           \A q \in Procs \ {p} : sess'[q] = sess[q],
           Sound(p)',
           writer \in {p, NoProc} \/ UNCHANGED <<status, writer>>,
           writer' \in {writer, p, NoProc}
    PROVE  IInv'
<1>1. ASSUME NEW q \in Procs \ {p}  PROVE  Sound(q)'
  <2>1. writer = q => UNCHANGED <<status, writer>>
    BY PagesAssumption
  <2>2. writer # q => writer' # q
    BY PagesAssumption
  <2>3. QED  BY <2>1, <2>2, OthersSound
<1>2. QED  BY <1>1 DEF IInv

(* A step of the session of the last set-up that leaves the database       *)
(* alone.                                                                  *)
LEMMA SessionSound ==
    ASSUME IInv, NEW p \in Procs, NEW t \in Session,
           UNCHANGED <<dbVars, drawn>>,
           sess' = [sess EXCEPT ![p] = t],
           sess[p].pc \in Executing \cup {"look"}, Here(sess[p]).setup = "execute",
           t.pc \in Executing, t.page = sess[p].page, t.at = sess[p].at,
           t.err = sess[p].err, Gathered(t), Picked(t), Locked(p)', Quiet(p)',
           writer \in {p, NoProc} \/ writer' = writer, writer' \in {writer, p}
    PROVE  IInv'
<1>0. Sound(p) /\ TypeOK /\ sess'[p] = t
  BY DEF IInv, TypeOK
<1>1. Grows
  BY DEF Grows, dbVars, requestVars
<1>2. TypeOK'
  BY <1>0 DEF TypeOK, dbVars, requestVars
<1>3. \A r \in Requests : Kept(r)'
  BY DEF IInv, Kept, dbVars, requestVars
<1>4. Placed(sess[p])'
  BY <1>0 DEF Sound, Placed, Here, Working, Executing
<1>5. Truthful(sess[p])'
  <2> SUFFICES ASSUME ~t.err, NEW i \in DOMAIN Pages[t.page], NEW u,
                      i < t.at, Pages[t.page][i].shown, Pages[t.page][i].setup = u
               PROVE  Done(u)'
    BY <1>0 DEF Truthful
  <2>1. Done(u)
    BY <1>0 DEF Sound, Truthful, Working
  <2>2. QED  BY <2>1 DEF Done, IngestStored, RunStored, dbVars, requestVars
<1>6. Gathered(sess[p])' /\ Picked(sess[p])'
  BY <1>0 DEF Gathered, Picked, dbVars, requestVars
<1>7. Sound(p)'
  BY <1>4, <1>5, <1>6 DEF Sound
<1>8. QED  BY <1>0, <1>1, <1>2, <1>3, <1>7, StepSound DEF TypeOK, dbVars, requestVars

(* Only the session of the last set-up holds the lock, and gives it up.    *)
LEMMA LockIsReleased ==
    ASSUME IInv, NEW p \in Procs, Release(p) \/ (sess[p].pc \notin Executing /\ writer' = writer)
    PROVE  writer' # p
BY PagesAssumption DEF IInv, Sound, Locked, Release

(* A set-up is over, found, done or failed: the database changed only as   *)
(* TypeOK' and Kept' allow.                                                *)
LEMMA OnwardStep ==
    ASSUME IInv, Grows, NEW p \in Procs, NEW err \in BOOLEAN, sess[p].pc \in Working,
           sess' = [sess EXCEPT ![p] = Onward(sess[p], err)],
           ~err => /\ ~sess[p].err
                   /\ \A u \in Setups :
                          Here(sess[p]).shown /\ Here(sess[p]).setup = u => Done(u)',
           \A r \in Requests : Kept(r)',
           sess' \in [Procs -> Session] => TypeOK',
           writer \in {p, NoProc} \/ UNCHANGED <<status, writer>>,
           writer' \in {writer, NoProc}, writer' # p
    PROVE  IInv'
<1>0. TypeOK /\ Sound(p)
  BY DEF IInv
<1>2. Sound(p)' /\ sess'[p] \in Session
  BY OnwardSound
<1>3. TypeOK'
  BY <1>0, <1>2 DEF TypeOK
<1>4. QED  BY <1>0, <1>2, <1>3, StepSound DEF TypeOK

-----------------------------------------------------------------------------
(* The steps that leave the database alone.                                *)
LEMMA LooksKeep ==
    ASSUME IInv, NEW p \in Procs,
           LookForIngest(p) \/ (At(p, "decide") /\ ~LooksForRun /\ LookForRun(p))
              \/ SetupFails(p)
    PROVE  IInv'
<1>0. TypeOK /\ Sound(p) /\ sess[p] \in Session /\ sess[p].err \in BOOLEAN
  BY DEF IInv, TypeOK, Session
<1>1. sess[p].page \in DOMAIN Pages /\ sess[p].at \in 1..5
  BY <1>0 DEF Session, MaxSetups
<1>2. Grows /\ \A r \in Requests : Kept(r)'
  BY DEF LookForIngest, LookForRun, SetupFails, dbVars, requestVars, Grows, Kept, IInv
<1>3. sess' \in [Procs -> Session] => TypeOK'
  BY <1>0 DEF LookForIngest, LookForRun, SetupFails, Release, dbVars, requestVars, TypeOK
<1>4. CASE LookForIngest(p)
  <2>1. CASE IngestStored
    <3>1. \A u \in Setups : Here(sess[p]).setup = u => Done(u)'
      BY <1>4, <2>1 DEF LookForIngest, At, Here, Setups, Done, IngestStored, dbVars
    <3>2. writer' # p
      BY <1>4, LockIsReleased DEF LookForIngest, At, Executing
    <3>3. QED  BY <1>0, <1>2, <1>3, <1>4, <2>1, <3>1, <3>2, OnwardStep
               DEF LookForIngest, At, Working, Put, dbVars, requestVars
  <2>2. CASE ~IngestStored
    <3>1. /\ sess' = [sess EXCEPT ![p] = [sess[p] EXCEPT !.pc = "refresh"]]
          /\ sess[p].pc = "look" /\ Here(sess[p]).setup = "refresh"
      BY <1>4, <2>2 DEF LookForIngest, At, Put, Here
    <3>2. [sess[p] EXCEPT !.pc = "refresh"] \in Session
      BY <1>0 DEF Session, PCs
    <3>3. TypeOK'
      BY <1>0, <1>3, <3>1, <3>2 DEF TypeOK
    <3>4. Truthful(sess[p])'
      <4>1. \A u : Done(u) => Done(u)'
        BY <1>4 DEF LookForIngest, dbVars, requestVars, Done, IngestStored, RunStored
      <4>2. QED  BY <1>0, <3>1, <4>1 DEF Truthful, Sound, Working, TypeOK
    <3>5. ~sess[p].settled
      BY <1>0, <2>2 DEF Sound, Quiet, Complete, IngestStored
    <3>6. Sound(p)'
      BY <1>0, <1>4, <3>1, <3>4, <3>5
      DEF TypeOK, Sound, Placed, Here, Gathered, Picked, Locked, Quiet, Working, Executing,
          LookForIngest, dbVars, requestVars
    <3>7. QED  BY <1>0, <1>2, <1>4, <3>1, <3>3, <3>6, StepSound
               DEF TypeOK, LookForIngest, dbVars, requestVars
  <2>3. QED  BY <2>1, <2>2
<1>5. CASE At(p, "decide") /\ ~LooksForRun /\ LookForRun(p)
  <2>1. RunStored /\ (stored \cap {"backtest", "comparison"} # {}
                       \/ \E r \in Requests : author[r] = "advisor")
    BY <1>0, <1>5 DEF LooksForRun, RunStored, IInv, Kept, TypeOK, Reviewers
  <2>2. \A u \in Setups : Here(sess[p]).setup = u => Done(u)'
    BY <1>5, <2>1 DEF LookForRun, At, Here, Setups, Done, RunStored, dbVars, requestVars
  <2>3. writer' # p
    BY <1>5, LockIsReleased DEF LookForRun, At, Executing
  <2>4. QED  BY <1>0, <1>2, <1>3, <1>5, <2>2, <2>3, OnwardStep
             DEF LookForRun, At, Working, Put, dbVars, requestVars
<1>6. CASE SetupFails(p)
  <2>1. sess[p].pc \in Working
    BY <1>0, <1>6 DEF SetupFails, Session, PCs, Working, Executing
  <2>2. ~ShowsFailure(sess[p]) => ~sess[p].err /\ ~Here(sess[p]).shown
    BY DEF ShowsFailure, Here
  <2>3. ShowsFailure(sess[p]) \in BOOLEAN
    <3>1. CASE sess[p].err  BY <3>1 DEF ShowsFailure
    <3>2. CASE ~sess[p].err
      BY <1>1, <3>2, PagesShape DEF ShowsFailure
    <3>3. QED  BY <1>0, <3>1, <3>2
  <2>4. writer \in {p, NoProc} \/ UNCHANGED <<status, writer>>
    BY <1>6 DEF SetupFails, Release, dbVars, requestVars
  <2>5. writer' \in {writer, NoProc}
    BY <1>6 DEF SetupFails, Release
  <2>6. writer' # p
    BY <1>6, LockIsReleased DEF SetupFails
  <2>7. QED  BY <1>2, <1>3, <1>6, <2>1, <2>2, <2>3, <2>4, <2>5, <2>6, OnwardStep
             DEF SetupFails, Put
<1>7. QED  BY <1>4, <1>5, <1>6

(* The steps of _ensure_demo_phase4 before its commit.                     *)
LEMMA ExecuteKeeps ==
    ASSUME IInv, NEW p \in Procs,
           \/ LookForComparison(p) \/ LookForTax(p) \/ LookForOrders(p)
           \/ PickRequest(p) \/ Approve(p) \/ FlushStaging(p) \/ LookForFidelity(p)
    PROVE  IInv'
<1> DEFINE s == sess[p]
<1>0. TypeOK /\ Sound(p) /\ s \in Session
  BY DEF IInv, TypeOK
<1>1. UNCHANGED <<dbVars, drawn>>
  BY DEF LookForComparison, LookForTax, LookForOrders, PickRequest, Approve, FlushStaging,
         LookForFidelity, dbVars, requestVars
<1>2. s.pc \in Executing => Here(s).setup = "execute"
  BY <1>0 DEF Sound, Placed
<1> DEFINE Moves(t) ==
      /\ sess' = [sess EXCEPT ![p] = t]
      /\ t \in Session /\ t.pc \in Executing /\ t.page = s.page /\ t.at = s.at
      /\ t.err = s.err
<1>3. ASSUME NEW t, Moves(t), s.pc \in Executing \cup {"look"}, Here(s).setup = "execute",
             Gathered(t), Picked(t), Locked(p)', Quiet(p)',
             writer \in {p, NoProc} \/ writer' = writer, writer' \in {writer, p}
      PROVE  IInv'
  BY <1>1, <1>3, SessionSound
<1>4. CASE LookForComparison(p)
  <2> DEFINE t == [s EXCEPT !.pc = "tax",
                            !.new = IF "comparison" \notin stored THEN {"comparison"} ELSE @]
  <2>1. Here(s).setup = "execute" /\ s.pc = "look"
    BY <1>4 DEF LookForComparison, At, Here
  <2>2. Moves(t)
    BY <1>0, <1>4 DEF LookForComparison, At, Put, Session, PCs, Pieces, Executing
  <2>3. Gathered(t) /\ Picked(t)
    BY <1>0, <2>1 DEF Sound, Gathered, Picked, Executing, Session
  <2>4. s.pick = NoRequest /\ s.new = {}
    BY <1>0, <2>1 DEF Sound, Picked, Gathered, Executing
  <2>5. Locked(p)'
    BY <1>0, <1>4, <2>2, <2>4 DEF Locked, LookForComparison, FlushComparison, TypeOK, Session
  <2>6. Quiet(p)'
    BY <1>0, <1>1, <1>4, <2>2, <2>4
    DEF Sound, Quiet, Complete, LookForComparison, TypeOK, dbVars, requestVars, Session
  <2>7. writer \in {p, NoProc} \/ writer' = writer
    BY <1>4 DEF LookForComparison, FlushComparison, CanWrite
  <2>8. writer' \in {writer, p}
    BY <1>4 DEF LookForComparison, FlushComparison, CanWrite
  <2>9. QED  BY <1>3, <2>1, <2>2, <2>3, <2>5, <2>6, <2>7, <2>8
<1>5. CASE LookForTax(p)
  <2> DEFINE t == [s EXCEPT !.pc = "orders", !.new = @ \cup ({"tax"} \ stored)]
  <2>1. s.pc = "tax"
    BY <1>5 DEF LookForTax
  <2>2. Moves(t)
    BY <1>0, <1>5 DEF LookForTax, Put, Session, PCs, Pieces, Executing
  <2>3. Gathered(t) /\ Picked(t)
    BY <1>0, <2>1 DEF Sound, Gathered, Picked, Executing, Session
  <2>4. Locked(p)'
    BY <1>0, <1>1, <1>5, <2>2 DEF Locked, Sound, LookForTax, TypeOK, Session, dbVars, requestVars
  <2>5. Quiet(p)'
    BY <1>0, <1>1, <1>5, <2>2
    DEF Sound, Quiet, Complete, LookForTax, TypeOK, dbVars, requestVars, Session
  <2>6. QED  BY <1>2, <1>3, <1>5, <2>1, <2>2, <2>3, <2>4, <2>5 DEF LookForTax, Executing
<1>6. CASE LookForOrders(p)
  <2> DEFINE t == [s EXCEPT !.pc = IF OrderStored THEN "fidelity" ELSE "requests"]
  <2>1. s.pc = "orders"
    BY <1>6 DEF LookForOrders
  <2>2. Moves(t)
    BY <1>0, <1>6 DEF LookForOrders, Put, Session, PCs, Executing
  <2>3. Gathered(t) /\ Picked(t)
    BY <1>0, <2>1 DEF Sound, Gathered, Picked, Executing, Session
  <2>4. Locked(p)'
    BY <1>0, <1>1, <1>6, <2>2 DEF Locked, Sound, LookForOrders, TypeOK, Session, dbVars, requestVars
  <2>5. Quiet(p)'
    BY <1>0, <1>1, <1>6, <2>2
    DEF Sound, Quiet, Complete, LookForOrders, OrderStored, TypeOK, dbVars, requestVars, Session
  <2>6. QED  BY <1>2, <1>3, <1>6, <2>1, <2>2, <2>3, <2>4, <2>5 DEF LookForOrders, Executing
<1>7. CASE PickRequest(p)
  <2>1. s.pc = "requests" /\ s.pick = NoRequest /\ ~s.settled
    BY <1>0, <1>7 DEF PickRequest, Sound, Picked, Quiet
  <2>2. CASE Pending = {}
    <3> DEFINE t == [s EXCEPT !.pc = "fidelity"]
    <3>1. Moves(t)
      BY <1>0, <1>7, <2>2 DEF PickRequest, Put, Session, PCs, Executing
    <3>2. Gathered(t) /\ Picked(t)
      BY <1>0, <2>1 DEF Sound, Gathered, Picked, Executing, Session
    <3>3. Locked(p)' /\ Quiet(p)'
      BY <1>0, <1>1, <1>7, <2>1, <3>1
      DEF Locked, Quiet, Sound, PickRequest, TypeOK, Session, dbVars, requestVars
    <3>4. QED  BY <1>2, <1>3, <1>7, <2>1, <3>1, <3>2, <3>3 DEF PickRequest, Executing
  <2>3. CASE Pending # {}
    <3>1. PICK r \in Requests :
             Newest(r) /\ Put(p, [sess[p] EXCEPT !.pc = "approve", !.pick = r])
      BY <1>7, <2>3 DEF PickRequest
    <3> DEFINE t == [s EXCEPT !.pc = "approve", !.pick = r]
    <3>2. status[r] = "pending" /\ r # NoRequest
      BY <3>1, PagesAssumption DEF Newest, Pending
    <3>3. Moves(t)
      BY <1>0, <3>1 DEF Put, Session, PCs, Executing
    <3>4. Gathered(t) /\ Picked(t)
      BY <1>0, <2>1, <3>2 DEF Sound, Gathered, Picked, Executing, Session
    <3>5. Locked(p)' /\ Quiet(p)'
      BY <1>0, <1>1, <1>7, <2>1, <3>2, <3>3
      DEF Locked, Quiet, Sound, PickRequest, TypeOK, Session, dbVars, requestVars
    <3>6. QED  BY <1>2, <1>3, <1>7, <2>1, <3>3, <3>4, <3>5 DEF PickRequest, Executing
  <2>4. QED  BY <2>2, <2>3
<1>8. CASE Approve(p)
  <2> DEFINE t == [s EXCEPT !.pc = "stage", !.stages = Stages(s.pick, "approved")]
  <2>1. s.pc = "approve" /\ s.pick # NoRequest /\ s.pick \in Requests /\ s.dec = "approved"
    BY <1>0, <1>8 DEF Approve, Sound, Picked, Session
  <2>2. Moves(t)
    BY <1>0, <1>8 DEF Approve, Put, Session, PCs, Executing, Stages, Stageable
  <2>3. Gathered(t) /\ Picked(t)
    BY <1>0, <1>8, <2>1
    DEF Approve, Sound, Gathered, Picked, Executing, Session, Stages, Stageable
  <2>4. Locked(p)' /\ Quiet(p)'
    BY <1>0, <1>1, <1>8, <2>1, <2>2
    DEF Locked, Quiet, Sound, Approve, TypeOK, Session, dbVars, requestVars
  <2>5. QED  BY <1>2, <1>3, <1>8, <2>1, <2>2, <2>3, <2>4 DEF Approve, Executing
<1>9. CASE FlushStaging(p)
  <2> DEFINE t == [s EXCEPT !.pc = "fidelity"]
  <2>1. s.pc = "stage" /\ writer \in {p, NoProc} /\ writer' = p
    BY <1>9 DEF FlushStaging, CanWrite
  <2>2. Moves(t)
    BY <1>0, <1>9 DEF FlushStaging, Put, Session, PCs, Executing
  <2>3. Gathered(t) /\ Picked(t)
    BY <1>0, <2>1 DEF Sound, Gathered, Picked, Executing, Session
  <2>4. Locked(p)' /\ Quiet(p)'
    BY <1>0, <1>1, <2>1, <2>2 DEF Locked, Quiet, Sound, TypeOK, Session, dbVars, requestVars
  <2>5. QED  BY <1>2, <1>3, <2>1, <2>2, <2>3, <2>4 DEF Executing
<1>10. CASE LookForFidelity(p)
  <2> DEFINE t == [s EXCEPT !.pc = "commit",
                 !.new = IF "fidelity" \notin stored THEN @ \cup {"fidelity"} ELSE @]
  <2>1. s.pc = "fidelity"
    BY <1>10 DEF LookForFidelity
  <2>2. Moves(t)
    BY <1>0, <1>10 DEF LookForFidelity, Put, Session, PCs, Pieces, Executing
  <2>3. Gathered(t) /\ Picked(t)
    BY <1>0, <2>1 DEF Sound, Gathered, Picked, Executing, Session
  <2>4. Locked(p)'
    BY <1>0, <1>1, <1>10, <2>2
    DEF Locked, Sound, LookForFidelity, CanWrite, TypeOK, Session, dbVars, requestVars
  <2>5. Quiet(p)'
    BY <1>0, <1>1, <1>10, <2>2
    DEF Sound, Quiet, Complete, LookForFidelity, TypeOK, dbVars, requestVars, Session
  <2>6. writer \in {p, NoProc} \/ writer' = writer
    BY <1>10 DEF LookForFidelity, CanWrite
  <2>7. writer' \in {writer, p}
    BY <1>10 DEF LookForFidelity
  <2>8. QED  BY <1>2, <1>3, <2>1, <2>2, <2>3, <2>4, <2>5, <2>6, <2>7 DEF Executing
<1>11. QED  BY <1>4, <1>5, <1>6, <1>7, <1>8, <1>9, <1>10

-----------------------------------------------------------------------------
(* A new request, and what else a step may do to the columns of one.       *)
LEMMA NewRequestKeeps ==
    ASSUME IInv, NEW r \in Requests, NEW subj \in {"run", "report"}, NEW who \in Reviewers,
           NewRequest(r, subj, who), stored \subseteq stored',
           subj = "run" /\ who = "page" => "backtest" \in stored'
    PROVE  /\ Grows /\ \A q \in Requests : Kept(q)'
           /\ status' \in [Requests -> {"absent", "pending", "approved", "rejected"}]
           /\ subject' \in [Requests -> {"run", "report"}]
           /\ trades' \in [Requests -> BOOLEAN]
           /\ author' \in [Requests -> Reviewers]
           /\ UNCHANGED <<signed, orders>>
<1>0. TypeOK /\ \A q \in Requests : Kept(q)
  BY DEF IInv
<1>1. PICK t \in BOOLEAN : trades' = [trades EXCEPT ![r] = t]
  BY DEF NewRequest
<1>2. Grows
  BY <1>0 DEF NewRequest, Grows, TypeOK
<1>3. ASSUME NEW q \in Requests  PROVE  Kept(q)'
  <2>1. CASE q = r
    BY <1>0, <2>1 DEF NewRequest, Kept, TypeOK
  <2>2. CASE q # r
    BY <1>0, <1>1, <2>2 DEF NewRequest, Kept, TypeOK
  <2>3. QED  BY <2>1, <2>2
<1>4. QED  BY <1>0, <1>1, <1>2, <1>3 DEF NewRequest, TypeOK

(* A decision committed by the process that read the request.              *)
LEMMA WriteDecisionKeeps ==
    ASSUME IInv, NEW p \in Procs, NEW who \in Reviewers, WriteDecision(p, who),
           sess[p].pick # NoRequest, sess[p].pc \in {"commit", "decision"},
           who = "page" => sess[p].pc = "commit", stored \subseteq stored'
    PROVE  /\ Grows /\ \A q \in Requests : Kept(q)'
           /\ status' \in [Requests -> {"absent", "pending", "approved", "rejected"}]
           /\ signed' \in [Requests -> SUBSET Reviewers]
           /\ orders' \subseteq Requests
           /\ UNCHANGED <<subject, trades, author>>
<1> DEFINE s == sess[p]
           r == sess[p].pick
<1>0. TypeOK /\ Sound(p) /\ s \in Session /\ \A q \in Requests : Kept(q)
  BY DEF IInv, TypeOK
<1>1. /\ r \in Requests /\ s.dec \in {"approved", "rejected"} /\ status[r] # "absent"
      /\ s.stages => subject[r] = "run" /\ s.dec = "approved"
      /\ who = "page" => s.dec = "approved" /\ (s.stages \/ r \in orders)
  BY <1>0 DEF Session, Sound, Picked
<1>2. /\ status' = [status EXCEPT ![r] = s.dec]
      /\ signed' = [signed EXCEPT ![r] = @ \cup {w \in {who} : s.dec = "approved"}]
      /\ orders' = orders \cup {q \in {r} : s.stages /\ trades[q]}
      /\ UNCHANGED <<subject, trades, author>>
  BY DEF WriteDecision
<1>3. Grows
  BY <1>0, <1>1, <1>2 DEF Grows, TypeOK
<1>4. ASSUME NEW q \in Requests  PROVE  Kept(q)'
  <2>1. CASE q = r
    <3>1. signed'[r] = signed[r] \cup {w \in {who} : s.dec = "approved"}
      BY <1>0, <1>1, <1>2 DEF TypeOK
    <3>2. status'[r] = s.dec
      BY <1>0, <1>1, <1>2 DEF TypeOK
    <3>3. r \in orders' => r \in orders \/ (s.stages /\ trades[r] /\ who \in signed'[r])
      BY <1>1, <1>2, <3>1
    <3>4. "page" \in signed'[r] /\ trades[r] => r \in orders'
      <4>1. CASE "page" \in signed[r]
        BY <1>0, <1>1, <1>2, <4>1 DEF Kept
      <4>2. CASE "page" \notin signed[r]
        BY <1>1, <1>2, <3>1, <4>2
      <4>3. QED  BY <4>1, <4>2
    <3>5. QED  BY <1>0, <1>1, <1>2, <2>1, <3>1, <3>2, <3>3, <3>4 DEF Kept
  <2>2. CASE q # r
    BY <1>0, <1>1, <1>2, <2>2 DEF Kept, TypeOK
  <2>3. QED  BY <2>1, <2>2
<1>5. status' \in [Requests -> {"absent", "pending", "approved", "rejected"}]
  BY <1>0, <1>1, <1>2 DEF TypeOK
<1>6. signed' \in [Requests -> SUBSET Reviewers]
  BY <1>0, <1>1, <1>2 DEF TypeOK
<1>7. orders' \subseteq Requests
  BY <1>0, <1>1, <1>2 DEF TypeOK
<1>8. QED  BY <1>2, <1>3, <1>4, <1>5, <1>6, <1>7

(* The set-ups that write.                                                 *)
LEMMA RefreshKeeps ==
    ASSUME IInv, NEW p \in Procs, Refresh(p)
    PROVE  IInv'
<1>0. TypeOK /\ Sound(p) /\ sess[p] \in Session /\ sess[p].err \in BOOLEAN
  BY DEF IInv, TypeOK, Session
<1>1. Grows /\ \A r \in Requests : Kept(r)'
  BY DEF Refresh, requestVars, Grows, Kept, IInv
<1>2. sess' \in [Procs -> Session] => TypeOK'
  BY <1>0 DEF Refresh, requestVars, TypeOK, Pieces
<1>3. \A u \in Setups : Here(sess[p]).setup = u => Done(u)'
  BY <1>0 DEF Refresh, Sound, Placed, Here, Setups, Done, IngestStored
<1>4. writer \in {p, NoProc} /\ writer' = writer /\ sess[p].pc \in Working
  BY DEF Refresh, CanWrite, Working
<1>5. writer' # p
  BY <1>4, LockIsReleased DEF Refresh, Executing
<1>6. QED  BY <1>0, <1>1, <1>2, <1>3, <1>4, <1>5, OnwardStep DEF Refresh, Put

LEMMA DrawKeeps ==
    ASSUME IInv, NEW p \in Procs, LookForRun(p), LooksForRun
    PROVE  IInv'
<1> DEFINE s == sess[p]
<1>0. TypeOK /\ Sound(p) /\ s \in Session
  BY DEF IInv, TypeOK
<1>1. PICK r \in Requests :
         /\ drawn' = Append(drawn, r)
         /\ Put(p, [sess[p] EXCEPT !.pc = "decide", !.pick = r])
  BY DEF LookForRun
<1> DEFINE t == [sess[p] EXCEPT !.pc = "decide", !.pick = r]
<1>2. s.pc = "look" /\ Here(s).setup = "decide" /\ UNCHANGED <<dbVars, writer>>
  BY DEF LookForRun, At, Here
<1>3. Grows /\ \A q \in Requests : Kept(q)'
  BY <1>2 DEF dbVars, requestVars, Grows, Kept, IInv
<1>4. t \in Session /\ sess' = [sess EXCEPT ![p] = t]
  BY <1>0, <1>1 DEF Session, PCs, Put
<1>5. TypeOK'
  BY <1>0, <1>1, <1>2, <1>4 DEF TypeOK, dbVars, requestVars
<1>6. ~s.settled
  BY <1>0 DEF LooksForRun, RunStored, Sound, Quiet, Complete
<1>7. r # NoRequest
  BY PagesAssumption
<1>8. Truthful(sess[p])'
  <2>1. \A u : Done(u) => Done(u)'
    BY <1>2 DEF dbVars, requestVars, Done, IngestStored, RunStored
  <2>2. QED  BY <1>0, <1>2, <1>4, <2>1 DEF Truthful, Sound, Working, TypeOK
<1>9. Placed(sess[p])' /\ Gathered(sess[p])'
  BY <1>0, <1>2, <1>4
  DEF TypeOK, Sound, Placed, Here, Gathered, Working, Executing, dbVars, requestVars
<1>10. Picked(sess[p])'
  BY <1>0, <1>2, <1>4, <1>7 DEF TypeOK, Sound, Picked, dbVars, requestVars
<1>11. Locked(p)' /\ Quiet(p)'
  BY <1>0, <1>2, <1>4, <1>6 DEF TypeOK, Sound, Gathered, Locked, Quiet, Executing
<1>12. Sound(p)'
  BY <1>8, <1>9, <1>10, <1>11 DEF Sound
<1>13. QED  BY <1>0, <1>2, <1>3, <1>4, <1>5, <1>12, StepSound DEF TypeOK, dbVars, requestVars

LEMMA DecideKeeps ==
    ASSUME IInv, NEW p \in Procs, Decide(p)
    PROVE  IInv'
<1> DEFINE s == sess[p]
<1>0. TypeOK /\ Sound(p) /\ s \in Session /\ s.err \in BOOLEAN
  BY DEF IInv, TypeOK, Session
<1>1. s.pc = "decide" /\ s.pick \in Requests
  BY <1>0 DEF Decide, Sound, Picked, Session
<1>2. stored' = stored \cup {"backtest"}
  BY DEF Decide, BacktestsDue
<1>3. /\ Grows /\ \A q \in Requests : Kept(q)'
      /\ status' \in [Requests -> {"absent", "pending", "approved", "rejected"}]
      /\ subject' \in [Requests -> {"run", "report"}]
      /\ trades' \in [Requests -> BOOLEAN]
      /\ author' \in [Requests -> Reviewers]
      /\ UNCHANGED <<signed, orders>>
  BY <1>1, <1>2, NewRequestKeeps DEF Decide, Reviewers
<1>4. sess' \in [Procs -> Session] => TypeOK'
  BY <1>0, <1>2, <1>3 DEF Decide, TypeOK, Pieces
<1>5. status'[s.pick] = "pending" /\ subject'[s.pick] = "run"
  BY <1>0, <1>1 DEF Decide, NewRequest, TypeOK
<1>6. \A u \in Setups : Here(s).setup = u => Done(u)'
  BY <1>0, <1>1, <1>2, <1>5 DEF Sound, Placed, Here, Setups, Done, RunStored
<1>7. writer \in {p, NoProc} /\ writer' = writer /\ s.pc \in Working
  BY <1>1 DEF Decide, CanWrite, Working
<1>8. writer' # p
  BY <1>1, <1>7, LockIsReleased DEF Decide, Executing
<1>9. QED  BY <1>0, <1>3, <1>4, <1>6, <1>7, <1>8, OnwardStep DEF Decide, Put

LEMMA CommitKeeps ==
    ASSUME IInv, NEW p \in Procs, CommitExecute(p)
    PROVE  IInv'
<1> DEFINE s == sess[p]
<1>0. /\ TypeOK /\ Sound(p) /\ s \in Session /\ s.err \in BOOLEAN /\ s.new \subseteq Pieces
      /\ s.pc = "commit"
  BY DEF IInv, TypeOK, Session, CommitExecute
<1>1. stored' = stored \cup s.new /\ stored' \subseteq Pieces
  BY <1>0 DEF CommitExecute, TypeOK
<1>2. /\ Grows /\ \A q \in Requests : Kept(q)'
      /\ sess' \in [Procs -> Session] => TypeOK'
  <2>1. CASE s.pick = NoRequest
    BY <1>0, <1>1, <2>1
    DEF CommitExecute, Release, requestVars, Grows, Kept, IInv, TypeOK
  <2>2. CASE s.pick # NoRequest
    <3>1. WriteDecision(p, "page")
      BY <2>2 DEF CommitExecute
    <3>2. /\ Grows /\ \A q \in Requests : Kept(q)'
          /\ status' \in [Requests -> {"absent", "pending", "approved", "rejected"}]
          /\ signed' \in [Requests -> SUBSET Reviewers]
          /\ orders' \subseteq Requests
          /\ UNCHANGED <<subject, trades, author>>
      BY <1>0, <1>1, <2>2, <3>1, WriteDecisionKeeps DEF Reviewers
    <3>3. writer' \in {writer, NoProc} /\ UNCHANGED drawn
      BY DEF CommitExecute, Release
    <3>4. QED  BY <1>0, <1>1, <3>2, <3>3 DEF TypeOK
  <2>3. QED  BY <2>1, <2>2
<1>3. \A u \in Setups : Here(s).setup = u => Done(u)'
  BY <1>0, <1>1 DEF Sound, Placed, Gathered, Executing, Setups, Done
<1>4. writer \in {p, NoProc} \/ UNCHANGED <<status, writer>>
  BY PagesAssumption DEF CommitExecute, CanWrite, Release, requestVars
<1>5. writer' \in {writer, NoProc} /\ s.pc \in Working
  BY <1>0 DEF CommitExecute, Release, Working, Executing
<1>6. writer' # p
  BY LockIsReleased DEF CommitExecute
<1>7. QED  BY <1>0, <1>2, <1>3, <1>4, <1>5, <1>6, OnwardStep DEF CommitExecute, Put

-----------------------------------------------------------------------------
(* A process that leaves off, or opens a page or a request to decide.      *)
LEMMA RestSound ==
    ASSUME IInv, Grows, TypeOK', \A q \in Requests : Kept(q)', NEW p \in Procs,
           NEW t \in Session, sess' = [sess EXCEPT ![p] = t],
           t.pc \in {"idle", "decision", "look"}, t.at = 1, t.new = {},
           t.settled => t.pc = "look" /\ Complete,
           t.pc # "decision" => Idle.pick = t.pick /\ t.dec = "approved" /\ ~t.stages,
           t.pc = "decision" =>
               /\ t.pick \in Requests /\ status[t.pick] # "absent"
               /\ t.stages => subject[t.pick] = "run" /\ t.dec = "approved",
           writer \in {p, NoProc} \/ UNCHANGED <<status, writer>>,
           writer' = writer, writer # p
    PROVE  IInv'
<1>0. sess'[p] = t /\ t.page \in DOMAIN Pages /\ TypeOK
  BY DEF IInv, TypeOK, Session
<1>1. Shape(Pages[t.page])
  BY <1>0, PagesShape
<1>2. Placed(sess[p])' /\ Truthful(sess[p])'
  <2>1. 1 <= Len(Pages[t.page]) /\ \A i \in DOMAIN Pages[t.page] : ~(i < 1)
    <3>1. ASSUME NEW q, Shape(q)
          PROVE  1 <= Len(q) /\ \A i \in DOMAIN q : ~(i < 1)
      BY <3>1 DEF Shape
    <3>2. QED  BY <1>1, <3>1
  <2>2. Placed(sess[p])'
    BY <1>0, <2>1 DEF Placed, Working, Executing
  <2>3. \A i \in DOMAIN Pages[sess'[p].page] : ~(i < sess'[p].at)
    BY <1>0, <2>1
  <2>4. Truthful(sess[p])'
    BY <2>3 DEF Truthful
  <2>5. QED  BY <2>2, <2>4
<1>3. Gathered(sess[p])' /\ Locked(p)'
  BY <1>0 DEF Gathered, Locked, Executing
<1>4. Picked(sess[p])'
  BY <1>0, PagesAssumption DEF Picked, Idle, Grows
<1>5. Quiet(p)'
  BY <1>0 DEF Quiet, Complete, Grows, Idle
<1>6. Sound(p)'
  BY <1>2, <1>3, <1>4, <1>5 DEF Sound
<1>7. QED  BY <1>0, <1>6, StepSound DEF TypeOK

LEMMA RestKeeps ==
    ASSUME IInv, NEW p \in Procs,
           \/ \E page \in Visited : Open(p, page)
           \/ Answer(p)
           \/ \E r \in Requests, dec \in {"approved", "rejected"} : LoadForDecision(p, r, dec)
           \/ DecisionFails(p)
    PROVE  IInv'
<1>0. TypeOK /\ Sound(p) /\ sess[p] \in Session
  BY DEF IInv, TypeOK
<1>1. UNCHANGED <<dbVars, drawn, writer>> /\ sess[p].pc \in {"idle", "answered", "decision"}
  BY DEF Open, Answer, LoadForDecision, DecisionFails
<1>2. Grows /\ \A q \in Requests : Kept(q)'
  BY <1>1 DEF dbVars, requestVars, Grows, Kept, IInv
<1>3. Idle \in Session
  BY DEF Idle, Session, PCs, MaxSetups, Pages
<1>4. ASSUME NEW t \in Session, Put(p, t)  PROVE  TypeOK'
  BY <1>0, <1>1, <1>4 DEF Put, TypeOK, dbVars, requestVars
<1>4a. writer # p
  BY <1>0, <1>1 DEF Sound, Locked, Executing
<1>5. ASSUME NEW page \in Visited, Open(p, page)  PROVE  IInv'
  <2> DEFINE t == [Idle EXCEPT !.pc = "look", !.page = page, !.settled = Settled]
  <2>1. page \in DOMAIN Pages
    BY PagesAssumption DEF Pages
  <2>2. Settled \in BOOLEAN
    BY DEF Settled
  <2>3. t \in Session
    BY <1>3, <2>1, <2>2 DEF Session, PCs, Idle
  <2>4. sess' = [sess EXCEPT ![p] = t] /\ Put(p, t)
    BY <1>5 DEF Open, Put
  <2>5. TypeOK'
    BY <1>4, <2>3, <2>4
  <2>6. Settled => Complete
    BY DEF Settled, Complete, OrderStored
  <2>7. /\ t.pc = "look" /\ t.at = 1 /\ t.new = {} /\ t.settled = Settled
        /\ t.pick = Idle.pick /\ t.dec = "approved" /\ ~t.stages
    BY DEF Idle
  <2>9. QED  BY <1>1, <1>2, <2>3, <2>4, <2>5, <2>6, <2>7, <1>4a, RestSound
             DEF dbVars, requestVars
<1>6. ASSUME NEW r \in Requests, NEW dec \in {"approved", "rejected"}, LoadForDecision(p, r, dec)
      PROVE  IInv'
  <2> DEFINE t == [Idle EXCEPT !.pc = "decision", !.pick = r, !.dec = dec,
                               !.stages = Stages(r, dec)]
  <2>1. Stages(r, dec) \in BOOLEAN
    BY DEF Stages
  <2>2. t \in Session
    BY <1>3, <2>1 DEF Session, PCs, Idle
  <2>3. sess' = [sess EXCEPT ![p] = t] /\ Put(p, t)
    BY <1>6 DEF LoadForDecision, Put
  <2>4. TypeOK'
    BY <1>4, <2>2, <2>3
  <2>5. /\ t.pc = "decision" /\ t.at = 1 /\ t.new = {} /\ ~t.settled
        /\ t.pick = r /\ t.dec = dec /\ t.stages = Stages(r, dec)
    BY DEF Idle
  <2>6. status[r] # "absent" /\ (Stages(r, dec) => subject[r] = "run" /\ dec = "approved")
    BY <1>6 DEF LoadForDecision, Stages, Stageable
  <2>7. QED  BY <1>1, <1>2, <2>2, <2>3, <2>4, <2>5, <2>6, <1>4a, RestSound DEF dbVars, requestVars
<1>7. ASSUME Put(p, Idle)  PROVE  IInv'
  <2>1. TypeOK' /\ sess' = [sess EXCEPT ![p] = Idle]
    BY <1>3, <1>4, <1>7 DEF Put
  <2>2. /\ Idle.pc = "idle" /\ Idle.at = 1 /\ Idle.new = {} /\ ~Idle.settled
        /\ Idle.dec = "approved" /\ ~Idle.stages
    BY DEF Idle
  <2>3. QED  BY <1>1, <1>2, <1>3, <2>1, <2>2, <1>4a, RestSound DEF dbVars, requestVars
<1>8. QED  BY <1>5, <1>6, <1>7 DEF Answer, DecisionFails

-----------------------------------------------------------------------------
(* An advisor's commands.                                                  *)
LEMMA HandsKeep ==
    ASSUME IInv, NEW p \in Procs,
           \/ \E r \in Requests, subj \in {"run", "report"} : RequestByHand(p, r, subj)
           \/ \E k \in Pieces : StoreByHand(p, k)
    PROVE  IInv'
<1>0. TypeOK /\ Sound(p) /\ sess[p].pc = "idle" /\ writer = NoProc /\ UNCHANGED <<writer, sess>>
  BY DEF IInv, RequestByHand, StoreByHand
<1>1. Grows /\ TypeOK' /\ \A q \in Requests : Kept(q)'
  <2>1. ASSUME NEW r \in Requests, NEW subj \in {"run", "report"}, RequestByHand(p, r, subj)
        PROVE  Grows /\ TypeOK' /\ \A q \in Requests : Kept(q)'
    <3>1. /\ Grows /\ \A q \in Requests : Kept(q)'
          /\ status' \in [Requests -> {"absent", "pending", "approved", "rejected"}]
          /\ subject' \in [Requests -> {"run", "report"}]
          /\ trades' \in [Requests -> BOOLEAN]
          /\ author' \in [Requests -> Reviewers]
          /\ UNCHANGED <<signed, orders>>
      BY <2>1, NewRequestKeeps DEF RequestByHand, Reviewers
    <3>2. QED  BY <1>0, <2>1, <3>1 DEF RequestByHand, TypeOK
  <2>2. ASSUME NEW k \in Pieces, StoreByHand(p, k)
        PROVE  Grows /\ TypeOK' /\ \A q \in Requests : Kept(q)'
    BY <1>0, <2>2 DEF StoreByHand, requestVars, Grows, Kept, IInv, TypeOK
  <2>3. QED  BY <2>1, <2>2
<1>2. ASSUME NEW q \in Procs  PROVE  Sound(q)'
  <2>1. writer # q /\ writer' # q
    BY <1>0, PagesAssumption
  <2>2. QED  BY <1>0, <1>1, <2>1, OthersSound
<1>3. QED  BY <1>1, <1>2 DEF IInv

LEMMA DecisionKeeps ==
    ASSUME IInv, NEW p \in Procs, CommitDecision(p)
    PROVE  IInv'
<1>0. TypeOK /\ Sound(p) /\ sess[p].pc = "decision" /\ sess[p].pick # NoRequest
  BY DEF IInv, Sound, Picked, CommitDecision
<1>1. /\ Grows /\ \A q \in Requests : Kept(q)'
      /\ status' \in [Requests -> {"absent", "pending", "approved", "rejected"}]
      /\ signed' \in [Requests -> SUBSET Reviewers]
      /\ orders' \subseteq Requests
      /\ UNCHANGED <<subject, trades, author>>
  BY <1>0, WriteDecisionKeeps DEF CommitDecision, Reviewers
<1>2. Idle \in Session
  BY DEF Idle, Session, PCs, MaxSetups, Pages
<1>3. TypeOK' /\ sess' = [sess EXCEPT ![p] = Idle]
  BY <1>0, <1>1, <1>2 DEF CommitDecision, Put, TypeOK
<1>4. /\ Idle.pc = "idle" /\ Idle.at = 1 /\ Idle.new = {} /\ ~Idle.settled
      /\ Idle.dec = "approved" /\ ~Idle.stages
  BY DEF Idle
<1>5. writer # p /\ writer' = writer /\ writer \in {p, NoProc}
  BY <1>0 DEF Sound, Locked, Executing, CommitDecision, CanWrite
<1>6. QED  BY <1>1, <1>2, <1>3, <1>4, <1>5, RestSound

-----------------------------------------------------------------------------
LEMMA InitSound == Init => IInv
<1> SUFFICES ASSUME Init  PROVE  IInv
  OBVIOUS
<1>1. Idle \in Session
  BY DEF Idle, Session, PCs, MaxSetups, Pages
<1>2. TypeOK
  BY <1>1 DEF Init, TypeOK, Reviewers
<1>3. ASSUME NEW p \in Procs  PROVE  Sound(p)
  <2>1. sess[p] = Idle /\ writer # p
    BY PagesAssumption DEF Init
  <2>2. QED  BY <2>1 DEF Idle, Sound, Placed, Truthful, Gathered, Picked, Locked, Quiet,
                         Working, Executing
<1>4. ASSUME NEW r \in Requests  PROVE  Kept(r)
  BY DEF Init, Kept
<1>5. QED  BY <1>2, <1>3, <1>4 DEF IInv

LEMMA StepKeeps == IInv /\ [Next]_vars => IInv'
<1> SUFFICES ASSUME IInv, [Next]_vars  PROVE  IInv'
  OBVIOUS
<1>1. CASE UNCHANGED vars
  <2>1. Grows /\ TypeOK' /\ \A r \in Requests : Kept(r)'
    BY <1>1 DEF vars, dbVars, requestVars, IInv, Kept, TypeOK, Grows
  <2>2. ASSUME NEW p \in Procs  PROVE  Sound(p)'
    BY <1>1, <2>1, OthersSound DEF vars, dbVars, requestVars
  <2>3. QED  BY <2>1, <2>2 DEF IInv
<1>2. ASSUME NEW p \in Procs, PageNext(p)  PROVE  IInv'
  <2>1. CASE LookForRun(p)
    <3>1. CASE LooksForRun
      BY <2>1, <3>1, DrawKeeps
    <3>2. CASE ~LooksForRun
      BY <2>1, <3>2, LooksKeep DEF LookForRun
    <3>3. QED  BY <3>1, <3>2
  <2>2. CASE ~LookForRun(p)
    BY <1>2, <2>2, LooksKeep, RefreshKeeps, DecideKeeps, ExecuteKeeps, CommitKeeps, RestKeeps
    DEF PageNext
  <2>3. QED  BY <2>1, <2>2
<1>3. ASSUME NEW p \in Procs, AdvisorNext(p)  PROVE  IInv'
  BY <1>3, HandsKeep, RestKeeps, DecisionKeeps DEF AdvisorNext
<1>4. QED  BY <1>1, <1>2, <1>3 DEF Next

LEMMA Invariance == Spec => []IInv
BY InitSound, StepKeeps, PTL DEF Spec

(* Every variable keeps its type (the columns the set-ups and commands     *)
(* write).                                                                 *)
THEOREM TypeCorrect == Spec => []TypeOK
BY Invariance, PTL DEF IInv

(* A page that shows no failure of its own set-ups has the demo data those *)
(* set-ups are for, whatever its other loaders swallowed.                  *)
THEOREM CleanPages == Spec => []CleanPageHasItsDemo
<1>1. IInv => CleanPageHasItsDemo
  <2> SUFFICES ASSUME IInv, NEW p \in Procs, sess[p].pc = "answered", ~sess[p].err,
                      NEW i \in DOMAIN Pages[sess[p].page], Pages[sess[p].page][i].shown
               PROVE  Done(Pages[sess[p].page][i].setup)
    BY DEF CleanPageHasItsDemo
  <2>1. Sound(p) /\ sess[p].page \in DOMAIN Pages /\ sess[p].at \in 1..5
    BY DEF IInv, TypeOK, Session, MaxSetups
  <2>2. Shape(Pages[sess[p].page])
    BY <2>1, PagesShape
  <2>3. i < sess[p].at
    <3>1. i <= Len(Pages[sess[p].page]) /\ i \in Nat /\ Len(Pages[sess[p].page]) \in Nat
      BY <2>2 DEF Shape
    <3>2. QED  BY <2>1, <3>1 DEF Sound, Placed
  <2>4. QED  BY <2>1, <2>3 DEF Sound, Truthful, Working
<1>2. QED  BY Invariance, <1>1, PTL

(* Orders come only from a recorded sign-off of a run, and a page's        *)
(* sign-off is staged in its own commit.                                   *)
THEOREM OrdersBacked == Spec => []OrdersAreBacked
<1>1. IInv => OrdersAreBacked
  BY DEF IInv, Kept, OrdersAreBacked
<1>2. QED  BY Invariance, <1>1, PTL

(* A page opened on a complete demo comes to no write.                     *)
THEOREM SettledPages == Spec => []SettledPagesAreQuiet
<1>1. IInv => SettledPagesAreQuiet
  BY DEF IInv, Sound, Quiet, SettledPagesAreQuiet
<1>2. QED  BY Invariance, <1>1, PTL

(* The page that first stores the comparison signs off only a request that *)
(* is pending when it commits.                                             *)
THEOREM FirstPage == Spec => FirstPageDecidesOnlyPending
<1> DEFINE A == \A r \in Requests :
                  /\ "page" \in signed'[r] \ signed[r]
                  /\ "comparison" \in stored' \ stored
                  => status[r] = "pending"
<1>1. IInv /\ [Next]_vars => A
  <2> SUFFICES ASSUME IInv, [Next]_vars, NEW r \in Requests,
                      "page" \in signed'[r] \ signed[r], "comparison" \in stored' \ stored
               PROVE  status[r] = "pending"
    OBVIOUS
  <2>1. PICK p \in Procs : CommitExecute(p)
    <3>1. Next
      BY DEF vars, dbVars
    <3>2. PICK p \in Procs : PageNext(p) \/ AdvisorNext(p)
      BY <3>1 DEF Next
    <3>3. CASE PageNext(p)
      <4>1. ~Refresh(p) /\ ~Decide(p)
        BY DEF Refresh, Decide, BacktestsDue
      <4>2. ~\E page \in Visited : Open(p, page)
        BY DEF Open, dbVars
      <4>3. ~LookForIngest(p) /\ ~LookForRun(p) /\ ~SetupFails(p) /\ ~Answer(p)
        BY DEF LookForIngest, LookForRun, SetupFails, Answer, dbVars
      <4>4. ~LookForComparison(p) /\ ~LookForTax(p) /\ ~LookForOrders(p) /\ ~PickRequest(p)
        BY DEF LookForComparison, LookForTax, LookForOrders, PickRequest, dbVars
      <4>5. ~Approve(p) /\ ~FlushStaging(p) /\ ~LookForFidelity(p)
        BY DEF Approve, FlushStaging, LookForFidelity, dbVars
      <4>6. QED  BY <3>3, <4>1, <4>2, <4>3, <4>4, <4>5 DEF PageNext
    <3>4. CASE AdvisorNext(p)
      <4>1. UNCHANGED stored \/ UNCHANGED signed
        BY <3>4 DEF AdvisorNext, RequestByHand, StoreByHand, LoadForDecision, CommitDecision,
                    DecisionFails, dbVars, requestVars
      <4>2. QED  BY <4>1
    <3>5. QED  BY <3>2, <3>3, <3>4
  <2>2. TypeOK /\ Sound(p) /\ "comparison" \in sess[p].new
    BY <2>1 DEF CommitExecute, IInv
  <2>3. sess[p].pick # NoRequest /\ WriteDecision(p, "page")
    BY <2>1 DEF CommitExecute, requestVars
  <2>4. r = sess[p].pick
    BY <2>2, <2>3 DEF WriteDecision, TypeOK
  <2>5. QED  BY <2>2, <2>3, <2>4 DEF Sound, Locked
<1>2. QED  BY Invariance, <1>1, PTL DEF Spec, FirstPageDecidesOnlyPending
=============================================================================
