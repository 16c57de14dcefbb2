----------------------------- MODULE Seeds_proofs -----------------------------
(***************************************************************************)
(* Proofs about what fills a database: the seeding of the demo data        *)
(* (Bootstrap), for any processes, demo data and order of checks that      *)
(* SeedAssumption admits, and the generator of synthetic households        *)
(* (SyntheticHouseholds), for every seed, however finely its weights are   *)
(* drawn.  The two specifications share no state.                          *)
(***************************************************************************)
EXTENDS Bootstrap, SyntheticHouseholds, TLAPS

-----------------------------------------------------------------------------
(* Bootstrap.                                                              *)

SeedPcs == {"check", "policy", "commit"}

Seeding ==
    [pc : SeedPcs, after : SUBSET {"meta", "seed"},
     full : BOOLEAN, at : 1..(Len(Checks) + 1), adds : SUBSET Rows,
     links : SUBSET Edges, write : {"nothing", "delete", "insert"}]

(* How far a session is, and what a full seed set out with.                *)
Position(s, have) ==
    /\ s.pc = "check" => s.at \in 1..Len(Checks) /\ (s.full => s.at = 1)
    /\ s.pc = "policy" => s.at = 2
    /\ s.pc = "commit" => s.at = IF s.full THEN 2 ELSE Len(Checks) + 1
    /\ s.full => Rows \ {Checks[1].probe} \subseteq s.adds /\ s.links = Edges
    /\ ~s.full => Household \in have

(* Whatever the checks behind it looked for is there or will be added.     *)
LookedFor(s, have) ==
    \A i \in DOMAIN Checks :
        i < s.at /\ Checks[i].probe \in Rows => Checks[i].probe \in have \cup s.adds

(* A relationship is added with its row, and a row with its relationships  *)
(* unless a later check adds those or somebody else committed the row.     *)
Paired(s, have) ==
    /\ \A e \in s.links : Guard[e] \in s.adds
    /\ \A e \in Edges : Guard[e] \in s.adds =>
          \/ e \in s.links
          \/ Guard[e] \in have
          \/ s.pc # "commit" /\ \E j \in DOMAIN Checks : j >= s.at /\ e \in Checks[j].edges

Sound(s, have) ==
    s.pc \in SeedPcs => Position(s, have) /\ LookedFor(s, have) /\ Paired(s, have)

SoundInv == \A p \in Procs : Sound(sess[p], rows)

(* Migration 005 apart, a policy is stored once and stays.                 *)
PolicyInv ==
    ~Legacy =>
        /\ policy \in {"none", "current"}
        /\ \A p \in Procs : sess[p].pc \in SeedPcs =>
              /\ sess[p].write # "delete"
              /\ sess[p].pc # "policy" /\ sess[p].at > 1 /\ sess[p].write = "nothing"
                     => policy = "current"

(* What a session knew to be settled still is.                             *)
AfterInv ==
    \A p \in Procs : sess[p] # Idle => sess[p].after \subseteq settled

(* A seed after another one finds nothing to do.                           *)
NothingInv ==
    ~Legacy => \A p \in Procs :
        sess[p].pc \in SeedPcs /\ "seed" \in sess[p].after =>
            sess[p].adds = {} /\ sess[p].links = {} /\ sess[p].write = "nothing"

MetaInv ==
    /\ "meta" \in settled => meta > 0
    /\ \A p \in Procs : sess[p].pc = "record" =>
          /\ ~sess[p].insert => meta > 0
          /\ "meta" \in sess[p].after => ~sess[p].insert

CompleteInv == ~Legacy => SeedIsComplete

(* The inductive invariant.                                                *)
IInv ==
    /\ TypeOK
    /\ SoundInv
    /\ LinkedOnce
    /\ PolicyInv
    /\ AfterInv
    /\ NothingInv
    /\ MetaInv
    /\ CompleteInv

-----------------------------------------------------------------------------
(* What SeedAssumption says, in pieces.                                    *)
LEMMA ChecksShape ==
    /\ Len(Checks) \in Nat /\ Len(Checks) > 1
    /\ DOMAIN Checks = 1..Len(Checks)
    /\ \A i \in 1..Len(Checks) :
          Checks[i].probe \in Rows \cup Edges /\ Checks[i].edges \in SUBSET Edges
    /\ Guard \in [Edges -> Rows]
    /\ Rows \cap Edges = {}
    /\ Household \in Rows
<1> DEFINE Check == [probe : Rows \cup Edges, edges : SUBSET Edges]
<1>1. Checks \in Seq(Check)
      BY SeedAssumption
<1>2. /\ Len(Checks) \in Nat
      /\ DOMAIN Checks = 1..Len(Checks)
      /\ \A i \in 1..Len(Checks) : Checks[i] \in Check
  <2> HIDE DEF Check
  <2> QED BY <1>1
<1>3. /\ Guard \in [Edges -> Rows]
      /\ Rows \cap Edges = {}
      /\ Household \in Rows
      /\ Len(Checks) > 1
      BY SeedAssumption
<1> QED BY <1>2, <1>3

LEMMA SeedingFields ==
    ASSUME NEW s \in Seeding
    PROVE  /\ s.pc \in SeedPcs
           /\ s.after \in SUBSET {"meta", "seed"}
           /\ s.full \in BOOLEAN
           /\ s.at \in 1..(Len(Checks) + 1)
           /\ s.adds \in SUBSET Rows
           /\ s.links \in SUBSET Edges
           /\ s.write \in {"nothing", "delete", "insert"}
    BY DEF Seeding

LEMMA SessionShapes ==
    ASSUME NEW s \in Session
    PROVE  /\ s.pc = "idle" => s = Idle
           /\ s = Idle => s.pc = "idle"
           /\ s # Idle => s.after \in SUBSET {"meta", "seed"}
           /\ s.pc \in {"meta", "household", "record"} => s.cmd \in Commands
           /\ s.pc = "record" => s.insert \in BOOLEAN
           /\ s.pc \in SeedPcs => s \in Seeding
           /\ s.pc \in {"idle", "meta", "household", "record"} \cup SeedPcs
    BY DEF Session, Idle, Seeding, SeedPcs

LEMMA SeedingIsSession == Seeding \subseteq Session
    BY DEF Seeding, SeedPcs, Session

LEMMA GotoEffect ==
    ASSUME sess \in [Procs -> Session], NEW p \in Procs, NEW x \in Session, Goto(p, x)
    PROVE  /\ sess' \in [Procs -> Session]
           /\ sess'[p] = x
           /\ \A q \in Procs : q # p => sess'[q] = sess[q]
    BY DEF Goto

(* More rows in the database make no session unsound.                      *)
LEMMA SoundStays ==
    ASSUME NEW s, NEW have, NEW more, have \subseteq more, Sound(s, have)
    PROVE  Sound(s, more)
    BY DEF Sound, Position, LookedFor, Paired

-----------------------------------------------------------------------------
(* What an action leaves of the invariant when p goes to x and the         *)
(* database only grows: enough to say about x.                             *)
LEMMA StepInv ==
    ASSUME IInv, NEW p \in Procs, NEW x \in Session, Goto(p, x),
           rows \subseteq rows', rows' \subseteq Rows,
           edges' \in [Edges -> Nat],
           policy' \in {"none", "legacy", "current"},
           meta' \in Nat, meta' >= meta,
           settled \subseteq settled', settled' \subseteq {"meta", "seed"},
           "meta" \in settled' => meta' > 0,
           ~Legacy => /\ policy = "current" => policy' = "current"
                      /\ policy' # "legacy"
                      /\ SeedIsComplete',
           LinkedOnce',
           x # Idle => x.after \subseteq settled',
           Sound(x, rows'),
           x.pc = "record" => /\ ~x.insert => meta' > 0
                              /\ "meta" \in x.after => ~x.insert,
           ~Legacy /\ x.pc \in SeedPcs =>
               /\ x.write # "delete"
               /\ x.pc # "policy" /\ x.at > 1 /\ x.write = "nothing" => policy' = "current"
               /\ "seed" \in x.after => x.adds = {} /\ x.links = {} /\ x.write = "nothing"
    PROVE  IInv'
<1>1. /\ sess \in [Procs -> Session] /\ rows \subseteq Rows /\ meta \in Nat
      BY DEF IInv, TypeOK
<1>2. /\ sess' \in [Procs -> Session]
      /\ sess'[p] = x
      /\ \A q \in Procs : q # p => sess'[q] = sess[q]
      BY <1>1, GotoEffect
<1>3. TypeOK'
      BY <1>2 DEF TypeOK
<1>4. SoundInv'
  <2>1. SUFFICES ASSUME NEW q \in Procs
                 PROVE  Sound(sess'[q], rows')
        BY DEF SoundInv
  <2>2. CASE q = p
        BY <1>2, <2>2
  <2>3. CASE q # p
    <3>1. Sound(sess[q], rows)
          BY DEF IInv, SoundInv
    <3>2. Sound(sess[q], rows')
          BY <3>1, SoundStays
    <3> QED BY <1>2, <2>3, <3>2
  <2> QED BY <2>2, <2>3
<1>5. PolicyInv'
  <2>1. SUFFICES ASSUME ~Legacy
                 PROVE  /\ policy' \in {"none", "current"}
                        /\ \A q \in Procs : sess'[q].pc \in SeedPcs =>
                              /\ sess'[q].write # "delete"
                              /\ sess'[q].pc # "policy" /\ sess'[q].at > 1
                                   /\ sess'[q].write = "nothing" => policy' = "current"
        BY DEF PolicyInv
  <2>2. policy' \in {"none", "current"}
        BY <2>1
  <2>3. ASSUME NEW q \in Procs, sess'[q].pc \in SeedPcs
        PROVE  /\ sess'[q].write # "delete"
               /\ sess'[q].pc # "policy" /\ sess'[q].at > 1
                     /\ sess'[q].write = "nothing" => policy' = "current"
    <3>1. CASE q = p
          BY <1>2, <2>1, <2>3, <3>1
    <3>2. CASE q # p
      <4>1. sess'[q] = sess[q]
            BY <1>2, <3>2
      <4>2. /\ sess[q].write # "delete"
            /\ sess[q].pc # "policy" /\ sess[q].at > 1 /\ sess[q].write = "nothing"
                  => policy = "current"
            BY <2>1, <2>3, <4>1 DEF IInv, PolicyInv
      <4> QED BY <2>1, <4>1, <4>2
    <3> QED BY <3>1, <3>2
  <2> QED BY <2>2, <2>3
<1>6. AfterInv'
      BY <1>2 DEF IInv, AfterInv
<1>7. NothingInv'
      BY <1>2 DEF IInv, NothingInv
<1>8. MetaInv'
  <2>1. ASSUME NEW q \in Procs, sess'[q].pc = "record"
        PROVE  /\ ~sess'[q].insert => meta' > 0
               /\ "meta" \in sess'[q].after => ~sess'[q].insert
    <3>1. CASE q = p
          BY <1>2, <2>1, <3>1
    <3>2. CASE q # p
      <4>1. sess'[q] = sess[q]
            BY <1>2, <3>2
      <4>2. /\ ~sess[q].insert => meta > 0
            /\ "meta" \in sess[q].after => ~sess[q].insert
            BY <2>1, <4>1 DEF IInv, MetaInv
      <4> QED BY <1>1, <4>1, <4>2
    <3> QED BY <3>1, <3>2
  <2> QED BY <2>1 DEF MetaInv
<1> QED BY <1>3, <1>4, <1>5, <1>6, <1>7, <1>8 DEF IInv, CompleteInv

-----------------------------------------------------------------------------
LEMMA InitInv == Init => IInv
<1> SUFFICES ASSUME Init PROVE IInv
    OBVIOUS
<1>1. \A p \in Procs : sess[p] = Idle
      BY DEF Init
<1>2. Idle \in Session /\ Idle.pc = "idle"
      BY DEF Idle, Session
<1>3. rows \subseteq Rows /\ (rows = {} \/ Household \in rows)
      BY SeedAssumption DEF Init
<1>4. TypeOK
      BY <1>2, <1>3 DEF Init, TypeOK
<1>5. LinkedOnce
      BY DEF Init, LinkedOnce
<1>6. SoundInv /\ AfterInv /\ NothingInv /\ MetaInv
      BY <1>1, <1>2 DEF Init, SoundInv, Sound, AfterInv, NothingInv, MetaInv, SeedPcs
<1>7. PolicyInv
      BY <1>1, <1>2 DEF Init, PolicyInv, SeedPcs
<1>8. CompleteInv
      BY DEF Init, CompleteInv, SeedIsComplete
<1> QED BY <1>4, <1>5, <1>6, <1>7, <1>8 DEF IInv

(* A step that leaves the database alone keeps what is about it.           *)
LEMMA DatabaseAlone ==
    ASSUME IInv, UNCHANGED <<db, meta, settled>>
    PROVE  /\ rows' = rows /\ rows \subseteq Rows
           /\ edges' \in [Edges -> Nat]
           /\ policy' \in {"none", "legacy", "current"}
           /\ meta' = meta /\ meta \in Nat
           /\ settled' = settled /\ settled' \subseteq {"meta", "seed"}
           /\ "meta" \in settled' => meta' > 0
           /\ LinkedOnce'
           /\ ~Legacy => /\ policy = "current" => policy' = "current"
                         /\ policy' # "legacy"
                         /\ SeedIsComplete'
<1>1. /\ rows' = rows /\ edges' = edges /\ policy' = policy
      /\ meta' = meta /\ settled' = settled
      BY DEF db
<1>2. LinkedOnce'
      BY <1>1 DEF IInv, LinkedOnce
<1>3. SeedIsComplete' <=> SeedIsComplete
      BY <1>1 DEF SeedIsComplete
<1> QED BY <1>1, <1>2, <1>3 DEF IInv, TypeOK, MetaInv, PolicyInv, CompleteInv

(* Where a session is, and what it knows, by its pc.                       *)
LEMMA SessionOf ==
    ASSUME IInv, NEW p \in Procs
    PROVE  /\ sess[p] \in Session
           /\ Sound(sess[p], rows)
           /\ sess[p] # Idle => sess[p].after \subseteq settled
    BY DEF IInv, TypeOK, SoundInv, AfterInv

LEMMA IdleInv ==
    ASSUME IInv, NEW p \in Procs, Goto(p, Idle), UNCHANGED <<db, meta, settled>>
    PROVE  IInv'
<1> DEFINE x == Idle
<1>1. x \in Session /\ x.pc = "idle" /\ x = Idle /\ Goto(p, x)
      BY DEF Idle, Session
<1> HIDE DEF x
<1>2. Sound(x, rows') /\ x.pc \notin SeedPcs /\ x.pc # "record"
      BY <1>1 DEF Sound, SeedPcs
<1>3. x # Idle => x.after \subseteq settled'
      BY <1>1
<1>4. Goto(p, x) /\ x \in Session
      BY <1>1
<1> QED BY <1>2, <1>3, <1>4, DatabaseAlone, StepInv

LEMMA BeginInv ==
    ASSUME IInv, NEW p \in Procs, NEW cmd \in Commands, Begin(p, cmd)
    PROVE  IInv'
<1> DEFINE x == [pc |-> IF cmd = "seed" THEN "household" ELSE "meta",
                 cmd |-> cmd, after |-> settled]
<1>1. /\ x \in Session /\ x.after = settled
      /\ x.pc \in {"household", "meta"}
      BY DEF Session, IInv, TypeOK
<1>2. Goto(p, x) /\ UNCHANGED <<db, meta, settled>>
      BY DEF Begin
<1> HIDE DEF x
<1>3. Sound(x, rows')
      BY <1>1 DEF Sound, SeedPcs
<1> QED BY <1>1, <1>2, <1>3, DatabaseAlone, StepInv DEF SeedPcs

LEMMA ReadMetaInv ==
    ASSUME IInv, NEW p \in Procs, ReadMeta(p)
    PROVE  IInv'
<1> DEFINE x == [pc |-> "record", cmd |-> sess[p].cmd, after |-> sess[p].after,
                 insert |-> meta = 0]
<1>1. sess[p] \in Session /\ sess[p] # Idle /\ sess[p].pc = "meta"
      /\ sess[p].after \subseteq settled
      BY SessionOf DEF ReadMeta, Idle
<1>2. /\ sess[p].cmd \in Commands
      /\ sess[p].after \in SUBSET {"meta", "seed"}
      BY <1>1, SessionShapes
<1>3. /\ x \in Session /\ x.after = sess[p].after /\ x.pc = "record"
      /\ x.insert <=> meta = 0
      BY <1>2 DEF Session
<1>4. Goto(p, x) /\ UNCHANGED <<db, meta, settled>>
      BY DEF ReadMeta
<1> HIDE DEF x
<1>5. Sound(x, rows')
      BY <1>3 DEF Sound, SeedPcs
<1>6. /\ ~x.insert => meta > 0
      /\ "meta" \in x.after => ~x.insert
      BY <1>1, <1>3 DEF IInv, TypeOK, MetaInv
<1>7. x.pc \notin SeedPcs
      BY <1>3 DEF SeedPcs
<1> QED BY <1>1, <1>3, <1>4, <1>5, <1>6, <1>7, DatabaseAlone, StepInv

LEMMA RecordMetaInv ==
    ASSUME IInv, NEW p \in Procs, RecordMeta(p)
    PROVE  IInv'
<1> DEFINE x == IF sess[p].cmd = "upgrade" THEN Idle
                ELSE [pc |-> "household", cmd |-> sess[p].cmd, after |-> sess[p].after]
<1>1. sess[p] \in Session /\ sess[p] # Idle /\ sess[p].pc = "record"
      /\ sess[p].after \subseteq settled
      BY SessionOf DEF RecordMeta, Idle
<1>2. /\ sess[p].cmd \in Commands
      /\ sess[p].after \in SUBSET {"meta", "seed"}
      /\ sess[p].insert \in BOOLEAN
      BY <1>1, SessionShapes
<1>3. /\ x \in Session
      /\ x.pc \in {"idle", "household"}
      /\ x # Idle => x.after = sess[p].after
      BY <1>2 DEF Session, Idle
<1>4. /\ Goto(p, x)
      /\ rows' = rows /\ edges' = edges /\ policy' = policy
      /\ meta' = IF sess[p].insert THEN meta + 1 ELSE meta
      /\ settled' = settled \cup {"meta"}
      BY DEF RecordMeta, db
<1> HIDE DEF x
<1>5. meta \in Nat /\ (~sess[p].insert => meta > 0)
      BY <1>1 DEF IInv, TypeOK, MetaInv
<1>6. meta' \in Nat /\ meta' >= meta /\ meta' > 0
      BY <1>2, <1>4, <1>5
<1>7. Sound(x, rows') /\ x.pc \notin SeedPcs /\ x.pc # "record"
      BY <1>3 DEF Sound, SeedPcs
<1>8. LinkedOnce'
      BY <1>4 DEF IInv, LinkedOnce
<1>9. /\ rows \subseteq rows' /\ rows' \subseteq Rows
      /\ edges' \in [Edges -> Nat]
      /\ policy' \in {"none", "legacy", "current"}
      /\ settled \subseteq settled' /\ settled' \subseteq {"meta", "seed"}
      BY <1>4 DEF IInv, TypeOK
<1>10. ~Legacy => /\ policy = "current" => policy' = "current"
                  /\ policy' # "legacy"
                  /\ SeedIsComplete'
      BY <1>4 DEF IInv, PolicyInv, CompleteInv, SeedIsComplete
<1>11. x # Idle => x.after \subseteq settled'
      BY <1>1, <1>3, <1>4
<1> QED BY <1>3, <1>4, <1>6, <1>7, <1>8, <1>9, <1>10, <1>11, StepInv

LEMMA ReadHouseholdInv ==
    ASSUME IInv, NEW p \in Procs, ReadHousehold(p)
    PROVE  IInv'
<1> DEFINE full == Household \notin rows
           adds == IF full THEN Rows \ {Checks[1].probe} ELSE {}
           links == IF full THEN Edges ELSE {}
           x == [pc |-> "check", after |-> sess[p].after, full |-> full, at |-> 1,
                 adds |-> adds, links |-> links, write |-> "nothing"]
<1>1. sess[p] \in Session /\ sess[p] # Idle /\ sess[p].after \subseteq settled
      BY SessionOf DEF ReadHousehold, Idle
<1>2. sess[p].after \in SUBSET {"meta", "seed"}
      BY <1>1, SessionShapes
<1>3. 1 \in 1..Len(Checks) /\ 1 \in 1..(Len(Checks) + 1)
      BY ChecksShape
<1>4. x \in Seeding
      BY <1>2, <1>3 DEF Seeding, SeedPcs
<1>5. /\ x \in Session /\ x # Idle
      /\ x.pc = "check" /\ x.after = sess[p].after /\ x.full = full /\ x.at = 1
      /\ x.adds = adds /\ x.links = links /\ x.write = "nothing"
      BY <1>4, SeedingIsSession DEF Idle
<1>6. Goto(p, x) /\ UNCHANGED <<db, meta, settled>>
      BY DEF ReadHousehold
<1>7. rows' = rows
      BY <1>6 DEF db
<1> HIDE DEF x
<1>8. Position(x, rows)
      BY <1>3, <1>5 DEF Position
<1>9. LookedFor(x, rows)
      BY <1>5, ChecksShape DEF LookedFor
<1>10. \A e \in Edges : Guard[e] \in Rows \ {Checks[1].probe}
      BY ChecksShape, SeedAssumption
<1>11. Paired(x, rows)
      BY <1>5, <1>10 DEF Paired
<1>12. Sound(x, rows')
      BY <1>7, <1>8, <1>9, <1>11 DEF Sound
<1>13. ~Legacy /\ "seed" \in x.after => x.adds = {} /\ x.links = {}
      BY <1>1, <1>5, ChecksShape DEF IInv, CompleteInv, SeedIsComplete
<1> QED BY <1>1, <1>5, <1>6, <1>12, <1>13, DatabaseAlone, StepInv

LEMMA ReadPolicyInv ==
    ASSUME IInv, NEW p \in Procs, ReadPolicy(p)
    PROVE  IInv'
<1> DEFINE s == sess[p]
           x == [s EXCEPT !.pc = IF s.full THEN "commit" ELSE "check",
                          !.write = PolicyWrite]
<1>1. s \in Session /\ s # Idle /\ s.after \subseteq settled /\ s.pc = "policy"
      BY SessionOf DEF ReadPolicy, Idle
<1>2. s \in Seeding /\ Sound(s, rows)
      BY <1>1, SessionShapes, SessionOf DEF SeedPcs
<1>3. PolicyWrite \in {"nothing", "delete", "insert"}
      BY DEF PolicyWrite, IInv, TypeOK
<1>4. x \in Seeding
      BY <1>2, <1>3 DEF Seeding, SeedPcs
<1>5. /\ x \in Session /\ x.after = s.after /\ x.full = s.full /\ x.at = s.at
      /\ x.adds = s.adds /\ x.links = s.links /\ x.write = PolicyWrite
      /\ x.pc = IF s.full THEN "commit" ELSE "check"
      BY <1>2, <1>4, SeedingIsSession DEF Seeding
<1>6. Goto(p, x) /\ UNCHANGED <<db, meta, settled>>
      BY DEF ReadPolicy
<1>7. rows' = rows /\ policy' = policy
      BY <1>6 DEF db
<1>8. s.full \in BOOLEAN /\ s.pc \in SeedPcs
      BY <1>2, SeedingFields
<1> HIDE DEF x, s
<1>9. Position(s, rows) /\ LookedFor(s, rows) /\ Paired(s, rows)
      BY <1>2, <1>8 DEF Sound
<1>10. Position(x, rows)
      BY <1>1, <1>5, <1>8, <1>9, ChecksShape DEF Position
<1>11. LookedFor(x, rows)
      BY <1>5, <1>9 DEF LookedFor
<1>12. Paired(x, rows)
  <2>1. s.full => s.links = Edges
        BY <1>9 DEF Position
  <2> QED BY <1>1, <1>5, <1>8, <1>9, <2>1 DEF Paired
<1>13. Sound(x, rows')
      BY <1>7, <1>10, <1>11, <1>12 DEF Sound
<1>14. ~Legacy => /\ PolicyWrite # "delete"
                  /\ PolicyWrite = "nothing" => policy = "current"
                  /\ policy = "current" => PolicyWrite = "nothing"
      BY DEF PolicyWrite, IInv, PolicyInv
<1>15. ~Legacy /\ "seed" \in x.after =>
           x.adds = {} /\ x.links = {} /\ x.write = "nothing"
      BY <1>1, <1>5, <1>8, <1>14 DEF IInv, NothingInv, CompleteInv, SeedIsComplete, s
<1>16. x.pc # "record" /\ (x # Idle => x.after \subseteq settled')
      BY <1>1, <1>5, <1>6
<1> QED BY <1>5, <1>6, <1>7, <1>13, <1>14, <1>15, <1>16, DatabaseAlone, StepInv

(* What one check makes of a session.                                      *)
LEMMA ReadCheckEffect ==
    ASSUME IInv, NEW p \in Procs, ReadCheck(p)
    PROVE  LET s == sess[p]
               check == Checks[s.at]
           IN  /\ UNCHANGED <<db, meta, settled>>
               /\ s \in Seeding /\ s # Idle /\ s.pc = "check" /\ s.after \subseteq settled
               /\ s.at \in 1..Len(Checks)
               /\ Position(s, rows) /\ LookedFor(s, rows) /\ Paired(s, rows)
               /\ \E x \in Seeding :
                     /\ Goto(p, x)
                     /\ x.pc = IF s.at = 1 THEN "policy"
                               ELSE IF s.at = Len(Checks) THEN "commit" ELSE "check"
                     /\ x.after = s.after /\ x.full = s.full
                     /\ x.at = s.at + 1 /\ x.write = s.write
                     /\ x.adds = IF Missing(check.probe)
                                 THEN s.adds \cup ({check.probe} \cap Rows) ELSE s.adds
                     /\ x.links = IF Missing(check.probe)
                                  THEN s.links \cup check.edges ELSE s.links
<1> DEFINE s == sess[p]
           check == Checks[s.at]
           next == IF s.at = 1 THEN "policy"
                   ELSE IF s.at = Len(Checks) THEN "commit" ELSE "check"
           adds == IF ~Missing(check.probe) THEN s.adds ELSE s.adds \cup ({check.probe} \cap Rows)
           links == IF ~Missing(check.probe) THEN s.links ELSE s.links \cup check.edges
           x == [s EXCEPT !.pc = next, !.at = s.at + 1, !.adds = adds, !.links = links]
<1>1. s \in Session /\ s # Idle /\ s.after \subseteq settled /\ s.pc = "check"
      BY SessionOf DEF ReadCheck, Idle
<1>2. s \in Seeding /\ Sound(s, rows)
      BY <1>1, SessionShapes, SessionOf DEF SeedPcs
<1>3. Position(s, rows) /\ LookedFor(s, rows) /\ Paired(s, rows)
      BY <1>1, <1>2 DEF Sound, SeedPcs
<1>4. s.at \in 1..Len(Checks)
      BY <1>1, <1>3 DEF Position
<1>5. check.edges \in SUBSET Edges /\ s.at + 1 \in 1..(Len(Checks) + 1)
      BY <1>4, ChecksShape
<1>6. s.adds \in SUBSET Rows /\ s.links \in SUBSET Edges
      BY <1>2, SeedingFields
<1>7. Goto(p, x) /\ UNCHANGED <<db, meta, settled>>
      BY DEF ReadCheck
<1>8. next \in SeedPcs /\ adds \in SUBSET Rows /\ links \in SUBSET Edges
      BY <1>5, <1>6 DEF SeedPcs
<1> HIDE DEF next, adds, links
<1>9. x \in Seeding
      BY <1>2, <1>5, <1>8 DEF Seeding
<1>10. /\ x.pc = next /\ x.after = s.after /\ x.full = s.full /\ x.at = s.at + 1
       /\ x.write = s.write /\ x.adds = adds /\ x.links = links
      BY <1>2 DEF Seeding
<1> HIDE DEF x
<1> QED BY <1>1, <1>2, <1>3, <1>4, <1>7, <1>9, <1>10 DEF next, adds, links

LEMMA ReadCheckInv ==
    ASSUME IInv, NEW p \in Procs, ReadCheck(p)
    PROVE  IInv'
<1> DEFINE s == sess[p]
           n == s.at
           probe == Checks[n].probe
           more == Checks[n].edges
<1>1. /\ UNCHANGED <<db, meta, settled>>
      /\ s \in Seeding /\ s # Idle /\ s.pc = "check" /\ s.after \subseteq settled
      /\ n \in 1..Len(Checks)
      /\ Position(s, rows) /\ LookedFor(s, rows) /\ Paired(s, rows)
      BY ReadCheckEffect
<1>2. PICK x \in Seeding :
          /\ Goto(p, x)
          /\ x.pc = IF n = 1 THEN "policy"
                    ELSE IF n = Len(Checks) THEN "commit" ELSE "check"
          /\ x.after = s.after /\ x.full = s.full
          /\ x.at = n + 1 /\ x.write = s.write
          /\ x.adds = IF Missing(probe) THEN s.adds \cup ({probe} \cap Rows) ELSE s.adds
          /\ x.links = IF Missing(probe) THEN s.links \cup more ELSE s.links
      BY ReadCheckEffect
<1>3. /\ probe \in Rows \cup Edges /\ more \in SUBSET Edges /\ probe # Household
      /\ Guard \in [Edges -> Rows]
      /\ Rows \cap Edges = {}
      /\ DOMAIN Checks = 1..Len(Checks) /\ Len(Checks) \in Nat
      BY <1>1, ChecksShape, SeedAssumption
<1>4. /\ s.adds \in SUBSET Rows /\ s.links \in SUBSET Edges
      /\ x.adds \in SUBSET Rows /\ x.links \in SUBSET Edges
      /\ s.full \in BOOLEAN /\ x.pc \in SeedPcs /\ x \in Session
      BY <1>1, SeedingFields, SeedingIsSession
<1>5. \A r \in Rows : Missing(r) <=> r \notin rows
      BY DEF Missing
<1>6. \A e \in Edges : Missing(e) <=> Guard[e] \notin rows
      BY <1>3 DEF Missing, IInv, LinkedOnce
<1>7. s.adds \subseteq x.adds /\ s.links \subseteq x.links
      BY <1>2
<1>8. Position(x, rows)
      BY <1>1, <1>2, <1>3, <1>4, ChecksShape DEF Position
<1>9. LookedFor(x, rows)
  <2> SUFFICES ASSUME NEW i \in DOMAIN Checks, i < x.at, Checks[i].probe \in Rows
               PROVE  Checks[i].probe \in rows \cup x.adds
      BY DEF LookedFor
  <2>1. CASE i < n
        BY <1>1, <1>7, <2>1 DEF LookedFor
  <2>2. CASE i = n
        BY <1>2, <1>5, <2>2
  <2> QED BY <1>1, <1>2, <1>3, <2>1, <2>2
<1>10. \A e \in x.links : Guard[e] \in x.adds
  <2> SUFFICES ASSUME NEW e \in x.links, e \notin s.links
               PROVE  Guard[e] \in x.adds
      BY <1>1, <1>7 DEF Paired
  <2>1. e \in more /\ Missing(probe) /\ e \in Edges
        BY <1>2, <1>3
  <2>2. \/ probe = Guard[e]
        \/ probe = e /\ \E j \in 1..(n - 1) : Checks[j].probe = Guard[e]
        BY <1>1, <1>3, <2>1, SeedAssumption
  <2>3. CASE probe = Guard[e]
        BY <1>2, <1>3, <2>1, <2>3
  <2>4. CASE probe = e /\ \E j \in 1..(n - 1) : Checks[j].probe = Guard[e]
    <3>1. PICK j \in 1..(n - 1) : Checks[j].probe = Guard[e]
          BY <2>4
    <3>2. Guard[e] \in rows \cup s.adds
          BY <1>1, <1>3, <2>1, <3>1 DEF LookedFor
    <3>3. Guard[e] \notin rows
          BY <1>6, <2>1, <2>4
    <3> QED BY <1>7, <3>2, <3>3
  <2> QED BY <2>2, <2>3, <2>4
<1>11. ASSUME NEW e \in Edges, Guard[e] \in x.adds, e \notin x.links, Guard[e] \notin rows
       PROVE  x.pc # "commit" /\ \E j \in DOMAIN Checks : j >= x.at /\ e \in Checks[j].edges
  <2>1. e \notin more
    <3> SUFFICES ASSUME e \in more PROVE FALSE
        OBVIOUS
    <3>1. probe = Guard[e] \/ probe = e
          BY <1>1, <1>3, SeedAssumption
    <3>2. Missing(probe)
          BY <1>3, <1>5, <1>6, <1>11, <3>1
    <3> QED BY <1>2, <1>11, <3>2
  <2>2. \E j \in DOMAIN Checks : j >= n /\ e \in Checks[j].edges
    <3>1. CASE Guard[e] \in s.adds
          BY <1>1, <1>7, <1>11, <3>1 DEF Paired
    <3>2. CASE Guard[e] \notin s.adds
      <4>1. Guard[e] = probe
            BY <1>2, <1>11, <3>2
      <4>2. PICK j \in DOMAIN Checks :
                /\ e \in Checks[j].edges
                /\ \A i \in DOMAIN Checks : Checks[i].probe = Guard[e] => i <= j
            BY <1>3, <4>1, SeedAssumption
      <4>3. n <= j
            BY <1>1, <1>3, <4>1, <4>2
      <4> QED BY <1>1, <1>3, <4>2, <4>3
    <3> QED BY <3>1, <3>2
  <2>3. PICK j \in DOMAIN Checks : j >= n /\ e \in Checks[j].edges
        BY <2>2
  <2>4. j # n
        BY <2>1, <2>3
  <2>5. j \in 1..Len(Checks) /\ n \in 1..Len(Checks) /\ j >= n + 1
        BY <1>1, <1>3, <2>3, <2>4
  <2>6. n # Len(Checks)
        BY <1>3, <2>5
  <2>7. x.pc # "commit"
        BY <1>2, <2>6
  <2> QED BY <1>2, <2>3, <2>5, <2>7
<1>12. Paired(x, rows)
       BY <1>10, <1>11 DEF Paired
<1>13. Sound(x, rows')
       BY <1>1, <1>8, <1>9, <1>12 DEF Sound, db
<1>14. ~Legacy => /\ x.write # "delete"
                  /\ x.pc # "policy" /\ x.at > 1 /\ x.write = "nothing" => policy' = "current"
  <2>1. x.pc # "policy" => n > 1
        BY <1>1, <1>2
  <2> QED BY <1>1, <1>2, <2>1 DEF IInv, PolicyInv, SeedPcs, db
<1>15. ~Legacy /\ "seed" \in x.after =>
           x.adds = {} /\ x.links = {} /\ x.write = "nothing"
  <2> SUFFICES ASSUME ~Legacy, "seed" \in s.after
               PROVE  x.adds = {} /\ x.links = {} /\ x.write = "nothing"
      BY <1>2
  <2>1. s.adds = {} /\ s.links = {} /\ s.write = "nothing"
        BY <1>1 DEF IInv, NothingInv, SeedPcs
  <2>2. rows = Rows
        BY <1>1 DEF IInv, CompleteInv, SeedIsComplete
  <2>3. ~Missing(probe)
        BY <1>3, <1>5, <1>6, <2>2
  <2> QED BY <1>2, <2>1, <2>3
<1>16. x.pc # "record" /\ x.after \subseteq settled'
       BY <1>1, <1>2
<1> HIDE DEF s, n, probe, more
<1> QED BY <1>1, <1>2, <1>4, <1>13, <1>14, <1>15, <1>16, DatabaseAlone, StepInv

LEMMA CommitInv ==
    ASSUME IInv, NEW p \in Procs, Commit(p)
    PROVE  IInv'
<1> DEFINE s == sess[p]
<1>1. /\ s.pc = "commit" /\ ~Collides(s)
      /\ rows' = rows \cup s.adds
      /\ edges' = [e \in Edges |-> IF e \in s.links THEN edges[e] + 1 ELSE edges[e]]
      /\ policy' = CASE s.write = "nothing" -> policy
                     [] s.write = "delete" -> "none"
                     [] s.write = "insert" -> "current"
      /\ settled' = settled \cup {"seed"}
      /\ Goto(p, Idle)
      /\ meta' = meta
      BY DEF Commit
<1>2. s \in Session /\ s # Idle /\ s.after \subseteq settled
      BY <1>1, SessionOf DEF Idle
<1>3. s \in Seeding /\ Sound(s, rows)
      BY <1>1, <1>2, SessionShapes, SessionOf DEF SeedPcs
<1>4. /\ Position(s, rows) /\ LookedFor(s, rows) /\ Paired(s, rows)
      /\ s.adds \in SUBSET Rows /\ s.links \in SUBSET Edges
      /\ s.full \in BOOLEAN /\ s.write \in {"nothing", "delete", "insert"}
      BY <1>1, <1>3, SeedingFields DEF Sound, SeedPcs
<1>5. /\ rows \subseteq Rows /\ edges \in [Edges -> Nat]
      /\ policy \in {"none", "legacy", "current"}
      /\ meta \in Nat /\ settled \subseteq {"meta", "seed"}
      BY DEF IInv, TypeOK
<1>6. s.adds \cap rows = {} /\ (s.write = "insert" => policy = "none")
      BY <1>1 DEF Collides
<1>7. s.full \/ s.at = Len(Checks) + 1
      BY <1>1, <1>4 DEF Position
<1> HIDE DEF s
<1>8. LinkedOnce'
  <2> SUFFICES ASSUME NEW e \in Edges
               PROVE  edges'[e] = IF Guard[e] \in rows' THEN 1 ELSE 0
      BY DEF LinkedOnce
  <2>1. edges[e] = IF Guard[e] \in rows THEN 1 ELSE 0
        BY DEF IInv, LinkedOnce
  <2>2. edges'[e] = IF e \in s.links THEN edges[e] + 1 ELSE edges[e]
        BY <1>1
  <2>3. e \in s.links <=> Guard[e] \in s.adds
        BY <1>1, <1>4, <1>6 DEF Paired
  <2> QED BY <1>1, <1>6, <2>1, <2>2, <2>3
<1>9. rows' = Rows
  <2>1. SUFFICES ASSUME NEW r \in Rows PROVE r \in rows \cup s.adds
        BY <1>1, <1>4, <1>5
  <2>2. CASE s.full
    <3>1. Checks[1].probe \in Rows /\ 1 \in DOMAIN Checks
          BY ChecksShape, SeedAssumption
    <3>2. 1 < s.at
          BY <1>1, <1>4, <2>2 DEF Position
    <3>3. Checks[1].probe \in rows \cup s.adds
          BY <1>4, <3>1, <3>2 DEF LookedFor
    <3> QED BY <1>4, <2>2, <3>3 DEF Position
  <2>3. CASE ~s.full
    <3>1. CASE r = Household
          BY <1>4, <2>3, <3>1 DEF Position
    <3>2. CASE r # Household
      <4>1. PICK i \in DOMAIN Checks : Checks[i].probe = r
            BY <3>2, SeedAssumption
      <4>2. i < s.at
            BY <1>7, <2>3, <4>1, ChecksShape
      <4> QED BY <1>4, <4>1, <4>2 DEF LookedFor
    <3> QED BY <3>1, <3>2
  <2> QED BY <1>4, <2>2, <2>3
<1>10. ~Legacy => policy' = "current"
  <2> SUFFICES ASSUME ~Legacy PROVE policy' = "current"
      OBVIOUS
  <2>1. s.at > 1
        BY <1>1, <1>4, <1>7, ChecksShape DEF Position
  <2>2. s.write # "delete" /\ (s.write = "nothing" => policy = "current")
        BY <1>1, <2>1 DEF IInv, PolicyInv, SeedPcs, s
  <2> QED BY <1>1, <1>4, <2>2
<1>11. edges' \in [Edges -> Nat]
       BY <1>1, <1>5
<1>12. policy' \in {"none", "legacy", "current"}
       BY <1>1, <1>4, <1>5
<1>13. ~Legacy => SeedIsComplete'
       BY <1>9, <1>10 DEF SeedIsComplete
<1>14. "meta" \in settled' => meta' > 0
       BY <1>1 DEF IInv, MetaInv
<1> DEFINE x == Idle
<1>15. x \in Session /\ x.pc = "idle" /\ Goto(p, x)
       BY <1>1 DEF Idle, Session
<1>16. Sound(x, rows') /\ x.pc \notin SeedPcs /\ x.pc # "record"
       BY <1>15 DEF Sound, SeedPcs
<1>17. x # Idle => x.after \subseteq settled'
       OBVIOUS
<1>18. /\ rows \subseteq rows' /\ rows' \subseteq Rows
       /\ meta' \in Nat /\ meta' >= meta
       /\ settled \subseteq settled' /\ settled' \subseteq {"meta", "seed"}
       BY <1>1, <1>5, <1>9
<1> HIDE DEF x
<1> QED BY <1>8, <1>10, <1>11, <1>12, <1>13, <1>14, <1>15, <1>16, <1>17, <1>18, StepInv

LEMMA StutterInv ==
    ASSUME IInv, UNCHANGED vars
    PROVE  IInv'
<1>1. /\ rows' = rows /\ edges' = edges /\ policy' = policy
      /\ meta' = meta /\ settled' = settled /\ sess' = sess
      BY DEF vars, db
<1>2. TypeOK' /\ SoundInv' /\ LinkedOnce'
      BY <1>1 DEF IInv, TypeOK, SoundInv, LinkedOnce
<1>3. PolicyInv' /\ AfterInv' /\ NothingInv'
      BY <1>1 DEF IInv, PolicyInv, AfterInv, NothingInv
<1>4. MetaInv' /\ CompleteInv'
      BY <1>1 DEF IInv, MetaInv, CompleteInv, SeedIsComplete
<1> QED BY <1>2, <1>3, <1>4 DEF IInv

LEMMA NextInv ==
    ASSUME IInv, [Next]_vars
    PROVE  IInv'
<1>1. CASE UNCHANGED vars
      BY <1>1, StutterInv
<1>2. ASSUME NEW p \in Procs, ProcNext(p)
      PROVE  IInv'
  <2>1. ASSUME NEW cmd \in Commands, Begin(p, cmd)
        PROVE  IInv'
        BY <2>1, BeginInv
  <2>2. CASE ReadMeta(p)
        BY <2>2, ReadMetaInv
  <2>3. CASE RecordMeta(p)
        BY <2>3, RecordMetaInv
  <2>4. CASE ReadHousehold(p)
        BY <2>4, ReadHouseholdInv
  <2>5. CASE ReadCheck(p)
        BY <2>5, ReadCheckInv
  <2>6. CASE ReadPolicy(p)
        BY <2>6, ReadPolicyInv
  <2>7. CASE Commit(p)
        BY <2>7, CommitInv
  <2>8. CASE CommitFails(p)
        BY <2>8, IdleInv DEF CommitFails
  <2>9. CASE Abort(p)
        BY <2>9, IdleInv DEF Abort
  <2> QED BY <1>2, <2>1, <2>2, <2>3, <2>4, <2>5, <2>6, <2>7, <2>8, <2>9 DEF ProcNext
<1> QED BY <1>1, <1>2 DEF Next

LEMMA Invariance == Spec => []IInv
<1>1. Init => IInv
      BY InitInv
<1>2. IInv /\ [Next]_vars => IInv'
      BY NextInv
<1> QED BY <1>1, <1>2, PTL DEF Spec

-----------------------------------------------------------------------------
(* Every variable keeps its type.                                          *)
THEOREM TypeCorrect == Spec => []TypeOK
<1>1. IInv => TypeOK
      BY DEF IInv
<1> QED BY <1>1, Invariance, PTL

(* No relationship is ever stored twice or without the row it came with,   *)
(* however many seeds overlap, whatever the database began with and        *)
(* wherever a seed stops (seed_demo_data).                                 *)
THEOREM RelationshipsAreSingle == Spec => []LinkedOnce
<1>1. IInv => LinkedOnce
      BY DEF IInv
<1> QED BY <1>1, Invariance, PTL

(* After a seed that committed the demo data are complete, and stay so,    *)
(* unless the policy was from before migration 005 (seed_demo_data).       *)
THEOREM SeedsComplete == ASSUME ~Legacy PROVE Spec => []SeedIsComplete
<1>1. IInv => SeedIsComplete
      BY DEF IInv, CompleteInv
<1> QED BY <1>1, Invariance, PTL

(* The demo data are there once, and all of them after a seed, unless the  *)
(* policy was from before migration 005.                                   *)
THEOREM SeedsAreWhole == ASSUME ~Legacy PROVE Spec => []SeedIsWhole
BY RelationshipsAreSingle, SeedsComplete, PTL DEF SeedIsWhole

(* One step of a session that began after a seed, or after a record of the *)
(* migration, changes nothing by committing.                               *)
LEMMA IdempotentStep ==
    ASSUME ~Legacy, IInv, [Next]_vars, NEW p \in Procs
    PROVE  /\ sess[p].pc = "commit" /\ "seed" \in sess[p].after /\ sess'[p] = Idle
                 => UNCHANGED db
           /\ sess[p].pc = "record" /\ "meta" \in sess[p].after /\ sess'[p] # sess[p]
                 => UNCHANGED meta
<1>1. /\ sess \in [Procs -> Session]
      /\ rows \subseteq Rows /\ edges \in [Edges -> Nat]
      BY DEF IInv, TypeOK
<1>2. ASSUME sess'[p] # sess[p]
      PROVE  ProcNext(p)
  <2>1. PICK q \in Procs : ProcNext(q)
        BY <1>2 DEF Next, vars
  <2>2. CASE q # p
    <3>1. \E x : Goto(q, x)
          BY <2>1 DEF ProcNext, Begin, ReadMeta, RecordMeta, ReadHousehold, ReadCheck,
                     ReadPolicy, Commit, CommitFails, Abort
    <3>2. sess'[p] = sess[p]
          BY <1>1, <2>2, <3>1 DEF Goto
    <3> QED BY <1>2, <3>2
  <2> QED BY <2>1, <2>2
<1>3. ASSUME sess[p].pc = "commit", "seed" \in sess[p].after, sess'[p] = Idle
      PROVE  UNCHANGED db
  <2>1. ProcNext(p)
    <3>1. sess'[p] # sess[p]
          BY <1>3 DEF Idle
    <3> QED BY <1>2, <3>1
  <2>3. Commit(p) \/ UNCHANGED db
        BY <2>1 DEF ProcNext, Begin, ReadMeta, RecordMeta, ReadHousehold, ReadCheck,
                    ReadPolicy, CommitFails, Abort
  <2>2. CASE Commit(p)
    <3>1. /\ sess[p].adds = {} /\ sess[p].links = {} /\ sess[p].write = "nothing"
          BY <1>3 DEF IInv, NothingInv, SeedPcs
    <3>2. rows' = rows \cup sess[p].adds /\ rows' = rows
          BY <2>2, <3>1 DEF Commit
    <3>3. edges' = edges
          BY <1>1, <2>2, <3>1 DEF Commit
    <3>4. policy' = policy
          BY <2>2, <3>1 DEF Commit
    <3> QED BY <3>2, <3>3, <3>4 DEF db
  <2> QED BY <2>2, <2>3
<1>4. ASSUME sess[p].pc = "record", "meta" \in sess[p].after, sess'[p] # sess[p]
      PROVE  UNCHANGED meta
  <2>1. RecordMeta(p) \/ UNCHANGED meta
        BY <1>2, <1>4 DEF ProcNext, Begin, ReadMeta, ReadHousehold, ReadCheck,
                          ReadPolicy, Commit, CommitFails, Abort, Idle
  <2>2. ~sess[p].insert
        BY <1>4 DEF IInv, MetaInv
  <2> QED BY <2>1, <2>2 DEF RecordMeta
<1> QED BY <1>3, <1>4

(* The seed and the record of the migration are idempotent: one that       *)
(* begins when another has committed changes nothing, however many         *)
(* overlap, unless the policy was from before migration 005.               *)
THEOREM SeedIsIdempotent == ASSUME ~Legacy PROVE Spec => Idempotent
<1>1. IInv /\ [Next]_vars =>
          \A p \in Procs :
              /\ sess[p].pc = "commit" /\ "seed" \in sess[p].after /\ sess'[p] = Idle
                     => UNCHANGED db
              /\ sess[p].pc = "record" /\ "meta" \in sess[p].after /\ sess'[p] # sess[p]
                     => UNCHANGED meta
      BY IdempotentStep
<1> QED BY <1>1, Invariance, PTL DEF Spec, Idempotent

-----------------------------------------------------------------------------
(* SyntheticHouseholds: the verdicts of validate_ips.  Whether a household *)
(* runs into its policy is a question of linear arithmetic over the ranges *)
(* of its cohort, but for the founder's concentration limit, which is a    *)
(* rounded quotient.                                                       *)

Sum(w) == w["equity"] + w["fixed_income"] + w["cash"] + w["alternatives"] + w["commodities"]

(* The amounts of a fixture are whole multiples of its weights.            *)
LEMMA Amounts ==
    ASSUME NEW w \in Weights
    PROVE  /\ \A s \in Sleeves : w[s] \in Nat
           /\ Sum(w) \in Nat
           /\ Nav(w) = 200 * Sum(w)
           /\ Nav(w) \div 100 = 2 * Sum(w)
           /\ Nav(w) \div 200 = Sum(w)
           /\ \A s \in Sleeves : SleeveNav(w, s) = 200 * w[s] /\ w[s] <= Sum(w)
           /\ Called(w) = 200 * w["alternatives"]
           /\ Unfunded(w) = 40 * w["alternatives"]
<1>1. \A s \in Sleeves : w[s] \in Nat
  BY DEF Weights
<1>2. /\ w["equity"] \in Nat /\ w["fixed_income"] \in Nat /\ w["cash"] \in Nat
      /\ w["alternatives"] \in Nat /\ w["commodities"] \in Nat
  BY <1>1 DEF Sleeves
<1>3. Sum(w) \in Nat
  BY <1>2 DEF Sum
<1>4. Nav(w) = 200 * Sum(w)
  BY <1>2 DEF Nav, Sum, Unit
<1>5. (200 * Sum(w)) \div 100 = 2 * Sum(w) /\ (200 * Sum(w)) \div 200 = Sum(w)
  BY <1>3, SMT
<1>6. \A s \in Sleeves : SleeveNav(w, s) = 200 * w[s] /\ w[s] <= Sum(w)
  BY <1>2 DEF SleeveNav, Unit, Sum, Sleeves
<1>7. Called(w) = 200 * w["alternatives"] /\ Unfunded(w) = 40 * w["alternatives"]
  BY <1>2, <1>6 DEF Called, Unfunded, Committed, Sleeves
<1> QED BY <1>1, <1>3, <1>4, <1>5, <1>6, <1>7

(* A rounded quotient is within a half of the quotient.                    *)
LEMMA Rounding ==
    ASSUME NEW n \in Nat, NEW k \in Nat \ {0}
    PROVE  /\ RoundHalfEven(n, k) \in Nat
           /\ 2 * (RoundHalfEven(n, k) * k) <= 2 * n + k
           /\ 2 * (RoundHalfEven(n, k) * k) >= 2 * n - k
<1> DEFINE q == n \div k
           r == n - q * k
<1>1. q \in Nat /\ q * k \in Nat /\ r \in Nat /\ r < k
  BY SMT
<1>2. (q + 1) * k = q * k + k
  BY <1>1, SMT
<1>3. RoundHalfEven(n, k) = IF 2 * r > k \/ (2 * r = k /\ q % 2 = 1) THEN q + 1 ELSE q
  BY DEF RoundHalfEven
<1> HIDE DEF q
<1>4. CASE RoundHalfEven(n, k) = q + 1 /\ 2 * r >= k
  BY <1>1, <1>2, <1>4, SMT
<1>5. CASE RoundHalfEven(n, k) = q /\ 2 * r <= k
  BY <1>1, <1>5, SMT
<1>6. 2 * r > k \/ 2 * r = k \/ 2 * r < k
  BY <1>1, SMT
<1>7. \/ RoundHalfEven(n, k) = q + 1 /\ 2 * r >= k
      \/ RoundHalfEven(n, k) = q /\ 2 * r <= k
  BY <1>1, <1>3, <1>6, SMT
<1> QED BY <1>4, <1>5, <1>7

(* Draws, spelled out for one sleeve.                                      *)
LEMMA DrawTypes ==
    ASSUME NEW d \in SeedDraws
    PROVE  /\ d.cohort \in Cohorts
           /\ d.raw \in Weights
           /\ d.cap \in Nat
           /\ Priors[d.cohort].cap.lo <= d.cap /\ d.cap <= Priors[d.cohort].cap.hi
           /\ \A s \in Sleeves :
                 /\ Precision * Ranges[d.cohort][s].lo <= d.raw[s]
                 /\ d.raw[s] <= Precision * Ranges[d.cohort][s].hi
BY DEF SeedDraws

(* Outside the stress cohort no sleeve is out of its own band.             *)
LEMMA BandsFit ==
    ASSUME NEW d \in SeedDraws, d.cohort # "concentrated_stress",
           NEW s \in Sleeves
    PROVE  ~SleeveBinds(d, d.raw, s)
<1> DEFINE w == d.raw
           band == Priors[d.cohort].band
<1>1. w \in Weights
  BY DrawTypes
<1>2. band \in Nat
  BY DrawTypes DEF Priors, Cohorts
<1>3. w[s] \in Nat /\ Sum(w) \in Nat /\ w[s] <= Sum(w) /\ Nav(w) = 200 * Sum(w)
      /\ Nav(w) \div 100 = 2 * Sum(w) /\ SleeveNav(w, s) = 200 * w[s]
  BY <1>1, Amounts
<1>4. Headroom(d, w, s) = (Nav(w) \div 100) * band
  BY DEF Headroom
<1> HIDE DEF band
<1>5. Headroom(d, w, s) \in Nat
  BY <1>2, <1>3, <1>4, SMT
<1>6. TargetNav(d, w, s) = SleeveNav(w, s)
  BY <1>5 DEF TargetNav
<1>7. SleeveNav(w, s) <= MaxNav(d, w, s)
  BY <1>3, <1>5 DEF MaxNav
<1>8. MinNav(d, w, s) = LET m == SleeveNav(w, s) - Headroom(d, w, s) IN IF m < 0 THEN 0 ELSE m
  BY <1>4, <1>6 DEF MinNav, band
<1>9. MinNav(d, w, s) <= SleeveNav(w, s)
  BY <1>3, <1>5, <1>8
<1>10. MaxNav(d, w, s) \in Int /\ MinNav(d, w, s) \in Int /\ SleeveNav(w, s) \in Int
  BY <1>3, <1>5, <1>8 DEF MaxNav
<1> QED BY <1>7, <1>9, <1>10 DEF SleeveBinds

(* The issuer's position in terms of the weights.                          *)
LEMMA IssuerAmount ==
    ASSUME NEW d \in SeedDraws, NEW o \in Orders
    PROVE  /\ Issuer(d, o, d.raw) = 2 * Concentrate(d, o) * d.raw["equity"]
           /\ Concentrate(d, o) \in {0, 25, 40}
           /\ Concentrate(d, o) = 25 <=> d.cohort = "founder_executive" /\ o.rung = 4
           /\ Concentrate(d, o) = 40 <=> d.cohort = "concentrated_stress" /\ o.rung = 4
<1>1. Unit \div 100 = 2
  BY SMT DEF Unit
<1> QED BY <1>1 DEF Issuer, Concentrate

LEMMA LimitType ==
    ASSUME NEW d \in SeedDraws, Sum(d.raw) > 0
    PROVE  ConcentrationLimit(d, d.raw) \in Nat
<1>1. d.raw \in Weights /\ d.cap \in Nat
  BY DrawTypes
<1>2. /\ SleeveNav(d.raw, "equity") \in Nat
      /\ Nav(d.raw) \in Nat \ {0}
  <2>1. "equity" \in Sleeves
    BY DEF Sleeves
  <2> QED BY <1>1, <2>1, Amounts
<1>3. d.cap * SleeveNav(d.raw, "equity") \in Nat
  BY <1>1, <1>2, SMT
<1> QED BY <1>1, <1>2, <1>3, Rounding DEF ConcentrationLimit

(* Without a split no issuer binds.                                        *)
LEMMA NoIssuerBinds ==
    ASSUME NEW d \in SeedDraws, NEW o \in Orders, Sum(d.raw) > 0,
           Concentrate(d, o) = 0
    PROVE  ~IssuerBinds(d, o, d.raw)
<1>1. d.raw["equity"] \in Nat /\ Nav(d.raw) \in Nat
  BY DrawTypes, Amounts DEF Sleeves
<1>2. Issuer(d, o, d.raw) = 0
  BY <1>1, IssuerAmount
<1>3. ConcentrationLimit(d, d.raw) * Nav(d.raw) \in Nat
  BY <1>1, LimitType, SMT
<1> QED BY <1>2, <1>3 DEF IssuerBinds

(* What the ranges say of the four cohorts' weights.                       *)
LEMMA RangesHold ==
    ASSUME NEW d \in SeedDraws, NEW P, P = Precision,
           NEW e, e = d.raw["equity"], NEW f, f = d.raw["fixed_income"],
           NEW c, c = d.raw["cash"], NEW a, a = d.raw["alternatives"],
           NEW m, m = d.raw["commodities"]
    PROVE  /\ P \in Nat /\ P > 0
           /\ e \in Nat /\ f \in Nat /\ c \in Nat /\ a \in Nat /\ m \in Nat
           /\ Sum(d.raw) = e + f + c + a + m
           /\ d.cohort = "general_hnw" =>
                 45 * P <= e /\ 15 * P <= f /\ 5 * P <= c /\ a <= 15 * P
           /\ d.cohort = "uhnw_inherited" =>
                 35 * P <= e /\ 10 * P <= f /\ 5 * P <= c /\ a <= 35 * P /\ 2 * P <= m
           /\ d.cohort = "founder_executive" =>
                 /\ 50 * P <= e /\ 5 * P <= f /\ 5 * P <= c /\ m = 0
                 /\ f <= 15 * P /\ c <= 15 * P /\ a <= 20 * P
           /\ d.cohort = "concentrated_stress" => 70 * P <= e /\ a = 0
<1>1. /\ e \in Nat /\ f \in Nat /\ c \in Nat /\ a \in Nat /\ m \in Nat
      /\ Sum(d.raw) = e + f + c + a + m
  BY DrawTypes, Amounts DEF Sleeves, Sum
<1>2. \A s \in {"equity", "fixed_income", "cash", "alternatives", "commodities"} :
         P * Ranges[d.cohort][s].lo <= d.raw[s] /\ d.raw[s] <= P * Ranges[d.cohort][s].hi
  BY DrawTypes DEF Sleeves
<1>3. P \in Nat /\ P > 0
  BY DrawsAssumption
<1>4. CASE d.cohort = "general_hnw"
  BY <1>1, <1>2, <1>3, <1>4, SMTT(30) DEF Ranges, Range, None
<1>5. CASE d.cohort = "uhnw_inherited"
  BY <1>1, <1>2, <1>3, <1>5, SMTT(30) DEF Ranges, Range, None
<1>6. CASE d.cohort = "founder_executive"
  BY <1>1, <1>2, <1>3, <1>6, SMTT(30) DEF Ranges, Range, None
<1>7. CASE d.cohort = "concentrated_stress"
  BY <1>1, <1>2, <1>3, <1>7, SMTT(30) DEF Ranges, Range, None
<1> QED BY <1>1, <1>3, <1>4, <1>5, <1>6, <1>7, DrawTypes DEF Cohorts

(* The liquidity floors leave room for the largest fund.                   *)
LEMMA FloorsFit ==
    ASSUME NEW d \in SeedDraws, d.cohort # "concentrated_stress"
    PROVE  ~LiquidityBinds(d, d.raw)
<1> DEFINE S == Sum(d.raw)
           a == d.raw["alternatives"]
<1>1. /\ Nav(d.raw) = 200 * S /\ Called(d.raw) = 200 * a /\ Unfunded(d.raw) = 40 * a
      /\ S \in Nat
  BY DrawTypes, Amounts
<1>2. a \in Nat
  BY RangesHold
<1>3. CASE d.cohort = "general_hnw"
  <2>1. Priors[d.cohort].floor = 75
    BY <1>3 DEF Priors
  <2>2. 10 * S >= 46 * a
    BY <1>3, RangesHold
  <2> QED BY <1>1, <1>2, <2>1, <2>2 DEF LiquidityBinds
<1>4. CASE d.cohort = "uhnw_inherited"
  <2>1. Priors[d.cohort].floor = 55
    BY <1>4 DEF Priors
  <2>2. 90 * S >= 222 * a
    BY <1>4, RangesHold
  <2> QED BY <1>1, <1>2, <2>1, <2>2 DEF LiquidityBinds
<1>5. CASE d.cohort = "founder_executive"
  <2>1. Priors[d.cohort].floor = 70
    BY <1>5 DEF Priors
  <2>2. 10 * S >= 38 * a
    BY <1>5, RangesHold
  <2> QED BY <1>1, <1>2, <2>1, <2>2 DEF LiquidityBinds
<1> QED BY <1>3, <1>4, <1>5, DrawTypes DEF Cohorts

LEMMA SumPositive == \A d \in SeedDraws : Sum(d.raw) > 0 /\ Sum(d.raw) \in Nat
BY RangesHold, DrawTypes DEF Cohorts

-----------------------------------------------------------------------------
(* The split of a founder's equity against the rounded limit.              *)

LEMMA FounderLimit ==
    ASSUME NEW d \in SeedDraws, NEW o \in Orders,
           d.cohort = "founder_executive", o.rung = 4
    PROVE  /\ d.cap >= 26 => ~IssuerBinds(d, o, d.raw)
           /\ d.cap < 25 => IssuerBinds(d, o, d.raw)
<1> DEFINE S == Sum(d.raw)
           e == d.raw["equity"]
           R == ConcentrationLimit(d, d.raw)
           K == R * S
<1>1. S \in Nat /\ S > 0 /\ e \in Nat /\ e > 0 /\ d.cap \in Nat /\ S <= 2 * e
  BY RangesHold, SumPositive, DrawTypes
<1>2. /\ SleeveNav(d.raw, "equity") = 200 * e
      /\ Nav(d.raw) = 200 * S
  BY DrawTypes, Amounts DEF Sleeves
<1>3. R \in Nat
  BY <1>1, LimitType
<1>4. R = RoundHalfEven(d.cap * (200 * e), 200 * S)
  BY <1>2 DEF ConcentrationLimit
<1> HIDE DEF S, e, R
<1>5. d.cap * (200 * e) \in Nat /\ 200 * S \in Nat \ {0}
  BY <1>1, SMT
<1>6. /\ 2 * (R * (200 * S)) <= 2 * (d.cap * (200 * e)) + 200 * S
      /\ 2 * (R * (200 * S)) >= 2 * (d.cap * (200 * e)) - 200 * S
  BY <1>4, <1>5, Rounding
<1>7. R * (200 * S) = 200 * K /\ d.cap * (200 * e) = 200 * (d.cap * e) /\ K \in Nat
  BY <1>1, <1>3, SMT
<1>8. Issuer(d, o, d.raw) = 50 * e
  BY <1>1, IssuerAmount DEF e
<1>9. IssuerBinds(d, o, d.raw) <=> 25 * e > K
  <2>1. IssuerBinds(d, o, d.raw) <=> 100 * (50 * e) > R * (200 * S)
    BY <1>2, <1>8 DEF IssuerBinds, R
  <2> QED BY <1>1, <1>7, <2>1
<1>10. 2 * K <= 2 * (d.cap * e) + S /\ 2 * K >= 2 * (d.cap * e) - S
  <2>1. d.cap * e \in Nat
    BY <1>1, SMT
  <2> QED BY <1>1, <1>6, <1>7, <2>1
<1>11. ASSUME d.cap >= 26 PROVE ~IssuerBinds(d, o, d.raw)
  <2>1. d.cap * e \in Nat /\ d.cap * e >= 26 * e
    BY <1>1, <1>11, SMT
  <2> QED BY <1>1, <1>7, <1>9, <1>10, <2>1
<1>12. ASSUME d.cap <= 23 PROVE IssuerBinds(d, o, d.raw)
  <2>1. d.cap * e \in Nat /\ d.cap * e <= 23 * e
    BY <1>1, <1>12, SMT
  <2> QED BY <1>1, <1>7, <1>9, <1>10, <2>1
<1>13. ASSUME d.cap = 24 PROVE IssuerBinds(d, o, d.raw)
  <2>1. CASE S < 2 * e
    BY <1>1, <1>7, <1>9, <1>10, <1>13, <2>1
  <2>2. CASE S = 2 * e
    <3>1. K = 2 * (R * e)
      BY <1>1, <1>3, <2>2, SMT
    <3>2. R >= 13 => R * e >= 13 * e
      BY <1>1, <1>3, SMT
    <3>3. R <= 12 => R * e <= 12 * e
      BY <1>1, <1>3, SMT
    <3>4. R * e \in Nat
      BY <1>1, <1>3, SMT
    <3> HIDE DEF K
    <3>5. R <= 12
      BY <1>1, <1>3, <1>10, <1>13, <2>2, <3>1, <3>2, <3>4
    <3> QED BY <1>1, <1>9, <3>1, <3>3, <3>4, <3>5
  <2> QED BY <1>1, <2>1, <2>2
<1> QED BY <1>1, <1>11, <1>12, <1>13

(* A stress household's equity is above its band.                          *)
LEMMA StressBinds ==
    ASSUME NEW d \in SeedDraws, d.cohort = "concentrated_stress"
    PROVE  \E s \in Targets(d.raw) : SleeveBinds(d, d.raw, s)
<1> DEFINE S == Sum(d.raw)
           e == d.raw["equity"]
<1>1. S \in Nat /\ S > 0 /\ e \in Nat /\ e > 0 /\ e <= S
  BY RangesHold, SumPositive, DrawTypes, Amounts DEF Sleeves
<1>2. /\ SleeveNav(d.raw, "equity") = 200 * e
      /\ Nav(d.raw) = 200 * S
      /\ Nav(d.raw) \div 200 = S
  BY DrawTypes, Amounts DEF Sleeves
<1>3. Headroom(d, d.raw, "equity") = -S
  BY <1>2 DEF Headroom
<1>4. MaxNav(d, d.raw, "equity") = 200 * e - S
  BY <1>1, <1>2, <1>3 DEF MaxNav
<1>5. SleeveBinds(d, d.raw, "equity")
  BY <1>1, <1>2, <1>4 DEF SleeveBinds
<1> QED BY <1>1, <1>5 DEF Targets, Sleeves

(* What validate_ips says of a sampled household.                          *)
LEMMA Verdicts ==
    ASSUME NEW d \in SeedDraws, NEW o \in Orders, ~o.ablated
    PROVE  /\ \/ Valid(d, o)
              \/ d.cohort = "founder_executive" /\ o.rung = 4 /\ d.cap <= 25
           /\ d.cohort = "founder_executive" /\ o.rung = 4 /\ d.cap < 25 => ~Valid(d, o)
<1>1. WeightsOf(d, o) = d.raw
  BY DEF WeightsOf
<1>2. Sum(d.raw) > 0 /\ d.cap \in Nat
  BY SumPositive, DrawTypes
<1>3. CASE d.cohort = "concentrated_stress"
  BY <1>1, <1>3, StressBinds DEF Valid, Binds
<1>4. CASE d.cohort # "concentrated_stress"
  <2>1. Binds(d, o, d.raw) <=> IssuerBinds(d, o, d.raw)
    BY <1>4, BandsFit, FloorsFit DEF Binds, Targets
  <2>2. Valid(d, o) <=> ~IssuerBinds(d, o, d.raw)
    BY <1>1, <1>4, <2>1 DEF Valid
  <2>3. CASE d.cohort = "founder_executive" /\ o.rung = 4
    BY <1>2, <2>2, <2>3, FounderLimit
  <2>4. CASE ~(d.cohort = "founder_executive" /\ o.rung = 4)
    <3>1. Concentrate(d, o) = 0
      BY <1>4, <2>4, IssuerAmount
    <3> QED BY <1>2, <2>2, <2>4, <3>1, NoIssuerBinds
  <2> QED BY <2>3, <2>4
<1> QED BY <1>3, <1>4

-----------------------------------------------------------------------------
(* What was emitted is what validate_ips let through.                      *)
Judged ==
    /\ draw \in SeedDraws
    /\ order \in Orders
    /\ pc = "refused" => order.validate /\ ~Valid(draw, order)
    /\ Emitted /\ pc # "refused" /\ order.validate => Valid(draw, order)

LEMMA JudgedInit == GeneratorInit => Judged
BY DrawsAssumption DEF GeneratorInit, Judged, Emitted, Orders

LEMMA JudgedNext == Judged /\ [GeneratorNext]_generatorVars => Judged'
<1> SUFFICES ASSUME Judged, [GeneratorNext]_generatorVars PROVE Judged'
  OBVIOUS
<1> USE DEF Judged, Emitted
<1>1. ASSUME NEW o \in Orders, Emit(o) PROVE Judged'
  <2>1. draw' = draw /\ order' = o
    BY <1>1 DEF Emit
  <2>2. pc' = IF o.validate /\ ~Valid(draw, o) THEN "refused" ELSE "sealed"
    BY <1>1 DEF Emit
  <2>3. Valid(draw', order') <=> Valid(draw, o)
    BY <2>1
  <2> HIDE DEF Judged
  <2>4. draw' \in SeedDraws /\ order' \in Orders
    BY <2>1 DEF Judged
  <2>5. pc' = "refused" => order'.validate /\ ~Valid(draw', order')
    BY <2>1, <2>2, <2>3
  <2>6. pc' # "refused" /\ order'.validate => Valid(draw', order')
    BY <2>1, <2>2, <2>3
  <2> QED BY <2>4, <2>5, <2>6 DEF Judged
<1>2. ASSUME draw' = draw, order' = order, pc' \in {"idle", "smoking", "smoked", "raised"},
             pc' = "idle" \/ pc \in {"sealed", "smoking"}
      PROVE  Judged'
  <2>1. Valid(draw', order') <=> Valid(draw, order)
    BY <1>2
  <2> HIDE DEF Judged
  <2>2. draw' \in SeedDraws /\ order' \in Orders /\ pc' # "refused"
    BY <1>2 DEF Judged
  <2>3. pc' # "idle" /\ order'.validate => Valid(draw', order')
    BY <1>2, <2>1 DEF Judged
  <2> QED BY <2>2, <2>3 DEF Judged
<1>3. CASE StartSmoke
  BY <1>2, <1>3 DEF StartSmoke
<1>4. CASE RunLeg
  BY <1>2, <1>4 DEF RunLeg
<1>5. CASE LegFails
  BY <1>2, <1>5 DEF LegFails
<1>6. CASE Store
  BY <1>2, <1>6 DEF Store
<1>7. CASE Discard
  BY <1>2, <1>7 DEF Discard
<1>8. CASE UNCHANGED generatorVars
  <2>1. draw' = draw /\ order' = order /\ pc' = pc
    BY <1>8 DEF generatorVars, smokeVars
  <2>2. Valid(draw', order') <=> Valid(draw, order)
    BY <2>1
  <2> HIDE DEF Judged
  <2> QED BY <2>1, <2>2 DEF Judged
<1> QED BY <1>1, <1>3, <1>4, <1>5, <1>6, <1>7, <1>8 DEF GeneratorNext

LEMMA JudgedAlways == GeneratorSpec => []Judged
BY JudgedInit, JudgedNext, PTL DEF GeneratorSpec

(* validate_ips refuses a sampled household only of the founders at rung   *)
(* 4, every one whose issuer cap is below the 25% its equity is split at   *)
(* and none whose cap is above it, for every precision of the weights:     *)
(* the sampled ranges can never run into the bands or the floors.          *)
THEOREM RefusalsAreFounders == GeneratorSpec => []OnlyFoundersAreRefused
<1>1. Judged => OnlyFoundersAreRefused
  <2> SUFFICES ASSUME Judged, order.validate, ~order.ablated
               PROVE  LET split == draw.cohort = "founder_executive" /\ order.rung = 4
                      IN  /\ pc = "refused" => split /\ draw.cap <= 25
                          /\ Emitted /\ pc # "refused" => ~(split /\ draw.cap < 25)
    BY DEF OnlyFoundersAreRefused
  <2> QED BY Verdicts DEF Judged
<1> QED BY <1>1, JudgedAlways, PTL

(* A founder's household whose weights were made equal passes at rung 4    *)
(* only with a cap that the sampled one passes with.                       *)
LEMMA AblatedFounder ==
    ASSUME NEW d \in SeedDraws, NEW o \in Orders, o.ablated, o.rung = 4,
           d.cohort = "founder_executive", Valid(d, o)
    PROVE  d.cap >= 26
<1> DEFINE w == WeightsOf(d, o)
           R == ConcentrationLimit(d, w)
<1>1. /\ w["equity"] = 1 /\ w["fixed_income"] = 1 /\ w["cash"] = 1
      /\ w["alternatives"] = 1 /\ w["commodities"] = 0
  BY DEF WeightsOf, Has, Ranges, Range, None, Sleeves
<1>2. Nav(w) = 800 /\ SleeveNav(w, "equity") = 200
  BY <1>1 DEF Nav, SleeveNav, Unit
<1>3. d.cap \in Nat
  BY DrawTypes
<1>4. R = RoundHalfEven(d.cap * 200, 800)
  BY <1>2 DEF ConcentrationLimit
<1> HIDE DEF R
<1>5. R \in Nat /\ 2 * (R * 800) <= 2 * (d.cap * 200) + 800
  <2> DEFINE n == d.cap * 200
             k == 800
  <2>1. n \in Nat /\ k \in Nat \ {0}
    BY <1>3
  <2>2. R = RoundHalfEven(n, k)
    BY <1>4
  <2> HIDE DEF n, k
  <2>3. R \in Nat /\ 2 * (R * k) <= 2 * n + k
    BY <2>1, <2>2, Rounding
  <2> QED BY <2>3 DEF n, k
<1>6. Issuer(d, o, w) = 50
  <2>1. Concentrate(d, o) = 25 /\ Unit \div 100 = 2
    BY IssuerAmount, SMT DEF Unit
  <2> QED BY <1>1, <2>1 DEF Issuer
<1>7. ~(100 * 50 > R * 800)
  <2>1. ~Binds(d, o, w)
    BY DEF Valid
  <2> HIDE DEF w
  <2>2. ~IssuerBinds(d, o, w)
    BY <2>1 DEF Binds
  <2> QED BY <1>2, <1>6, <2>2 DEF IssuerBinds, R
<1> QED BY <1>3, <1>5, <1>7

(* A validated bundle's smoke reaches its end: the scenario leg samples    *)
(* the household anew, and no household that passes as it is handed over   *)
(* is refused then, not even one whose weights had been made equal.        *)
THEOREM SmokeOfValidated == GeneratorSpec => []ValidatedSmokeCompletes
<1>1. GeneratorInit => ValidatedSmokeCompletes
  BY DEF GeneratorInit, ValidatedSmokeCompletes
<1>2. Judged /\ ValidatedSmokeCompletes /\ [GeneratorNext]_generatorVars => ValidatedSmokeCompletes'
  <2> SUFFICES ASSUME Judged, ValidatedSmokeCompletes, [GeneratorNext]_generatorVars
               PROVE  order'.validate => pc' # "raised"
    BY DEF ValidatedSmokeCompletes
  <2>1. ASSUME LegFails, order.validate PROVE FALSE
    <3> DEFINE o == [order EXCEPT !.ablated = FALSE]
    <3>1. ~Valid(draw, o) /\ Valid(draw, order)
      BY <2>1 DEF LegFails, LegRaises, Judged, Emitted
    <3>2. order \in Orders /\ draw \in SeedDraws
      BY DEF Judged
    <3>3. o \in Orders /\ ~o.ablated /\ o.rung = order.rung
      BY <3>2 DEF Orders
    <3>4. order.ablated
      <4> SUFFICES ASSUME ~order.ablated PROVE FALSE
        OBVIOUS
      <4>1. o = order
        BY <3>2 DEF Orders
      <4> QED BY <3>1, <4>1
    <3>5. draw.cohort = "founder_executive" /\ o.rung = 4 /\ draw.cap <= 25
      BY <3>1, <3>2, <3>3, Verdicts
    <3>6. draw.cap \in Nat
      BY <3>2, DrawTypes
    <3> QED BY <3>1, <3>2, <3>3, <3>4, <3>5, <3>6, AblatedFounder
  <2>2. CASE LegFails
    BY <2>1, <2>2 DEF LegFails
  <2>3. CASE \E o \in Orders : Emit(o)
    BY <2>3 DEF Emit
  <2>4. CASE StartSmoke \/ RunLeg
    BY <2>4 DEF StartSmoke, RunLeg
  <2>5. CASE Store \/ Discard
    BY <2>5 DEF Store, Discard
  <2>6. CASE UNCHANGED generatorVars
    BY <2>6 DEF generatorVars, smokeVars, ValidatedSmokeCompletes
  <2> QED BY <2>2, <2>3, <2>4, <2>5, <2>6 DEF GeneratorNext
<1> QED BY <1>1, <1>2, JudgedAlways, PTL DEF GeneratorSpec

(* What the database has of a household is one bundle: its policy's        *)
(* restrictions are on its lots, whichever rung was stored first.          *)
THEOREM StoredOnce == GeneratorSpec => []StoredIsOneBundle
<1>1. GeneratorInit => StoredIsOneBundle
  BY DEF GeneratorInit, StoredIsOneBundle, Nothing
<1>2. StoredIsOneBundle /\ [GeneratorNext]_generatorVars => StoredIsOneBundle'
  <2> SUFFICES ASSUME StoredIsOneBundle, [GeneratorNext]_generatorVars PROVE StoredIsOneBundle'
    OBVIOUS
  <2>1. CASE Store
    <3>1. CASE IsStored \/ AddsTwice(draw, order)
      BY <2>1, <3>1 DEF Store, dbVars, StoredIsOneBundle
    <3>2. CASE stored = Nothing /\ ~AddsTwice(draw, order)
      BY <2>1, <3>2 DEF Store, StoredIsOneBundle, Nothing, IsStored
    <3> QED BY <3>1, <3>2 DEF IsStored
  <2>2. CASE \E o \in Orders : Emit(o)
    BY <2>2 DEF Emit, dbVars, StoredIsOneBundle
  <2>3. CASE StartSmoke \/ RunLeg \/ LegFails \/ Discard \/ UNCHANGED generatorVars
    BY <2>3 DEF StartSmoke, RunLeg, LegFails, Discard, generatorVars, dbVars, StoredIsOneBundle
  <2> QED BY <2>1, <2>2, <2>3 DEF GeneratorNext
<1> QED BY <1>1, <1>2, PTL DEF GeneratorSpec

-----------------------------------------------------------------------------
(* A stress household has no fund and no commodities, so its lots are all  *)
(* it has, and each view is a sleeve; its bands were drawn around itself,  *)
(* but for the equity's, which ends just under what the sleeve weighs.     *)

LEMMA StressWeights ==
    ASSUME NEW d \in SeedDraws, NEW o \in Orders, d.cohort = "concentrated_stress",
           NEW w, w = WeightsOf(d, o)
    PROVE  /\ w \in Weights
           /\ w["alternatives"] = 0 /\ w["commodities"] = 0
           /\ Sum(w) \in Nat /\ Sum(w) > 0
<1>1. CASE o.ablated
  <2>1. w = [s \in Sleeves |-> IF Has(d, s) THEN 1 ELSE 0]
    BY <1>1 DEF WeightsOf
  <2>2. w \in Weights
    BY <2>1 DEF Weights
  <2>3. /\ w["equity"] = 1 /\ w["fixed_income"] = 1 /\ w["cash"] = 1
        /\ w["alternatives"] = 0 /\ w["commodities"] = 0
    BY <2>1 DEF Has, Ranges, Range, None, Sleeves
  <2> QED BY <2>2, <2>3 DEF Sum
<1>2. CASE ~o.ablated
  <2>1. w = d.raw
    BY <1>2 DEF WeightsOf
  <2>2. \A s \in {"alternatives", "commodities"} : w[s] \in Nat /\ w[s] <= Precision * 0
    <3>1. Ranges[d.cohort]["alternatives"].hi = 0 /\ Ranges[d.cohort]["commodities"].hi = 0
      BY DEF Ranges, Range, None
    <3> QED BY <2>1, <3>1, DrawTypes, Amounts DEF Sleeves
  <2>3. w["alternatives"] = 0 /\ w["commodities"] = 0
    BY <2>2, DrawsAssumption
  <2> QED BY <2>1, <2>3, DrawTypes, SumPositive
<1> QED BY <1>1, <1>2

LEMMA ViewsAreSleeves ==
    ASSUME NEW d \in SeedDraws, NEW o \in Orders, NEW w \in Weights,
           w["alternatives"] = 0, w["commodities"] = 0, NEW s \in Targets(w)
    PROVE  LotsNav(w) = Nav(w) /\ ViewNav(d, o, w, s) = SleeveNav(w, s)
<1>1. /\ Called(w) = 0 /\ Nav(w) \in Nat
      /\ \A t \in Sleeves : SleeveNav(w, t) = 200 * w[t] /\ w[t] \in Nat
  BY Amounts DEF Sleeves
<1>2. LotsNav(w) = Nav(w)
  BY <1>1 DEF LotsNav
<1>3. s \in {"equity", "fixed_income", "cash"} /\ s \in Sleeves
  BY DEF Targets, Sleeves
<1>4. Issuer(d, o, w) \in Int
  <2>1. Concentrate(d, o) \in Nat /\ Unit \div 100 = 2
    BY IssuerAmount, SMT DEF Unit
  <2>2. w["equity"] \in Nat
    BY <1>1 DEF Sleeves
  <2> QED BY <2>1, <2>2, SMT DEF Issuer
<1> DEFINE h == Holdings(d, o, w)
<1>5. /\ h["VTI"] = SleeveNav(w, "equity") - Issuer(d, o, w) /\ h["AAPL"] = Issuer(d, o, w)
      /\ h["BND"] = SleeveNav(w, "fixed_income") /\ h["CASH"] = SleeveNav(w, "cash")
      /\ h["DBC"] = SleeveNav(w, "commodities")
  BY DEF Holdings, Tickers
<1> HIDE DEF h
<1>6. CASE s = "equity"
  <2>1. ViewNav(d, o, w, s) = h["VTI"] + h["AAPL"] + h["DBC"]
    BY <1>6 DEF ViewNav, h
  <2>2. SleeveNav(w, "commodities") = 0 /\ SleeveNav(w, "equity") \in Int
    BY <1>1 DEF Sleeves
  <2> QED BY <1>2, <1>4, <1>5, <1>6, <2>1, <2>2
<1>7. CASE s = "fixed_income"
  BY <1>2, <1>5, <1>7 DEF ViewNav, h
<1>8. CASE s = "cash"
  BY <1>2, <1>5, <1>8 DEF ViewNav, h
<1> QED BY <1>3, <1>6, <1>7, <1>8

(* Scaling both sides of a comparison by the net asset value.              *)
LEMMA Scaled ==
    ASSUME NEW x \in Int, NEW y \in Int, NEW n \in Nat, n > 0
    PROVE  x * n < y * n <=> x < y
<1>1. CASE x < y
  <2>1. (y - x) * n > 0
    BY <1>1, SMT
  <2>2. (y - x) * n = y * n - x * n
    BY SMT
  <2>3. x * n \in Int /\ y * n \in Int
    BY SMT
  <2> QED BY <1>1, <2>1, <2>2, <2>3
<1>2. CASE x >= y
  <2>1. (x - y) * n >= 0
    BY <1>2, SMT
  <2>2. (x - y) * n = x * n - y * n
    BY SMT
  <2>3. x * n \in Int /\ y * n \in Int
    BY SMT
  <2> QED BY <1>2, <2>1, <2>2, <2>3
<1> QED BY <1>1, <1>2

(* The drift of a sleeve from its own target is not what raises an alert.  *)
LEMMA StressBands ==
    ASSUME NEW d \in SeedDraws, d.cohort = "concentrated_stress", NEW w \in Weights,
           Sum(w) > 0, NEW s \in Targets(w)
    PROVE  /\ MinNav(d, w, s) \in Int /\ MaxNav(d, w, s) \in Int /\ SleeveNav(w, s) \in Int
           /\ TargetNav(d, w, s) \in Int
           /\ SleeveNav(w, s) - TargetNav(d, w, s) <= Nav(w) \div 20
           /\ TargetNav(d, w, s) - SleeveNav(w, s) <= Nav(w) \div 20
<1> DEFINE S == Sum(w)
<1>1. /\ S \in Nat /\ S > 0 /\ w[s] \in Nat /\ SleeveNav(w, s) = 200 * w[s] /\ w[s] <= S
      /\ Nav(w) = 200 * S /\ Nav(w) \div 100 = 2 * S /\ Nav(w) \div 200 = S
  BY Amounts DEF Targets
<1> HIDE DEF S
<1>2. Nav(w) \div 20 = 10 * S
  BY <1>1, SMT
<1>3. Priors[d.cohort].band = 2
  BY DEF Priors
<1>4. Headroom(d, w, s) = IF s = "equity" THEN -S ELSE 4 * S
  BY <1>1, <1>3 DEF Headroom
<1>5. MaxNav(d, w, s) \in Int
  BY <1>1, <1>4 DEF MaxNav
<1>6. CASE s = "equity"
  <2>1. Headroom(d, w, s) = -S /\ MaxNav(d, w, s) = 200 * w[s] - S
    BY <1>1, <1>4, <1>6 DEF MaxNav
  <2>2. TargetNav(d, w, s) = 200 * w[s] - S
    BY <1>1, <2>1 DEF TargetNav
  <2>3. MinNav(d, w, s) \in Int
    BY <1>1, <1>3, <2>2 DEF MinNav
  <2> QED BY <1>1, <1>2, <1>5, <2>2, <2>3
<1>7. CASE s # "equity"
  <2>1. TargetNav(d, w, s) = 200 * w[s]
    BY <1>1, <1>4, <1>7 DEF TargetNav
  <2>2. MinNav(d, w, s) \in Int
    BY <1>1, <1>3, <2>1 DEF MinNav
  <2> QED BY <1>1, <1>2, <1>5, <2>1, <2>2
<1> QED BY <1>6, <1>7

LEMMA StressAlerts ==
    ASSUME NEW d \in SeedDraws, NEW o \in Orders, d.cohort = "concentrated_stress",
           NEW w, w = WeightsOf(d, o), NEW s \in Targets(w)
    PROVE  SleeveAlert(d, o, w, s) <=> SleeveBinds(d, w, s)
<1> DEFINE n == Nav(w)
           x == SleeveNav(w, s)
           lo == MinNav(d, w, s)
           hi == MaxNav(d, w, s)
           t == TargetNav(d, w, s)
           k == Nav(w) \div 20
<1>1. w \in Weights /\ w["alternatives"] = 0 /\ w["commodities"] = 0
      /\ Sum(w) \in Nat /\ Sum(w) > 0
  BY StressWeights
<1>2. LotsNav(w) = n /\ ViewNav(d, o, w, s) = x
  BY <1>1, ViewsAreSleeves
<1>3. n \in Nat /\ n > 0
  BY <1>1, Amounts
<1>4. lo \in Int /\ hi \in Int /\ x \in Int /\ t \in Int /\ x - t <= k /\ t - x <= k
  BY <1>1, StressBands
<1>5. k \in Int
  BY <1>3, SMT
<1>6. SleeveAlert(d, o, w, s) <=>
         x * n < lo * n \/ x * n > hi * n \/ x * n - t * n > k * n \/ t * n - x * n > k * n
  BY <1>2 DEF SleeveAlert
<1>7. SleeveBinds(d, w, s) <=> x < lo \/ x > hi
  BY DEF SleeveBinds
<1> HIDE DEF n, x, lo, hi, t, k
<1>8. x * n < lo * n <=> x < lo
  BY <1>3, <1>4, Scaled
<1>9. hi * n < x * n <=> hi < x
  BY <1>3, <1>4, Scaled
<1>10. x * n \in Int /\ lo * n \in Int /\ hi * n \in Int /\ t * n \in Int /\ k * n \in Int
  BY <1>3, <1>4, <1>5, SMT
<1>11. x * n - t * n = (x - t) * n /\ t * n - x * n = (t - x) * n
  BY <1>3, <1>4, SMT
<1>12. ~(k * n < (x - t) * n) /\ ~(k * n < (t - x) * n)
  <2>1. x - t \in Int /\ t - x \in Int /\ ~(k < x - t) /\ ~(k < t - x)
    BY <1>4, <1>5
  <2> QED BY <1>3, <1>5, <2>1, Scaled
<1>13. ~(x * n - t * n > k * n) /\ ~(t * n - x * n > k * n)
  BY <1>10, <1>11, <1>12
<1> QED BY <1>4, <1>6, <1>7, <1>8, <1>9, <1>10, <1>13

(* The drift report finds a stress household out of exactly the bands the  *)
(* validator finds it out of, for every draw at every precision and also   *)
(* with its weights made equal (daily_drift_report, validate_ips).         *)
THEOREM MonitorAgreement == GeneratorSpec => []MonitorAgrees
<1>1. Judged => MonitorAgrees
  <2> SUFFICES ASSUME Judged, draw.cohort = "concentrated_stress"
               PROVE  DriftAlerts(draw, order, AtHand)
                          = {s \in Targets(AtHand) : SleeveBinds(draw, AtHand, s)}
    BY DEF MonitorAgrees
  <2>1. draw \in SeedDraws /\ order \in Orders
    BY DEF Judged
  <2>2. PICK w : w = AtHand
    OBVIOUS
  <2>3. \A s \in Targets(w) : SleeveAlert(draw, order, w, s) <=> SleeveBinds(draw, w, s)
    BY <2>1, <2>2, StressAlerts DEF AtHand
  <2> QED BY <2>2, <2>3 DEF DriftAlerts
<1> QED BY <1>1, JudgedAlways, PTL
=============================================================================
