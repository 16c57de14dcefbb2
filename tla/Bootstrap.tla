------------------------------- MODULE Bootstrap -------------------------------
(***************************************************************************)
(* What every command does first: record the migration that Alembic has    *)
(* brought the database to, and seed it.  A database without the demo      *)
(* household gets everything; an older one is topped up, check by check.   *)
(*                                                                         *)
(* A session reads what is committed at the moment of each check and       *)
(* writes all it found missing at its commit.  Rows with a natural key     *)
(* cannot be stored twice: the commit fails on the first that is there,    *)
(* and the whole session with it.  Relationships have no such key.         *)
(*                                                                         *)
(* Left out: the migrations themselves, and what the rows say.             *)
(***************************************************************************)
EXTENDS Naturals, Sequences

CONSTANTS
    Procs,      \* processes
    Rows,       \* groups of rows with natural keys
    Edges,      \* relationships
    Guard,      \* the row each relationship came with
    Household,  \* the row a full seed looks for
    Checks,     \* the checks of a top-up, the market prices first
    Databases,  \* the rows older seeds may have left
    Legacy      \* TRUE: with a policy from before migration 005

(* The order of the checks matters: a relationship is added beside the row *)
(* it came with, or looked for after that row.                             *)
ASSUME SeedAssumption ==
    /\ Rows \cap Edges = {}
    /\ Household \in Rows
    /\ Guard \in [Edges -> Rows]
    /\ Checks \in Seq([probe : Rows \cup Edges, edges : SUBSET Edges])
    /\ Len(Checks) > 1
    /\ \A i \in DOMAIN Checks :
          /\ Checks[i].probe # Household
          /\ \A e \in Checks[i].edges :
                \/ Checks[i].probe = Guard[e]
                \/ Checks[i].probe = e /\ \E j \in 1..(i - 1) : Checks[j].probe = Guard[e]
          /\ Checks[i].probe \in Edges => Checks[i].edges = {Checks[i].probe}
    /\ Checks[1].probe \in Rows
    /\ \A e \in Edges : Guard[e] # Checks[1].probe
    /\ \A e \in Edges : Guard[e] # Household => \E i \in DOMAIN Checks :
          /\ e \in Checks[i].edges
          /\ \A j \in DOMAIN Checks : Checks[j].probe = Guard[e] => j <= i
    /\ \A r \in Rows \ {Household} : \E i \in DOMAIN Checks : Checks[i].probe = r
    /\ Databases \subseteq SUBSET Rows
    /\ \A old \in Databases : old = {} \/ Household \in old
    /\ Legacy \in BOOLEAN

VARIABLES
    rows,       \* committed rows
    edges,      \* how often each relationship is committed
    policy,     \* the committed policy statement of the demo household
    meta,       \* how often the head revision is recorded
    settled,    \* what some command has completed: "meta", "seed" (history)
    sess        \* what each process is doing

db == <<rows, edges, policy>>
vars == <<db, meta, settled, sess>>

-----------------------------------------------------------------------------
Idle == [pc |-> "idle"]
Commands == {"upgrade", "seed", "bootstrap"}

(* after is what was settled when the command began.                       *)
Session ==
         [pc : {"idle"}]
    \cup [pc : {"meta", "household"}, cmd : Commands, after : SUBSET {"meta", "seed"}]
    \cup [pc : {"record"}, cmd : Commands, after : SUBSET {"meta", "seed"},
          insert : BOOLEAN]
    \cup [pc : {"check", "policy", "commit"}, after : SUBSET {"meta", "seed"},
          full : BOOLEAN, at : 1..(Len(Checks) + 1), adds : SUBSET Rows,
          links : SUBSET Edges, write : {"nothing", "delete", "insert"}]

TypeOK ==
    /\ rows \subseteq Rows
    /\ edges \in [Edges -> Nat]
    /\ policy \in {"none", "legacy", "current"}
    /\ meta \in Nat
    /\ settled \subseteq {"meta", "seed"}
    /\ sess \in [Procs -> Session]

(* An empty database, or what an older version made of it.                 *)
Init ==
    /\ rows \in Databases
    /\ edges = [e \in Edges |-> IF Guard[e] \in rows THEN 1 ELSE 0]
    /\ policy \in IF rows = {} THEN {"none"}
                  ELSE {"none", "current"} \cup IF Legacy THEN {"legacy"} ELSE {}
    /\ meta \in {0, 1}
    /\ settled = {}
    /\ sess = [p \in Procs |-> Idle]

Goto(p, session) == sess' = [sess EXCEPT ![p] = session]

-----------------------------------------------------------------------------
(* `db upgrade`, `db seed`, and bootstrap_database, which is both.         *)
Begin(p, cmd) ==
    /\ sess[p] = Idle
    /\ Goto(p, [pc |-> IF cmd = "seed" THEN "household" ELSE "meta",
                cmd |-> cmd, after |-> settled])
    /\ UNCHANGED <<db, meta, settled>>

(* Mutant: no look-up of the revision.                                     *)
ReadMeta_Blind(p) ==
    /\ sess[p].pc = "meta"
    /\ Goto(p, [pc |-> "record", cmd |-> sess[p].cmd, after |-> sess[p].after,
                insert |-> TRUE])
    /\ UNCHANGED <<db, meta, settled>>

(* record_migration_meta looks for the revision.                           *)
ReadMeta(p) ==
    /\ sess[p].pc = "meta"
    /\ Goto(p, [pc |-> "record", cmd |-> sess[p].cmd, after |-> sess[p].after,
                insert |-> meta = 0])
    /\ UNCHANGED <<db, meta, settled>>

RecordMeta(p) ==
    /\ sess[p].pc = "record"
    /\ meta' = IF sess[p].insert THEN meta + 1 ELSE meta
    /\ settled' = settled \cup {"meta"}
    /\ Goto(p, IF sess[p].cmd = "upgrade" THEN Idle
               ELSE [pc |-> "household", cmd |-> sess[p].cmd, after |-> sess[p].after])
    /\ UNCHANGED db

(* seed_demo_data: everything but the prices, or a top-up.                 *)
ReadHousehold(p) ==
    LET full == Household \notin rows
    IN  /\ sess[p].pc = "household"
        /\ Goto(p, [pc |-> "check", after |-> sess[p].after, full |-> full, at |-> 1,
                    adds |-> IF full THEN Rows \ {Checks[1].probe} ELSE {},
                    links |-> IF full THEN Edges ELSE {},
                    write |-> "nothing"])
        /\ UNCHANGED <<db, meta, settled>>

Missing(probe) == IF probe \in Rows THEN probe \notin rows ELSE edges[probe] = 0

(* One check; the policy's turn comes after the prices.                    *)
ReadCheck(p) ==
    LET s == sess[p]
        check == Checks[s.at]
        found == ~Missing(check.probe)
    IN  /\ s.pc = "check"
        /\ Goto(p, [s EXCEPT !.pc = IF s.at = 1 THEN "policy"
                                    ELSE IF s.at = Len(Checks) THEN "commit" ELSE "check",
                             !.at = s.at + 1,
                             !.adds = IF found THEN @ ELSE @ \cup ({check.probe} \cap Rows),
                             !.links = IF found THEN @ ELSE @ \cup check.edges])
        /\ UNCHANGED <<db, meta, settled>>

(* Mutant: a stored policy is replaced whatever it says.                   *)
PolicyWrite_Replaces ==
    IF policy = "none" THEN "insert" ELSE "delete"

(* seed_ips_policy.  A policy without a turnover budget is deleted, and    *)
(* the demo policy merged onto the object that is marked deleted: the      *)
(* flush deletes the row and inserts nothing.  An absent policy is looked  *)
(* for twice, here and by merge; the second time counts.                   *)
PolicyWrite ==
    CASE policy = "none" -> "insert"
      [] policy = "legacy" -> "delete"
      [] policy = "current" -> "nothing"

ReadPolicy(p) ==
    /\ sess[p].pc = "policy"
    /\ Goto(p, [sess[p] EXCEPT !.pc = IF sess[p].full THEN "commit" ELSE "check",
                               !.write = PolicyWrite])
    /\ UNCHANGED <<db, meta, settled>>

(* Mutant: rows that are there are skipped.                                *)
Collides_PolicyOnly(s) == s.write = "insert" /\ policy # "none"

(* UNIQUE constraint failed                                                *)
Collides(s) ==
    \/ s.adds \cap rows # {}
    \/ s.write = "insert" /\ policy # "none"

Commit(p) ==
    LET s == sess[p]
    IN  /\ s.pc = "commit" /\ ~Collides(s)
        /\ rows' = rows \cup s.adds
        /\ edges' = [e \in Edges |-> IF e \in s.links THEN edges[e] + 1 ELSE edges[e]]
        /\ policy' = CASE s.write = "nothing" -> policy
                       [] s.write = "delete" -> "none"
                       [] s.write = "insert" -> "current"
        /\ settled' = settled \cup {"seed"}
        /\ Goto(p, Idle)
        /\ UNCHANGED meta

CommitFails(p) ==
    /\ sess[p].pc = "commit" /\ Collides(sess[p])
    /\ Goto(p, Idle)
    /\ UNCHANGED <<db, meta, settled>>

(* A crash, or the database is locked.                                     *)
Abort(p) ==
    /\ sess[p] # Idle
    /\ Goto(p, Idle)
    /\ UNCHANGED <<db, meta, settled>>

-----------------------------------------------------------------------------
ProcNext(p) ==
    \/ \E cmd \in Commands : Begin(p, cmd)
    \/ ReadMeta(p) \/ RecordMeta(p)
    \/ ReadHousehold(p) \/ ReadCheck(p) \/ ReadPolicy(p)
    \/ Commit(p) \/ CommitFails(p)
    \/ Abort(p)

Next == \E p \in Procs : ProcNext(p)

Spec == Init /\ [][Next]_vars

-----------------------------------------------------------------------------
(* However many seeds overlap and wherever they stop, a row comes with     *)
(* each of its relationships, and no relationship is stored twice although *)
(* nothing in the table forbids it (seed_beneficiary_edges looks for the   *)
(* beneficiaries before their edges).                                      *)
LinkedOnce ==
    \A e \in Edges : edges[e] = IF Guard[e] \in rows THEN 1 ELSE 0

(* Once a seed has committed, the database has everything, although each   *)
(* check read it at another moment.                                        *)
SeedIsComplete ==
    "seed" \in settled => rows = Rows /\ policy = "current"

(* The demo data are there once, and all of them after a seed.             *)
SeedIsWhole == LinkedOnce /\ SeedIsComplete

(* A seed that begins when another has committed changes nothing, and so   *)
(* for the record of the migration ("Idempotent demo seed").               *)
Idempotent ==
    [][\A p \in Procs :
          /\ sess[p].pc = "commit" /\ "seed" \in sess[p].after /\ sess'[p] = Idle
                 => UNCHANGED db
          /\ sess[p].pc = "record" /\ "meta" \in sess[p].after /\ sess'[p] # sess[p]
                 => UNCHANGED meta]_vars
=============================================================================
