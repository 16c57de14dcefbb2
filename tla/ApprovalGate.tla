---------------------------- MODULE ApprovalGate -----------------------------
(***************************************************************************)
(* What the approval gate promises, without sessions, audit rows or order  *)
(* identifiers: a request is decided once, an approved optimization run is *)
(* turned into one order per trade once, and orders move along their       *)
(* edges.  ApprovalOms implements this as long as sessions do not overlap. *)
(***************************************************************************)
CONSTANTS Requests, Runs, NoRun, Trades, TradesOf

VARIABLES
    decision,   \* decision[a]: "absent", "pending", "approved" or "rejected"
    run,        \* run[a]: the optimization run signed off, NoRun for a report
    order       \* order[a][t]: status of the order for trade t, or "absent"

vars == <<decision, run, order>>

NoOrders == [t \in Trades |-> "absent"]

Init ==
    /\ decision = [a \in Requests |-> "absent"]
    /\ run = [a \in Requests |-> NoRun]
    /\ order = [a \in Requests |-> NoOrders]

Request(a, r) ==
    /\ decision[a] = "absent"
    /\ decision' = [decision EXCEPT ![a] = "pending"]
    /\ run' = [run EXCEPT ![a] = r]
    /\ UNCHANGED order

Decide(a, d) ==
    /\ decision[a] = "pending"
    /\ decision' = [decision EXCEPT ![a] = d]
    /\ UNCHANGED <<run, order>>

PlaceOrders(a) ==
    /\ run[a] # NoRun
    /\ order[a] = NoOrders
    /\ order' = [order EXCEPT ![a] =
                    [t \in Trades |-> IF t \in TradesOf[run[a]] THEN "staged"
                                                                ELSE "absent"]]

Stage(a) ==
    /\ decision[a] = "approved"
    /\ PlaceOrders(a)
    /\ UNCHANGED <<decision, run>>

ApproveAndStage(a) ==
    /\ decision[a] = "pending"
    /\ decision' = [decision EXCEPT ![a] = "approved"]
    /\ PlaceOrders(a)
    /\ UNCHANGED run

Advance(a, t, from, to) ==
    /\ order[a][t] = from
    /\ order' = [order EXCEPT ![a][t] = to]
    /\ UNCHANGED <<decision, run>>

Next ==
    \/ \E a \in Requests :
          \/ \E r \in Runs \cup {NoRun} : Request(a, r)
          \/ \E d \in {"approved", "rejected"} : Decide(a, d)
          \/ Stage(a)
          \/ ApproveAndStage(a)
    \/ \E a \in Requests, t \in Trades :
          \/ \E to \in {"submitted", "cancelled"} : Advance(a, t, "staged", to)
          \/ \E to \in {"filled", "cancelled"} : Advance(a, t, "submitted", to)

Spec == Init /\ [][Next]_vars
=============================================================================
