------------------------------- MODULE IngestLog -------------------------------
(***************************************************************************)
(* What the ingest commands promise, whatever happens inside them: the     *)
(* record grows by one whole run at a time, under the file that run was    *)
(* handed, and a file that cannot be read never gets there.                *)
(***************************************************************************)
CONSTANTS
    Runs,       \* run ids
    Kinds,      \* the commands that ingest
    Files,      \* custodian files
    Readable(_) \* the file parses, and every ticker in it is known

VARIABLES
    handed,     \* the runs begun, each with the file it was handed
    log         \* the runs on record

Init == handed = {} /\ log = {}

Hand(run, kind, file) ==
    /\ run \notin {e.run : e \in handed}
    /\ handed' = handed \cup {[run |-> run, kind |-> kind, file |-> file]}
    /\ UNCHANGED log

Record(e) ==
    /\ e \notin log
    /\ Readable(e.file)
    /\ log' = log \cup {e}
    /\ UNCHANGED handed

Next ==
    \/ \E run \in Runs, kind \in Kinds, file \in Files : Hand(run, kind, file)
    \/ \E e \in handed : Record(e)

Spec == Init /\ [][Next]_<<handed, log>>
=============================================================================
