\* One process and one run; nothing fails but the parser.
CONSTANTS
    p1 = p1  p2 = p2  p3 = p3  u1 = u1  u2 = u2  u3 = u3
    NoId = NoId
    Procs = {p1}
    NoProc = NoProc
    Runs = {u1}
    Files <- MCTwoFiles
    DemoFile <- Clean
    NoFile = NoFile
    Books <- MCBooks
    Faults = FALSE
SPECIFICATION Spec
INVARIANTS FailureRecorded
\* Every run id may be used up.
CHECK_DEADLOCK FALSE
