\* Two processes, three runs, four files of one name, and any session may fail.
CONSTANTS
    p1 = p1  p2 = p2  p3 = p3  u1 = u1  u2 = u2  u3 = u3
    NoId = NoId
    Procs = {p1, p2}
    NoProc = NoProc
    Runs = {u1, u2, u3}
    Files <- MCFiles
    DemoFile <- Clean
    NoFile = NoFile
    Books <- MCBooks
    Faults = TRUE
SPECIFICATION FairSpec
INVARIANTS WholeRuns OwnFile BreaksAnnounced
PROPERTIES ImplementsLog LockReleased
\* Every run id may be used up.
CHECK_DEADLOCK FALSE
