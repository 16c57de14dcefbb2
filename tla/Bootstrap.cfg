\* Two processes on a new database, and on older ones
\* without any of the later features, whose policy has a turnover budget.
CONSTANTS
    p1 = p1  p2 = p2
    MaxMissing = 7
    Procs = {p1, p2}
    Rows <- DemoRows
    Edges <- DemoEdges
    Guard <- DemoGuard
    Household = "household"
    Checks <- DemoChecks
    Databases <- MCDatabases
    Legacy = FALSE
SPECIFICATION Spec
SYMMETRY Symmetry
INVARIANTS SeedIsWhole
PROPERTIES Idempotent
