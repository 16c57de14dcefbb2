\* Sessions that do not overlap; two requests, a run of two trades and one of one.
CONSTANTS
    p1 = p1  p2 = p2  a1 = a1  a2 = a2  r1 = r1  r2 = r2
    t1 = t1  t2 = t2  b1 = b1  b2 = b2
    Procs = {p1, p2}
    Requests = {a1, a2}
    Runs = {r1, r2}
    NoRun = NoRun
    Trades = {t1, t2}
    TradesOf <- MCTradesOf
    Batches = {b1, b2}
    Households = {"hh1"}
    HouseholdOf <- MCHouseholdOf
    MaxAudit = 2
    Exclusive = TRUE
SPECIFICATION Spec
SYMMETRY Symmetry
INVARIANTS OneDecision StagedOnce
PROPERTIES ImplementsGate
\* A database in which every request is rejected offers nothing more to do.
CHECK_DEADLOCK FALSE
