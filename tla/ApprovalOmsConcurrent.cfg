\* Two overlapping sessions on one request; the run trades t1 and not t2.
CONSTANTS
    p1 = p1  p2 = p2  a1 = a1  a2 = a2  r1 = r1  r2 = r2
    t1 = t1  t2 = t2  b1 = b1  b2 = b2
    Procs = {p1, p2}
    Requests = {a1}
    Runs = {r1}
    NoRun = NoRun
    Trades = {t1, t2}
    TradesOf <- MCOneTrade
    Batches = {b1, b2}
    Households = {"hh1"}
    HouseholdOf <- MCHouseholdOf
    MaxAudit = 2
    Exclusive = FALSE
SPECIFICATION Spec
SYMMETRY Symmetry
INVARIANTS SignedOff Explained
PROPERTIES NeverReopened
\* A database in which every request is rejected offers nothing more to do.
CHECK_DEADLOCK FALSE
