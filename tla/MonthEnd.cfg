\* Two batches at once, four households, two dates, three packs, any failure.
CONSTANTS
    p1 = p1  p2 = p2  s1 = s1  s2 = s2  s3 = s3  h1 = h1  h2 = h2  h3 = h3  h4 = h4
    Procs = {p1, p2}
    NoProc = NoProc
    Households = {h1, h2, h3, h4}
    Reportable = {h1, h2, h3}
    Lists <- MCLists
    Dates = {1, 2}
    Snapshots = {s1, s2, s3}
    NoSnap = NoSnap
    Faults = TRUE
SPECIFICATION Spec
SYMMETRY Symmetry
INVARIANTS PacksAreWhole PriorIsNearest
PROPERTIES AllOrNothing
\* A batch stops when the snapshot ids run out.
CHECK_DEADLOCK FALSE
