\* Two processes, each now a dashboard, now an advisor; two requests.
CONSTANTS
    p1 = p1  p2 = p2  r1 = r1  r2 = r2
    Procs = {p1, p2}
    NoProc = NoProc
    Requests = {r1, r2}
    NoRequest = NoRequest
    Visited = {"research", "execution"}
SPECIFICATION Spec
SYMMETRY Symmetry
INVARIANTS CleanPageHasItsDemo OrdersAreBacked SettledPagesAreQuiet
PROPERTIES FirstPageDecidesOnlyPending
