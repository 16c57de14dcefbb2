\* Everything may happen: failures, re-rendering, two snapshots, two requests.
CONSTANTS
    p1 = p1  p2 = p2  s1 = s1  s2 = s2  d1 = d1  d2 = d2
    Procs = {p1, p2}
    NoProc = NoProc
    Snapshots = {s1, s2}
    Digests = {d1, d2}
    MaxStamp = 2
    Rerender = TRUE
    Faults = TRUE
SPECIFICATION Spec
SYMMETRY Symmetry
INVARIANTS PdfsAreBacked
PROPERTIES GatesHoldAtCommit
\* Requests are bounded by MaxStamp, and a build stops when ids run out.
CHECK_DEADLOCK FALSE
