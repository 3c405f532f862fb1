SPECIFICATION FairSpec
CONSTANTS
    s1 = s1  j1 = j1  j2 = j2  r1 = r1  r2 = r2  p1 = p1  d1 = d1  d2 = d2
    None = None  Gone = Gone
    Scheds = {s1}
    Jobs = {j1, j2}
    Critical = {j1}
    MaxConc = 1
    Restores = {r1, r2}
    Probes = {}
    Copies <- OneDb
    MaxAcks = 0
PROPERTIES CriticalJobStarts ImplementsWorkOrSwap
INVARIANTS TypeOK
CHECK_DEADLOCK FALSE
