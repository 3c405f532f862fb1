SPECIFICATION Spec
CONSTANTS
    s1 = s1  j1 = j1  j2 = j2  r1 = r1  r2 = r2  p1 = p1  d1 = d1  d2 = d2
    None = None  Gone = Gone
    Scheds = {}
    Jobs = {}
    Critical = {}
    MaxConc = 1
    Restores = {r1, r2}
    Probes = {p1}
    Copies <- TwoDbs
    MaxAcks = 2
SYMMETRY Sym
INVARIANTS UncopiedKeepsWrites ReportIsTrue
PROPERTIES DoneIsWhole
CHECK_DEADLOCK FALSE
