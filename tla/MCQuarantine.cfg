SPECIFICATION Spec
CONSTANTS
    f1 = f1  f2 = f2  r1 = r1  r2 = r2  r3 = r3  r4 = r4
    Files = {f1, f2}
    Requests = {r1, r2, r3, r4}
    Library = Library
    None = None
    MaxFaults = 3
    MaxOutside = 1
INVARIANTS TypeOK Journaled NothingLost SettledStaysAway OldWorkFirst
PROPERTIES RolledBackIsHome
SYMMETRY Alike
CONSTRAINT Few
CHECK_DEADLOCK FALSE
