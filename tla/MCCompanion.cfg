SPECIFICATION FairSpec
CONSTANTS
    j1 = j1  j2 = j2  r1 = r1  r2 = r2  p1 = p1
    Jobs = {j1, j2}
    Age <- AgeTwo
    Runs = {r1, r2}
    Procs = {p1}
    ProcOf <- ProcOfTwo
    Slots = 1
    None = None
    Lease = 1
    Retry = 1
INVARIANTS TypeOK LinkedMeansCompleted
PROPERTIES OnlyHolderEnds ImplementsLeasedWork OrphanTakenUp DueJobClaimed
CHECK_DEADLOCK FALSE
