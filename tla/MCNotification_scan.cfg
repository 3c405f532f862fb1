SPECIFICATION FairSpec
CONSTANTS
    t1 = t1  t2 = t2  s1 = s1  s2 = s2
    Tasks = {t1, t2}
    Scanners = {s1, s2}
    Batch = 1
    MaxStamp = 3
    MaxFaults = 1
INVARIANTS TypeOK PassedIsRecorded FailedAfterGrabbed
PROPERTIES GrabReported
