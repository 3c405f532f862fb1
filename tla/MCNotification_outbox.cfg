SPECIFICATION FairSpec
CONSTANTS
    d1 = d1  d2 = d2  o1 = o1  o2 = o2  s1 = s1  s2 = s2
    None = None
    Rows = {d1, d2}
    Age <- AgeTwo
    Occs = {o1, o2}
    Urgent = {o2}
    Senders = {s1, s2}
    MaxPerHour = 1
    MaxAttempts = 2
    Hour = 1
    Window = 2
    Lease = 1
    Backoff = 1
    Night = 1
    MaxNights = 2
    MaxFaults = 1
INVARIANTS TypeOK OneRowPerEvent HourlyCeiling SendsCounted
PROPERTIES EverySettles
CHECK_DEADLOCK FALSE
