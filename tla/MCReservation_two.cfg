SPECIFICATION Spec
CONSTANTS
    a1 = a1  a2 = a2  e1 = e1  e2 = e2  w1 = w1  q1 = q1  q2 = q2
    i1 = i1  i2 = i2  u1 = u1  c1 = c1  c2 = c2
    Attempts = {a1, a2}
    Episodes = {e1, e2}
    EpisodeOf <- EpisodeOfTwo
    Workers = {}
    Queues = {q1, q2}
    Issues = {i1, i2}
    Units = {u1}
    Cands = {c1, c2}
    IssueOf <- IssueOfTwo
    UnitOf <- UnitOfTwo
    None = None
    Lease = 1
    WorkerLease = 2
    Ttl = 2
    MaxTime = 3
INVARIANTS OneReservedPerUnit StartedFollowsCandidate
PROPERTIES OwnershipSpec
CONSTRAINT NothingImported
SYMMETRY TwoSymmetry
CHECK_DEADLOCK FALSE
