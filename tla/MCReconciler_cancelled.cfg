SPECIFICATION RSpec
CONSTANTS
    a1 = a1  a2 = a2  e1 = e1  e2 = e2  w1 = w1  q1 = q1
    i1 = i1  u1 = u1  c1 = c1
    Attempts = {a1}
    Episodes = {e1}
    EpisodeOf <- EpisodeOfOne
    Workers = {}
    Queues = {q1}
    Issues = {i1}
    Units = {u1}
    Cands = {c1}
    IssueOf <- IssueOfOne
    UnitOf <- UnitOfOne
    None = None
    Lease = 1
    WorkerLease = 2
    Ttl = 2
    MaxTime = 3
    MaxRecoveries = 2
PROPERTIES CancelledStaysCancelled
CHECK_DEADLOCK FALSE
