SPECIFICATION FairSpec
CONSTANTS
    Nobody = Nobody
    Ips = {a, b}
    Requests = {r1, r2}
    maxRequests = 2
    maxVisitors = 1
    evictSampleSize = 1
    window = 1
    MaxTime = 3
INVARIANTS LimitHolds OverrunIsTheSweeps
PROPERTY Answered
CHECK_DEADLOCK FALSE
