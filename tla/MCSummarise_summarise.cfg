SPECIFICATION FairSpec
CONSTANTS
    s1 = s1
    s2 = s2
    s3 = s3
    m = m
    f = f
    Symbols = {s1, s2, s3}
    Bigger <- MCBigger
    Nodes = {m, f}
    Node <- MCNode
    Limits = {2, 3}
    Concurrency = 2
    AbortAfter = 1
    WindowFloor = 2
    NoSummary = NoSummary
    MaxRuns = 2
    MaxFaults = 2
INVARIANTS BreakerTrips
PROPERTIES NoCallAfterAbort ReportIsTrue SummariesKept RunEnds
CHECK_DEADLOCK FALSE
