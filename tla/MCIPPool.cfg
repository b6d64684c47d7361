SPECIFICATION FairSpec
CONSTANTS
    IPs = {a, b}
    Queries = {q1, q2}
    Exempt = {a}
    Latencies = {100}
    DegradedUpTo = 1
    MaxedUpTo = 2
    FailModulus = 4
    WindowSize = 1
    MaxLives = 2
    MaxQueries = 2
    None = None
INVARIANTS TypeOK SuspectsComeLast
PROPERTIES RecordsKept SuspectsRecover
