CONSTANTS
    c1 = c1
    c2 = c2
    w1 = w1
    w2 = w2
    Clients = {c1, c2}
    Workers = {w1, w2}
    Scenarios <- MCScenarios
    MaxRequests = 2
    MaxFaults = 1
    MaxSize = 1
    NoFile = NoFile
    Failed = Failed
    Garbage = Garbage
SPECIFICATION FairSpec
INVARIANTS WorkersServe ConnectionsUsable
PROPERTIES CallSpec RequestsAnswered
CHECK_DEADLOCK FALSE
