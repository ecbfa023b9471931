SPECIFICATION FairSpec
CONSTANTS
    AgentIds = {a1, a2}
    Containers = {f1, s1, z1, l1}
    Names = {n1, n2, n3}
    Workers = {w1, w2}
    WorkerOf <- MCWorkerOf
    AgentOf <- MCAgentOf
    Type <- MCType
    Flaky = {f1, z1, s1, l1}
    Payloads = {d1, d2}
    Partial = Partial
    Garbage = Garbage
    Nil = Nil
    Batches <- MCBatches
    InitChunks <- MCInit
    MaxTime = 2
    a1 = a1
    a2 = a2
    f1 = f1
    s1 = s1
    z1 = z1
    l1 = l1
    w1 = w1
    w2 = w2
    n1 = n1
    n2 = n2
    n3 = n3
    d1 = d1
    d2 = d2
INVARIANTS MovedNotLost
PROPERTIES AckedStored RevertRestores WorkersFree
CHECK_DEADLOCK FALSE
