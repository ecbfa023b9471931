SPECIFICATION MFairSpec
CONSTANTS
    Names = {a, b}
    Workers = {w1, w2}
    Repairers = {}
    Containers = {c1}
    N = 1
    K = 1
    Data = {x}
    Empty = Empty
    Garbage = Garbage
    Nil = Nil
    INVALID_CONTAINER_ID = INVALID_CONTAINER_ID
    MaxVersion = 0
    batchSize = 1
    Ops = {"write"}
    Flaky = {c1}
    Faults = {}
    verifyChunkChecksum = FALSE
    MaxLeft = 0
    MoveOps = {"rename", "copy"}
CONSTRAINT MFewLeft
INVARIANTS LocksHeld
PROPERTIES OperationsEnd
