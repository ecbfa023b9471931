SPECIFICATION MSpec
CONSTANTS
    Names = {a, b}
    Workers = {w1, w2}
    Repairers = {}
    Containers = {c1, c2}
    N = 2
    K = 1
    Data = {x, y}
    Empty = Empty
    Garbage = Garbage
    Nil = Nil
    INVALID_CONTAINER_ID = INVALID_CONTAINER_ID
    MaxVersion = 1
    batchSize = 1
    Ops = {"write"}
    Flaky = {}
    Faults = {}
    verifyChunkChecksum = FALSE
    MaxLeft = 1
    MoveOps = {"rename"}
SYMMETRY MSymmetry
CONSTRAINT MFewLeft
INVARIANTS SettledAvailable
CHECK_DEADLOCK FALSE
