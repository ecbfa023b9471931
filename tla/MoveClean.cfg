SPECIFICATION MSpec
CONSTANTS
    Names = {a, b}
    Workers = {w1}
    Repairers = {r1}
    Containers = {c1, c2}
    N = 2
    K = 2
    Data = {x, y}
    Empty = Empty
    Garbage = Garbage
    Nil = Nil
    INVALID_CONTAINER_ID = INVALID_CONTAINER_ID
    MaxVersion = 1
    batchSize = 1
    Ops = {"write", "delete", "read"}
    Flaky = {}
    Faults = {"crash"}
    verifyChunkChecksum = FALSE
    MaxLeft = 1
    MoveOps = {"rename", "copy"}
SYMMETRY MSymmetry
CONSTRAINT MFewLeft
INVARIANTS SettledDurable
PROPERTIES MoveServiceSpec
CHECK_DEADLOCK FALSE
