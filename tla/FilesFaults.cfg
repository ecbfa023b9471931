SPECIFICATION Spec
CONSTANTS
    Names = {a}
    Workers = {w1}
    Repairers = {r1}
    Containers = {c1, c2}
    N = 2
    K = 1
    Data = {x, y}
    Empty = Empty
    Garbage = Garbage
    Nil = Nil
    INVALID_CONTAINER_ID = INVALID_CONTAINER_ID
    MaxVersion = 1
    batchSize = 1
    Ops = {"write", "delete"}
    Flaky = {c1, c2}
    Faults = {"putMeta", "crash"}
    verifyChunkChecksum = FALSE
    MaxLeft = 1
SYMMETRY Symmetry
CONSTRAINT FewLeft
INVARIANTS TypeOK Exclusive Durable
PROPERTIES VersionsGrow ServiceSpec
CHECK_DEADLOCK FALSE
