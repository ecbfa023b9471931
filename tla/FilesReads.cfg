SPECIFICATION Spec
CONSTANTS
    Names = {a}
    Workers = {w1, w2}
    Repairers = {r1}
    Containers = {c1, c2, c3}
    N = 3
    K = 2
    Data = {x, y}
    Empty = Empty
    Garbage = Garbage
    Nil = Nil
    INVALID_CONTAINER_ID = INVALID_CONTAINER_ID
    MaxVersion = 1
    batchSize = 1
    Ops = {"write", "read"}
    Flaky = {}
    Faults = {}
    verifyChunkChecksum = FALSE
    MaxLeft = 0
SYMMETRY Symmetry
CONSTRAINT FewLeft
INVARIANTS ReadsConsistent NoLeakedLock NoOrphans
CHECK_DEADLOCK FALSE
