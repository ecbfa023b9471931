SPECIFICATION FairSpec
CONSTANTS
    Files = {f1}
    Procs = {p1}
    Modes <- MCModes
    Nil = Nil
    Torn = Torn
    MaxTime = 4
    MaxWrites = 4
    MaxFaults = 1
INVARIANTS ReadsCurrent StagedKept
PROPERTIES WrittenBack
