SPECIFICATION FairSpec
CONSTANTS
    Names = {a}
    NumStripes = 1
    Workers = {k1}
    MaxVersion = 1
    MaxEvents = 1
INVARIANTS ReplacedRemoved
PROPERTIES TasksDone PendingCleared
CHECK_DEADLOCK FALSE
