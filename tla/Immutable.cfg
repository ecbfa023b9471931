SPECIFICATION Spec
CONSTANTS
    Files = {f1, f2}
    Contents = {c1}
    Procs = {p1}
    Sessions = {s1}
    Kinds = {"write", "modify", "read", "delete", "rename", "copy"}
    Inputs <- MCInputs
    Nil = Nil
    MaxTime = 6
    MaxOps = 1
    Requested = {"i", "d"}
    MaxChanges = 2
    MaxFaults = 1
INVARIANTS HoldsEnforced
PROPERTIES NeverShortened HoldsFollow
SYMMETRY MCSymmetry
