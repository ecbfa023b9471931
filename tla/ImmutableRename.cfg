SPECIFICATION Spec
CONSTANTS
    Files = {f1, f2}
    Contents = {c1}
    Procs = {p1}
    Sessions = {s1}
    Kinds = {"delete", "rename"}
    Inputs <- MCInputs
    Nil = Nil
    MaxTime = 6
    MaxOps = 1
    Requested = {"i", "d"}
    MaxChanges = 1
    MaxFaults = 0
INVARIANT DeniedAsDocumented
SYMMETRY MCSymmetry
