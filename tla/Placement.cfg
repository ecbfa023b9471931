CONSTANTS
    a1 = a1  a2 = a2  c1 = c1  c2 = c2  c3 = c3  c4 = c4  c5 = c5  c6 = c6
    Agents = {a1, a2}
    Containers = {c1, c2, c3, c4, c5, c6}
    Nil = Nil
    AgentSeq <- MCAgentSeq
    Configs <- MCConfigs
    Preset = {a1}
    Fillable = {c2}
    MaxEvents = 2
    N = 4  K = 1  F = 1
    Near = {a2}
    Policies = {"RR", "STATIC", "LU"}
    Stripes <- MCStripes
SPECIFICATION PlaceFairSpec
INVARIANTS RoutesMatch LiveAgentsKept SpareDistinct NewStripeSurvives
PROPERTIES NoTakeover DeadNoticed
CHECK_DEADLOCK FALSE
