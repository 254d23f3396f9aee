SPECIFICATION FairSpec
CONSTANTS
    p1 = p1
    p2 = p2
    k1 = k1
    k2 = k2
    Processes = {p1, p2}
    Sockets = {k1, k2}
    Home <- TwoHomes
    AgentHome = p2
    Calls = {c1, c2}
    NoProcess = noProcess
    NoSocket = noSocket
    MaxCalls = 3
    MaxOverlaps = 1
    MaxTroubles = 1
INVARIANTS
    NeverUndercounted
PROPERTIES
    GraceKeepsControllers
    EndIsFinal
    NoLimbo
    AbandonedEnds
CHECK_DEADLOCK FALSE
