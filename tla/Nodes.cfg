SPECIFICATION NodesSpec
CONSTANTS
    Processes = {p1, p2}
    Sockets = {k1, k2}
    NoSocket = noSocket
    NoProcess = noProcess
    MaxBusy = 1
    MaxTroubles = 1
    AgentCalls = {a1}
    Requests = {r1}
    Cron = cron
    Profiles = {{}, {"task"}}
    MaxGrants = 1
    MaxTokens = 2
    MaxOps = 2
    MaxRaces = 1
    MaxMishaps = 1
INVARIANTS
    OneSessionPerProcess
    NoRevival
PROPERTIES
    NoZombieSession
    ConnectedIsReachable
    GoneIsOffline
    RootEnds
CHECK_DEADLOCK FALSE
