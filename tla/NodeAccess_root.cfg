SPECIFICATION AccessSpec
CONSTANTS
    AgentCalls = {a1}
    Requests = {r1}
    Cron = cron
    Profiles = {{}, {"task"}}
    MaxGrants = 1
    MaxTokens = 1
    MaxOps = 1
    MaxRaces = 0
    MaxMishaps = 0
INVARIANTS
    RootNeedsGrant
CHECK_DEADLOCK FALSE
