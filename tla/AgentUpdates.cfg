SPECIFICATION FairSpec
CONSTANTS
    Rollouts = {r1}
    Width = 2
    Selections = {{1, 2}}
    Versions = {"v1"}
    FirstVersion = "v0"
    Reports = {"installing", "waiting_for_reconnect", "failed"}
    Calls = {c1}
    Monitor = monitor
    NoRollout = noRollout
    MaxTasks = 2
    MaxCalls = 5
    MaxRaced = 3
    MaxTroubles = 1
INVARIANTS
    NodeByNode
    FailurePauses
PROPERTIES
    CancelIsFinal
    RolloutSettles
CHECK_DEADLOCK FALSE
