SPECIFICATION FairSpec
CONSTANTS
    Events = {e1, e2}
    Loops = {l1, l2}
    Requests = {r1}
    NoEvent = noEvent
    Remediable = {e1}
    BatchLimit = 2
    MaxAttempts = 2
    MaxRequeues = 1
    MaxSlow = 1
    MaxFaults = 1
INVARIANTS
    OneHolder
    RetryBudget
PROPERTIES
    ImplementsDelivery
CHECK_DEADLOCK FALSE
