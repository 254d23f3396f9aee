SPECIFICATION FairSpec
CONSTANTS
    s1 = s1
    s2 = s2
    n1 = n1
    n2 = n2
    Processes = {p1, p2}
    NoProcess = noProcess
    LockMode = "advisory"
    MaxDrops = 1
    Schedules = {s1, s2}
    Nodes = {n1, n2}
    Requests = {}
    Target <- NodeTarget
    Team = {}
    Root = {s1}
    Interval <- EveryMinute
    NoRun = noRun
    NoSchedule = noSchedule
    MaxTime = 1
    MaxFaults = 1
    MaxSlow = 0
    MaxOps = 2
    MaxChanges = 2
PROPERTIES
    EveryOccurrenceRuns
CHECK_DEADLOCK FALSE
