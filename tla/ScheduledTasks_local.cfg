SPECIFICATION SchedulesSpec
CONSTANTS
    s1 = s1
    s2 = s2
    n1 = n1
    n2 = n2
    Processes = {p1, p2}
    NoProcess = noProcess
    LockMode = "local"
    MaxDrops = 0
    Schedules = {s1}
    Nodes = {n1, n2}
    Requests = {r1}
    Target <- TeamTarget
    Team = {s1}
    Root = {}
    Interval <- EveryMinute
    NoRun = noRun
    NoSchedule = noSchedule
    MaxTime = 2
    MaxFaults = 1
    MaxSlow = 1
    MaxOps = 3
    MaxChanges = 0
    PerHour = 4
    Zones <- SomeZones
    Timings <- SomeTimings
    Null = null
    Starts <- AroundTheChange
    Horizon <- TwelveDays
INVARIANTS
    OccurrencesOnce
    CalendarKept
SYMMETRY ScheduleSymmetry
CHECK_DEADLOCK FALSE
