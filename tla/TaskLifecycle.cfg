SPECIFICATION Spec
CONSTANTS
    Tasks = {t1}
    Workers = {w1, w2}
    Requests = {r1}
    Detector = detector
    NoTask = noTask
    NoWorker = noWorker
    Outcomes = {"success", "failed"}
    Realtime = TRUE
    MaxClaims = 2
    MaxCrashes = 1
INVARIANTS
    StartedOnce
    LeasedHasLease
    EventsFollowRow
CHECK_DEADLOCK FALSE
