SPECIFICATION Spec
CONSTANTS
    Tasks = {t1}
    Workers = {w1}
    Requests = {r1}
    Detector = detector
    NoTask = noTask
    NoWorker = noWorker
    Outcomes = {"success", "failed"}
    Realtime = TRUE
    MaxClaims = 1
    MaxCrashes = 0
INVARIANT
    LogNeedsStart
CHECK_DEADLOCK FALSE
