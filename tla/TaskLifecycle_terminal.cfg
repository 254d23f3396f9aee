SPECIFICATION Spec
CONSTANTS
    Tasks = {t1}
    Workers = {w1}
    Requests = {r1, r2}
    Detector = detector
    NoTask = noTask
    NoWorker = noWorker
    Outcomes = {"success"}
    Realtime = FALSE
    MaxClaims = 2
    MaxCrashes = 0
PROPERTIES
    TerminalIsFinal
