SPECIFICATION RecordsSpec
CONSTANTS
    Tasks = {t1}
    Workers = {w1}
    Requests = {r1}
    Detector = detector
    NoTask = noTask
    NoWorker = noWorker
    Outcomes = {"success"}
    Realtime = FALSE
    MaxClaims = 2
    MaxCrashes = 1
    LastEvent = 3
    Tries = 2
    MaxFailures = 1
    Ids = {home, other, spare}
    Home = home
    Spare = spare
    Reqs = {q1, q2}
    MaxWsOps = 2
    MaxRestarts = 1
    Root = root
    Guest = guest
    Links = {l1, l2}
    AccReqs = {a1, a2}
    MaxAccOps = 3
    MaxCodes = 2
    Providers = {i1, i2}
    Slugs = {s1}
    People = {u1, u2}
    Emails = {m1, m2}
    Subjects = {x1}
    Flows = {f1, f2}
    MaxChanges = 4
INVARIANTS
    LogNeedsStart
    HandledOnce
    WorkspacesConsistent
    SessionsEnd
    OneTimeSecrets
    AdminRemains
    SubjectOneUser
PROPERTIES
    UnstartedTerminalIsFinal
    Settles
    BootRepairs
CHECK_DEADLOCK FALSE
