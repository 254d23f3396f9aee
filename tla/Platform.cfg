SPECIFICATION PlatformSpec
CONSTANTS
    Setup = setup
    Other = other
    Dtos = {d1, d2}
    Installs = {q1, q2}
    NoKey = noKey
    OwnKey = ownKey
    MaxSaves = 2
    MaxDeaths = 2
    Procs = {p1, p2}
    Releases = {r0, r1, r2}
    Rebuilt = {r1, r2}
    VersionOf <- Versions
    First = r0
    NoRelease = noRelease
    MaxQueued = 2
    MaxMishaps = 1
    Tokens = {t1, t2}
    NodeInstalls = {i1}
    Hosts = {h1, h2}
    Self = h1
    Callers = {c1, c2}
    Poller = poller
    MaxNodes = 2
    MaxEnrOps = 3
    MaxFaults = 1
INVARIANTS
    InstallationConsistent
    
    ApprovedHasNode
PROPERTIES
    SetupFinishes
    ApplySettles
    EnrollmentSettles
CHECK_DEADLOCK FALSE
