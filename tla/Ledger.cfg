CONSTANTS
    cap = cap
    crw = crw
    Hosts = {cap, crw}
    Joins = {cap}
    HostKind <- MCKind
    HostSources <- MCSources
    Idle = 1
    MaxRuns = 2
    MaxRecords = 2
    MaxMishaps = 2
    Instants = {0, 1, 3}
SPECIFICATION Spec
INVARIANTS
    BooksAgree
    FloorHolds
PROPERTY FirstEndStands
CHECK_DEADLOCK FALSE
