SPECIFICATION Spec
CONSTANTS
    user = user
    admin = admin
    Statics = {user}
    Minted = {admin}
    ScanIdentities = {admin, "none"}
    Plans <- MCPlans
    CallKinds = {"manual", "scan"}
    Others = {"scan"}
    Statuses = {"completed"}
    Configs = {c1, c2}
    First = c1
    MaxScopes = 2
    MaxEdits = 1
    Idle = 0
    MaxRuns = 3
    MaxCalls = 4
    MaxMishaps = 1
    MaxGeneration = 2
INVARIANTS
    SessionIsOurs
    OneResolution
    RecordedFirst
CHECK_DEADLOCK FALSE
