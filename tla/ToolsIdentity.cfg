\* Scans only, with the identity that is minted, and one other event.
SPECIFICATION Spec
CONSTANTS
    user = user
    admin = admin
    Statics = {}
    Minted = {admin}
    ScanIdentities = {admin}
    Plans = {}
    CallKinds = {"scan"}
    Others = {"scan"}
    Statuses = {"completed"}
    Configs = {c1}
    First = c1
    MaxScopes = 1
    MaxEdits = 0
    Idle = 0
    MaxRuns = 3
    MaxCalls = 4
    MaxMishaps = 1
    MaxGeneration = 2
INVARIANT ScanCarriesItsCredential
CHECK_DEADLOCK FALSE
