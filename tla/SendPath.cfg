CONSTANTS
    a = a
    b = b
    None = None
    Targets <- MCTargets
    Configs <- MCConfigs
    DefaultBudget = 2
    Proxies = {p1}
    MaxEpoch = 2
SPECIFICATION Spec
INVARIANTS
    EpochGrantedIt
    SpentWithinBudget
    ClosedStaysDenied
    HeldIsNotIssued
    LimitsInForceWhenLoopArmed
CHECK_DEADLOCK FALSE
