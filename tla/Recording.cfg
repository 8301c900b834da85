\* A queue of one and one request waiting: the second of either evicts.  The
\* drain is started once, as the extension does.
CONSTANTS
    Spelled = {op}
    Unattributed = un
    Proxies = {p1, p2}
    Unloader = unl
    None = None
    Capacity = 1
    PendingCapacity = 1
    MaxMessages = 2
    MaxStarts = 1
SPECIFICATION Spec
INVARIANTS
    Accounted
    StoppedHoldsNothing
    ToldIsLost
PROPERTIES
    NobodyWaitsForTheDrain
    LossesGetOut
CHECK_DEADLOCK FALSE
