CONSTANTS
    None = None
    Configurers = {conf}
    Senders = {snd}
    Operators = {op}
    MaxConn = 2
    MaxRequest = 2
    MaxHalt = 1
SPECIFICATION Spec
INVARIANTS
    SidesAgree
    TripIsKnownFirst
    HaltReachesPeer
PROPERTY EveryCallReturns
CHECK_DEADLOCK FALSE
