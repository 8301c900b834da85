\* One second is four ticks.  Three tokens a second and a bucket of two: the
\* rate does not divide a token, so the retry-after has to round.
CONSTANTS
    OneRequest = 4
    RatePerSecond = 3
    Burst = 2
    MaxRequests = 6
    Horizon = 9
SPECIFICATION Spec
INVARIANTS
    SustainedRate
    SetBackNeverMints
PROPERTIES
    RetryIsExact
