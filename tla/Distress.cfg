\* The window leaves room for one answer between streaks one short of the
\* limit, twice: 4 = 2 * 2.  A latency of 3 is above both the floor and
\* twice a baseline of one, which a negative latency is raised to.
CONSTANTS
    Hosts = {h1, h2}
    NoHost = NoHost
    Window = 4
    WindowTicks = 1
    Baseline = 2
    MaxErrors = 2
    RateNum = 1
    RateDen = 2
    Multiple = 2
    Floor = 2
    Latencies = {3}
    Readings = {0, 2}
    MaxRecords = 5
SPECIFICATION DistressSpec
INVARIANTS
    FailingIsSeen
    SlowIsSeen
    BlameIsEarned
\* The budget ends the run.
CHECK_DEADLOCK FALSE
