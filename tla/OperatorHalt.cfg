\* Stale after one tick, a clock set back by one under each answer.  Commands
\* one at a time, their rows stamped with either of two instants.
CONSTANTS
    StaleAfter = 1
    MaxAge = 3
    MaxSetBack = 1
    Commands = {c1}
    Overlap = FALSE
    MaxTime = 1
SPECIFICATION SystemSpec
INVARIANTS
    ExposureIsBounded
    FileAndRowAgree
PROPERTIES
    LiftIsRecorded
    HaltLands
    ClearsItself
