SPECIFICATION Spec
CONSTANTS
    app = app
    admin = admin
    api = api
    here = here
    there = there
    next = next
    id = id
    session = session
    Surfaces = {app, admin, api}
    KindOf <- MCKindOf
    PointsOf <- MCPointsOf
    Hinted <- MCHinted
    Unprobeable = {session}
    LargeBodies = FALSE
    Attempts = 2
    SurfaceSeq <- MCSurfaceSeq
    Options <- MCOptions
    Origin <- MCOrigin
    Applied = {here, there}
    Honoured = {here}
    DueEvery = 2
    FailingWrites = {"probes"}
INVARIANTS
    RetiredMeansGone
    ProvenIsEarned
    SpentCoversIssued
    TruncationIsTold
    CleanMeansExamined
PROPERTIES
    KeepsItsPromise
    ScanEnds
CHECK_DEADLOCK FALSE
