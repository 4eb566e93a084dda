CONSTANTS
    t1 = t1
    t2 = t2
    t3 = t3
    NULL = NULL
    Threads = {t1, t2}
    NumTracks = 2
    SectorsPerTrack = 3
    SeekTime = 3
    RotationTime = 2
    MaxTicks = 11
CHECK_DEADLOCK FALSE
SPECIFICATION Spec
INVARIANTS
    OneRequestAtATime
    LatencyCoversSector
PROPERTIES
    ImplementsSynchronousDevice
    RequestCompletes
