CONSTANTS
    t1 = t1
    t2 = t2
    full = full
    empty = empty
    NoName = NoName
    MAX_SEMAPHORE = 2
    Threads = {t1, t2}
    Names = {full, empty}
    InitialValues <- SmallValues
    MinValue <- Lowest
CHECK_DEADLOCK FALSE
SPECIFICATION Spec
PROPERTY
    SignalReleases
