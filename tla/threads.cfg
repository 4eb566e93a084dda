CONSTANTS
    t1 = t1
    t2 = t2
    t3 = t3
    disk = disk
    NULL = NULL
    Threads = {t1, t2, t3}
    Main = t1
    Semaphores = {disk}
    DeviceSemaphores = {disk}
    InitialValue <- AllZero
    MaxValue = 2
SPECIFICATION Spec
INVARIANTS
    TypeOK
    ThreadPlacement
    KernelAssertions
    YieldOnlyInTick
    ModeFollowsThread
    RegistersFollowThread
    NoLostWakeup
PROPERTIES
    ReadyListIsFIFO
    ImplementsCountingSemaphore
    ReadyThreadRuns
    SemaphoreIsLive
