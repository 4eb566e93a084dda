CONSTANTS
    t1 = t1
    t2 = t2
    t3 = t3
    t4 = t4
    lock = lock
    NULL = NULL
    Threads = {t1, t2, t3, t4}
    MaxItems = 3
    Operations = {"Append", "RemoveFront", "Apply"}
CHECK_DEADLOCK FALSE
SPECIFICATION Spec
INVARIANTS
    MutualExclusion
    HolderSurvivesSignal
    WaiterLifetime
    NoLostSignal
PROPERTIES
    ItemIsTaken
