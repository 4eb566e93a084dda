CONSTANTS
    t1 = t1
    t2 = t2
    t3 = t3
    EOF = EOF
    Threads = {t1, t2, t3}
    InputLength = 3
    InputFiles = {{}, {3}}
    MaxOutput = 3
CHECK_DEADLOCK FALSE
SPECIFICATION Spec
INVARIANTS
    DeviceAssertions
    InputInOrder
    InputEndsAtEOF
PROPERTIES
    ImplementsSynchronousDevice
    CharIsTaken
    DisplayIsFreed
