CONSTANTS
    main = main
    a = a
    b = b
    Main = main
    Processes = {main, a, b}
    NumPhysPages = 8
    Programs <- MixedPrograms
    StackPages = 1
    Blank = Blank
    NULL = NULL
CHECK_DEADLOCK FALSE
SPECIFICATION Spec
INVARIANTS
    ImageIntact
    LoadAllOrNothing
