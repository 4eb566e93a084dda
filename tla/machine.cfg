CONSTANTS
    t1 = t1
    t2 = t2
    NULL = NULL
    Threads = {t1, t2}
    ByteBits = 2
    GeneralRegs = {0, 1, 2, 3, 4, 5, 31}
    PageSize = 8
    Inputs <- SmallInputs
    SC_Halt = 0
    SC_Exit = 1
    SC_Add = 42
    SC_Send = 47
    SC_Receive = 48
    OtherCalls = {7, 17}
    Results = {0, 255}
CHECK_DEADLOCK FALSE
SPECIFICATION Spec
INVARIANTS
    UnalignedAccess
    MultIsExact
PROPERTIES
    Isolation
