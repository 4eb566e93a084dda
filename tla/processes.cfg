CONSTANTS
    shell = shell
    child = child
    NULL = NULL
    Garbage = Garbage
    MAX_PROCESS = 3
    MaxExecs = 4
    Programs = {shell, child}
    UninitializedPids <- PidsOfTwo
CHECK_DEADLOCK FALSE
SPECIFICATION Spec
INVARIANTS
    TableConsistent
    HandshakeOrder
    NoMutualWait
