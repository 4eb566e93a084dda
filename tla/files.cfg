CONSTANTS
    a = a
    f1 = f1
    f2 = f2
    socket = socket
    NULL = NULL
    MaxSize = 3
    Descriptors <- FewDescriptors
    Names = {a}
    Files = {f1, f2}
    MaxLength = 1
    MinSize <- Sunk
CHECK_DEADLOCK FALSE
SPECIFICATION Spec
INVARIANTS
    FilesOwnDescriptors
    CountNotAhead
