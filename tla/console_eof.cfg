CONSTANTS
    t1 = t1
    t2 = t2
    t3 = t3
    EOF = EOF
    Threads = {t1, t2}
    InputLength = 1
    InputFiles = {{}}
    MaxOutput = 1
CHECK_DEADLOCK FALSE
SPECIFICATION Spec
PROPERTIES
    GetCharSeesEOF
