CONSTANTS
    t1 = t1
    t2 = t2
    t3 = t3
    m1 = m1
    m2 = m2
    NULL = NULL
    Machines = {m1, m2}
    Boxes = {0, 1}
    Clients = {t1, t2, t3}
    Senders = {t1, t2}
    Routes <- TwoBoxesThere
    MachineOf <- TwoHereOneThere
    MaxMessages = 3
CHECK_DEADLOCK FALSE
SPECIFICATION Spec
PROPERTIES
    ImplementsSynchronousDevice
    ImplementsLossyMail
    MailArrives
    SendReturns
