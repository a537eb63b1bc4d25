SPECIFICATION Spec
CONSTANTS
    mb = mb  mbs = mbs  v1 = v1  v2 = v2
    a = a  b = b  c = c  idle = idle
    Thread <- Threads3
    Idle = idle
    PRIO_MAX = 3
    InitPrio <- TwoPrios
    List = {mb, mbs}
    Flag <- Fifo
    Deletable = {mb}
    NewPrio = {}
    NoObject = NoObject
    Mailboxes = {mb}
    suspend_sender_thread <- SendersOf
    SIZE = 2
    Mail = {v1, v2}
    NoMail = NoMail
    Resettable = {mb}
INVARIANTS TypeOK NoLostWakeup
PROPERTY KeepsOrder
CHECK_DEADLOCK FALSE
SYMMETRY Symmetry
VIEW View
