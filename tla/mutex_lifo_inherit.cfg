SPECIFICATION Spec
CONSTANTS
    m1 = m1  m2 = m2
    a = a  b = b  c = c  idle = idle
    Thread <- Threads3
    Idle = idle
    PRIO_MAX = 4
    InitPrio <- EachPrio
    List = {m1, m2}
    Flag <- ByPrio
    Deletable = {}
    NewPrio = {}
    NoObject = NoObject
    HOLD_MAX = 1
    Discipline = "lifo"
    NoThread = NoThread
    NO_PRIO = 255
INVARIANT Inherited
