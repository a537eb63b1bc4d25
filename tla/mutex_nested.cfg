SPECIFICATION Spec
CONSTANTS
    m1 = m1  m2 = m2
    a = a  b = b  c = c  idle = idle
    Thread <- Threads2
    Idle = idle
    PRIO_MAX = 3
    InitPrio <- TwoPrios
    List = {m1, m2}
    Flag <- ByPrio
    Deletable = {m1}
    NewPrio = {0}
    NoObject = NoObject
    HOLD_MAX = 2
    Discipline = "any"
    NoThread = NoThread
    NO_PRIO = 255
INVARIANTS KernelKept MutualExclusion OwnerKnows
CHECK_DEADLOCK FALSE
