SPECIFICATION Spec
CONSTANTS
    s1 = s1  s2 = s2
    a = a  b = b  c = c  idle = idle
    Thread <- Threads2
    Idle = idle
    PRIO_MAX = 3
    InitPrio <- SamePrio
    List = {s1, s2}
    Flag <- FifoAndPrio
    VALUE_MAX = 2
    InitValue = 1
    Resets = {0, 2}
    Deletable = {s1}
    NewPrio = {0, 1}
    NoObject = NoObject
INVARIANTS Coherent NoIdleTokens NobodyStranded DeletedIsDrained
CHECK_DEADLOCK FALSE
