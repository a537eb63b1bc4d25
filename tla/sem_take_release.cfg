SPECIFICATION Spec
CONSTANTS
    s1 = s1  s2 = s2
    a = a  b = b  c = c  idle = idle
    Thread <- Threads3
    Idle = idle
    PRIO_MAX = 3
    InitPrio <- SamePrio
    List = {s1, s2}
    Flag <- FifoAndPrio
    VALUE_MAX = 2
    InitValue = 1
    Resets = {}
    Deletable = {}
    NewPrio = {}
    NoObject = NoObject
INVARIANTS TypeOK Preemptive HighestPrioFirst
PROPERTY KeepsPromise
