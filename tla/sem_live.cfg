SPECIFICATION FairSpec
CONSTANTS
    s1 = s1  s2 = s2
    a = a  b = b  c = c  idle = idle
    Thread <- Threads2
    Idle = idle
    PRIO_MAX = 3
    InitPrio <- SamePrio
    List = {s1}
    Flag <- Fifo
    VALUE_MAX = 2
    InitValue = 1
    Resets = {}
    Deletable = {}
    NewPrio = {}
    NoObject = NoObject
PROPERTIES FifoServed TimedWaitEnds
