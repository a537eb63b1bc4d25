SPECIFICATION Spec
CONSTANTS
    ev = ev  x = x  y = y  z = z
    a = a  b = b  idle = idle
    Thread <- Threads2
    Idle = idle
    PRIO_MAX = 3
    InitPrio <- TwoPrios
    List = {ev}
    Flag <- Fifo
    Deletable = {ev}
    NewPrio = {}
    NoObject = NoObject
    Bit = {x, y, z}
    Resettable = {ev}
INVARIANTS NoMissedEvent WakesEarned
PROPERTY ClearConsumes
CHECK_DEADLOCK FALSE
SYMMETRY Symmetry
