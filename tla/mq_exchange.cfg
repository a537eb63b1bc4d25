SPECIFICATION Spec
CONSTANTS
    mq = mq  v1 = v1  v2 = v2  u = u
    a = a  b = b   idle = idle
    Thread <- Threads2
    Idle = idle
    PRIO_MAX = 3
    InitPrio <- TwoPrios
    List = {mq}
    Flag <- Fifo
    Deletable = {mq}
    NewPrio = {}
    NoObject = NoObject
    Block = {1, 2}
    NIL = 0
    Message = {v1, v2, u}
    Urgent = {u}
    NoMessage = NoMessage
    Resettable = {mq}
INVARIANTS BlocksAccounted NoLostWakeup
PROPERTY KeepsOrder
CHECK_DEADLOCK FALSE
SYMMETRY Symmetry
