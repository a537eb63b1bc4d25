SPECIFICATION Spec
CONSTANTS
    a = a  b = b  c = c
    pool = pool  waiters = waiters  defunct = defunct  done = done
    pushers = pushers  poppers = poppers
    b1 = b1  b2 = b2  w1 = w1  w2 = w2
    h1 = h1  h2 = h2  h3 = h3  s1 = s1  s2 = s2  caller = caller
    NIL = NIL
    Pool = {pool}
    Block = {b1, b2}
    COUNT_MAX = 2
    Completions = {done}
    Waiter <- OnlyA
    Clients = {a, b, c}
    TOKEN_MAX = 2
    COUNT = 3
    BUFFER_SIZE = 3
    Value = {0, 1, 2, 3, 4}
    Users = {b, c}
    HEADER = 3
    MIN_SIZE = 3
    HEAP_SIZE = 22
    Sizes = {2, 4, 10}
    None = NIL
    Thread = {a, b, c, idle}
    Idle = idle
    PRIO_MAX = 3
    InitPrio <- Prios
    List = {pool, waiters, defunct, done, pushers, poppers}
    Flag <- Fifo
    Deletable = {pool}
    NewPrio = {}
    NoObject = NoObject
VIEW View
INVARIANTS PoolsSound DeadStaysDead TimersInOrder SerialServed NoWorkForgotten DataQueueSound
    RingExact HeapSound PthreadsSound
PROPERTIES LockRespected TimersFireInTime DoneIsSeen
CHECK_DEADLOCK FALSE
