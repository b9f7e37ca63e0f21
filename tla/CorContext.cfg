CONSTANTS
    Conns = {c1}
    Workers = {w1, w2}
    NumPlaces = 1
    NoConn = NoConn
    NoWorker = NoWorker
    ConnTimeo = 1
    KaTimeo = 1
    MaxRequests = 2
    RespLen = 1
    Window = 1
    MaxEvents = 1
    MaxRoutines = 6
    Env = {}
SPECIFICATION Spec
INVARIANT ContextSafe
CHECK_DEADLOCK FALSE
