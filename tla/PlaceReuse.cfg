CONSTANTS
    Conns = {c1, c2, c3}
    Workers = {w1}
    NumPlaces = 3
    NoConn = NoConn
    NoWorker = NoWorker
    ConnTimeo = 0
    KaTimeo = 0
    MaxRequests = 0
    RespLen = 1
    Window = 1
    MaxEvents = 1
    Env = {"time"}
SPECIFICATION Spec
INVARIANT TimeoutSafe
CHECK_DEADLOCK FALSE
