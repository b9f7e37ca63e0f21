CONSTANTS
    Conns = {c1, c2}
    Workers = {w1, w2, w3}
    NumPlaces = 2
    NoConn = NoConn
    NoWorker = NoWorker
    ConnTimeo = 1
    KaTimeo = 1
    MaxRequests = 3
    RespLen = 1
    Window = 1
    MaxEvents = 1
    MaxRoutines = 3
    Env = {}
SPECIFICATION LateEventSpec
INVARIANT RoutineExclusive
SYMMETRY Symmetry
CHECK_DEADLOCK FALSE
