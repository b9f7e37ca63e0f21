CONSTANTS
    Conns = {c1, c2}
    Workers = {w1, w2}
    NumPlaces = 2
    NoConn = NoConn
    NoWorker = NoWorker
    ConnTimeo = 0
    KaTimeo = 1
    MaxRequests = 1
    RespLen = 1
    Window = 1
    MaxEvents = 2
    Env = {"rst", "time", "accept"}
SPECIFICATION Spec
INVARIANTS IInv HandlerSafe SizeExact ArmInv
PROPERTY PoolSpec
SYMMETRY Symmetry
CHECK_DEADLOCK FALSE
