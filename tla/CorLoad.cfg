CONSTANTS
    Conns = {c1, c2}
    Workers = {w1, w2}
    NumPlaces = 2
    NoConn = NoConn
    NoWorker = NoWorker
    ConnTimeo = 0
    KaTimeo = 0
    MaxRequests = 2
    RespLen = 2
    Window = 1
    MaxEvents = 2
    MaxRoutines = 3
    Env = {"split", "bad", "fin", "time", "rst"}
SPECIFICATION LoadSpec
INVARIANTS TypeOK ClosedExact ResponseIntegrity SuspendedArmed
SYMMETRY Symmetry
CHECK_DEADLOCK FALSE
