CONSTANTS
    Conns = {c1, c2}
    Workers = {w1}
    NumPlaces = 2
    NoConn = NoConn
    NoWorker = NoWorker
    ConnTimeo = 0
    KaTimeo = 0
    MaxRequests = 0
    RespLen = 1
    Window = 1
    MaxEvents = 2
    Env = {"fin", "time"}
SPECIFICATION FairSpec
PROPERTY IdleClosed
CHECK_DEADLOCK FALSE
