CONSTANTS
    Conns = {c1}
    Workers = {w1, w2, w3}
    NumPlaces = 1
    NoConn = NoConn
    NoWorker = NoWorker
    ConnTimeo = 1
    KaTimeo = 1
    MaxRequests = 3
    RespLen = 2
    Window = 1
    MaxEvents = 1
    Env = {"split", "bad", "fin", "shutdown"}
SPECIFICATION FairSpec
INVARIANTS ResponseIntegrity ParseFaithful
PROPERTIES Answered FinClosed MainProgress
CHECK_DEADLOCK FALSE
