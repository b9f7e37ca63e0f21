CONSTANTS
    Conns = {c1, c2}
    Workers = {w1, w2}
    NumPlaces = 2
    NoConn = NoConn
    NoWorker = NoWorker
    ConnTimeo = 1
    KaTimeo = 2
    MaxRequests = 1
    RespLen = 2
    Window = 1
    MaxEvents = 2
    Env = {"split", "bad", "fin"}
SPECIFICATION Spec
INVARIANTS TypeOK ArmedOrOwned NoCrash CalmInv
SYMMETRY Symmetry
