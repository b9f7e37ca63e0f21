CONSTANTS
    Clients = {c1, c2}
    NoClient = NoClient
    NumFd = 2
    ReqLen = 3
    RespLen = 3
    BufSize = 2
    Window = 2
    Env = {"abort", "refuse", "hangup", "nofile"}
SPECIFICATION Spec
INVARIANTS TypeOK IInv EventFindsOwner RegistrationExact AnswerIntegrity
PROPERTIES NotDropped ClientsEnd ClosedLeaves
CHECK_DEADLOCK FALSE
