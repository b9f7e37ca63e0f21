CONSTANTS
    a = a
    b = b
    Objs = {a, b}
    Pids = {1, 2}
    MaxFd = 6
    Cap = 1
    MaxData <- DataBounds
SPECIFICATION Spec
INVARIANTS TypeOK IInv DescriptorsExact ChildrenOwned EchoInOrder
PROPERTIES CloseReturns WriteReturns EofReached
CHECK_DEADLOCK FALSE
