CONSTANTS
    p1 = p1
    p2 = p2
    k1 = k1
    k2 = k2
    short = short
    long = long
    Procs = {p1, p2}
    Parent = p1
    NoProc = NoProc
    Keys = {k1, k2}
    Vals = {short, long}
    NoVal = NoVal
    NumBlocks = 5
    NodeBlocks = 1
    KeyBlocks <- MCKeyBlocks
    ValBlocks <- MCValBlocks
SPECIFICATION Spec
INVARIANTS TypeOK BlocksExact NodesExact SemExact
PROPERTY Linearizable
CHECK_DEADLOCK FALSE
