SPECIFICATION FairSpec
CONSTANTS
    n1 = n1
    n2 = n2
    n3 = n3
    Nodes <- MCNodes
    NoNode = NoNode
    FaultKinds = {"crash", "restart"}
    MaxFaults = 1
    ExpireRounds = 2
    InitJoined = 3
    InitGossiped = TRUE
PROPERTY RingConverges
