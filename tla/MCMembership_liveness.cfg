SPECIFICATION FairSpec
CONSTANTS
    n1 = n1
    n2 = n2
    n3 = n3
    Nodes <- MCNodes
    NoNode = NoNode
    FaultKinds = {"crash", "pingloss"}
    MaxFaults = 2
    ExpireRounds = 2
    InitJoined = 3
    InitGossiped = TRUE
PROPERTIES RingConverges StaleForgotten
