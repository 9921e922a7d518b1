SPECIFICATION Spec
CONSTANTS
    n1 = n1
    n2 = n2
    n3 = n3
    Nodes <- MCNodes
    NoNode = NoNode
    FaultKinds = {"crash", "restart", "leave", "pingloss", "joinloss"}
    MaxFaults = 1
    ExpireRounds = 2
    InitJoined = 2
    InitGossiped = FALSE
INVARIANT TypeOK
SYMMETRY NodeSymmetry
