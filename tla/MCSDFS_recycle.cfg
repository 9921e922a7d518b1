\* Read freshness across one join: two Puts and a Get, no crash.
CONSTANTS
    n1 = n1  n2 = n2  n3 = n3  f1 = f1
    Nodes <- MCNodes
    Files = {f1}
    Pos <- MCPos
    Key <- MCKey
    Ldr = n1
    Client = n2
    OpKinds = {"put", "get"}
    InitMembers = {n1, n2}
    Joiners = {n3}
    R = 2
    ReadLevel = 1
    WriteLevel = 2
    MaxSeq = 3
    MaxCrashes = 0
    MaxJoins = 1
SPECIFICATION Spec
INVARIANT ReadFreshness
