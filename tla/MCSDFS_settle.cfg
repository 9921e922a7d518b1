\* The ring settles after a join and a crash: REPLICA_COUNT, the write and
\* read levels scaled from 4, 3, 2 to 2, 2, 1 for a three-process ring
\* (W + R > REPLICA_COUNT still), one Put, Get or Delete pair of sequences.
CONSTANTS
    n1 = n1  n2 = n2  n3 = n3  f1 = f1
    Nodes <- MCNodes
    Files = {f1}
    Pos <- MCPos
    Key <- MCKey
    Ldr = n1
    Client = n2
    OpKinds = {"put", "get", "del"}
    InitMembers = {n1, n2}
    Joiners = {n3}
    R = 2
    ReadLevel = 1
    WriteLevel = 2
    MaxSeq = 2
    MaxCrashes = 1
    MaxJoins = 1
SPECIFICATION FairSpec
INVARIANT TypeOK
PROPERTY RingSettles
