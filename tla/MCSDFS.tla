------------------------------- MODULE MCSDFS -------------------------------
EXTENDS SDFS

CONSTANTS n1, n2, n3, f1

MCNodes == {n1, n2, n3}

\* HashKeys in ring order n1 < n2 < n3, and f1 hashes between n1 and n2:
\* with REPLICA_COUNT 2 its replicas are n1, n2 in the ring {n1, n2} and
\* n2, n3 once n3 has joined.
MCPos == n1 :> 100 @@ n2 :> 300 @@ n3 :> 500

MCKey == f1 :> 200

====
