---------------------------- MODULE MCMembership ----------------------------
EXTENDS Membership, TLC

CONSTANTS n1, n2, n3

MCNodes == {n1, n2, n3}

NodeSymmetry == Permutations(MCNodes)

====
