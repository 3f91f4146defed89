---------------------------- MODULE MCCustomers ----------------------------
EXTENDS Broadcasts, TLC

CONSTANTS p1, p2, g1, g2, c1, r1, r2, b1

Symmetry == Permutations(Phones) \cup Permutations(Chats) \cup Permutations(Requests)
=============================================================================
