------------------------------ MODULE MCPanel -------------------------------
EXTENDS Panel, TLC

CONSTANTS n1, n2, pin1, g1, r1, r2, f1, f2, f3

\* One form of each kind that is replayed and told, replayed only, told only.
McKind == [f \in Forms |-> CASE f = f1 -> "redeem" [] f = f2 -> "bonus" [] f = f3 -> "prepaid"]

Symmetry == Permutations(Names) \cup Permutations(Chats) \cup Permutations(Requests)
=============================================================================
