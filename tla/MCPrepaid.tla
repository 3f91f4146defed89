----------------------------- MODULE MCPrepaid -----------------------------
(* Instances of Prepaid for TLC. *)
EXTENDS Prepaid, TLC

CONSTANTS p1, p2, o1, o2, u1, u2, s1, s2

\* A single cup, and a larger package; one of them expires.
Cups == {[qty |-> 1, life |-> 0], [qty |-> 2, life |-> 1]}
LapsingCup == {[qty |-> 1, life |-> 1], [qty |-> 2, life |-> 0]}

Symmetry ==
  Permutations(Sessions) \cup Permutations(Packages)
    \cup Permutations(Opens) \cup Permutations(Uses)
=============================================================================
