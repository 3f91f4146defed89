--------------------------- MODULE MCLoyaltyCards ---------------------------
(* Instances of LoyaltyCards for TLC. *)
EXTENDS LoyaltyCards

CONSTANTS a, b, g, f, r1, r2, s1, s2

\* A cup, and two cups, which fill a card or finish one and start the next; a
\* stamp or a coffee as a present.
MCUnits == [r \in Purchases \cup StampGrants \cup FreeGrants |-> IF r = b THEN 2 ELSE 1]

Symmetry == Permutations(Sessions) \cup Permutations(Redeems)
=============================================================================
