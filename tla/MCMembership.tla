---------------------------- MODULE MCMembership ----------------------------
(***************************************************************************)
(* Instances of Membership for TLC: two sessions; two purchases, one that  *)
(* drains the smaller deposit and one that leaves something, and a third   *)
(* with a campaign picked by hand; two sales; deposits of one day.         *)
(***************************************************************************)
EXTENDS Membership, TLC

CONSTANTS s1, s2, p1, p2, f1, a1, a2

McPurchases == {p1, p2, f1}
McCost == (p1 :> 2) @@ (p2 :> 1) @@ (f1 :> 1)
McPaid == (a1 :> 2) @@ (a2 :> 3)

Symmetry == Permutations(Sessions)
=============================================================================
