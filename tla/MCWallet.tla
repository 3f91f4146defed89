------------------------------ MODULE MCWallet ------------------------------
(* Instances of Wallet for TLC. *)
EXTENDS Wallet, TLC

CONSTANTS p1, p2, p3, s1, s2

Earn(amount, life) == [amount |-> amount, life |-> life]
Plan(spend, earn) == [spend |-> spend, earn |-> earn]

\* Cashback that expires; a payment; a payment in a purchase that earns from two
\* stackable campaigns, once for ever.
MCPlans ==
  [p \in Sales |->
     CASE p = p1 -> {Plan(0, <<Earn(3, 1)>>)}
       [] p = p2 -> {Plan(2, <<>>)}
       [] p = p3 -> {Plan(2, <<Earn(2, 0), Earn(1, 1)>>)}]

Symmetry == Permutations(Sessions)
=============================================================================
