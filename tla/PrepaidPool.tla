----------------------------- MODULE PrepaidPool -----------------------------
(***************************************************************************)
(* What a prepaid package promises: a pool of paid units.  A unit is used  *)
(* one at a time, only while one is left, and only a used unit comes back. *)
(***************************************************************************)
EXTENDS Integers

CONSTANT Pools

VARIABLES left, used

Init == left = [p \in Pools |-> 0] /\ used = [p \in Pools |-> 0]

Move(p, l, u) == left' = [left EXCEPT ![p] = l] /\ used' = [used EXCEPT ![p] = u]

Sell(p) == left[p] = 0 /\ used[p] = 0 /\ left'[p] \in Nat \ {0} /\ Move(p, left'[p], 0)
Use(p) == left[p] > 0 /\ Move(p, left[p] - 1, used[p] + 1)
GiveBack(p) == used[p] > 0 /\ Move(p, left[p] + 1, used[p] - 1)
Cancel(p) == Move(p, 0, used[p])

Next == \E p \in Pools : Sell(p) \/ Use(p) \/ GiveBack(p) \/ Cancel(p)

Spec == Init /\ [][Next]_<<left, used>>
=============================================================================
