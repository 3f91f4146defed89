------------------------------ MODULE Deposit ------------------------------
(***************************************************************************)
(* What a VIP deposit promises: the money paid is there to be spent for as *)
(* long as the deposit is live, at most one is, and one that is closed,    *)
(* spent, cancelled or over, keeps what is left for good.                  *)
(***************************************************************************)
EXTENDS Integers

CONSTANT Deposits

VARIABLES
  left,
  live,   \* the deposits that can be spent from
  over    \* those whose term has passed

vars == <<left, live, over>>

Init == left = [d \in Deposits |-> 0] /\ live = {} /\ over = {}

\* A new deposit may be sold once no other is live, or the live one is over.
Sell(d) ==
  /\ left[d] = 0 /\ live \subseteq over
  /\ left' \in [Deposits -> Nat] /\ left'[d] > 0
  /\ \A e \in Deposits \ {d} : left'[e] = left[e]
  /\ live' = {d} /\ over' \ {d} = over \ {d} /\ over' \subseteq Deposits

Spend(d) ==
  /\ d \in live
  /\ \E rest \in 0..(left[d] - 1) :
       /\ left' = [left EXCEPT ![d] = rest]
       /\ live' = IF rest = 0 THEN live \ {d} ELSE live
  /\ UNCHANGED over

Close(d) == live' = live \ {d} /\ UNCHANGED <<left, over>>
Pass == over \subseteq over' /\ over' \subseteq Deposits /\ UNCHANGED <<left, live>>

Next == (\E d \in Deposits : Sell(d) \/ Spend(d) \/ Close(d)) \/ Pass

Spec == Init /\ [][Next]_vars
=============================================================================
