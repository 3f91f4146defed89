------------------------------ MODULE StampBook ------------------------------
(***************************************************************************)
(* What a punch card campaign promises a customer: stamps come and go, and *)
(* a free coffee costs Required of them, one coffee at a time.             *)
(***************************************************************************)
EXTENDS Integers

CONSTANT Required

VARIABLES stamps, coffees

Init == stamps = 0 /\ coffees = 0

Stamp == stamps' > stamps /\ UNCHANGED coffees
TakeBack == stamps' \in 0..stamps /\ UNCHANGED coffees  \* refunds, expiry
Redeem == stamps >= Required /\ stamps' = stamps - Required /\ coffees' = coffees + 1

Next == Stamp \/ TakeBack \/ Redeem

Spec == Init /\ [][Next]_<<stamps, coffees>>
=============================================================================
