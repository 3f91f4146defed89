----------------------------- MODULE MCDelivery -----------------------------
\* Two events of the same content, the first of them poisoned; quiet hours across
\* midnight.
EXTENDS Delivery

CONSTANT c1

MCContentOf == [e \in Events |-> c1]
=============================================================================
