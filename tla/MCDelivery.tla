----------------------------- MODULE MCDelivery -----------------------------
(* A small instance of StoreForwardDelivery for TLC: one topic, so that    *)
(* three clients share the counter of its messages.                        *)
EXTENDS StoreForwardDelivery, TLC

CONSTANTS c1, c2, c3, t1

MCClients == {c1, c2, c3}

\* Ids are only compared for equality.
Ids == Permutations(MCClients)
=============================================================================
