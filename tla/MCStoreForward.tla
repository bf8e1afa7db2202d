--------------------------- MODULE MCStoreForward ---------------------------
(* A small instance of StoreForward for TLC: two topics, more clients than *)
(* sockets, so that descriptors pass from one client to another.           *)
(* The buffers a UDP message passes through are checked beside it.  The    *)
(* tables only see its topic, so the two have no state in common, and the  *)
(* one rests while the other moves.                                        *)
EXTENDS StoreForward, UdpPayload, TLC

CONSTANTS c1, c2, c3, t1, t2

MCClients == {c1, c2, c3}
MCTopics == {t1, t2}

MCInit == Init /\ PayloadInit
MCNext ==
    \/ PayloadInit /\ Next /\ UNCHANGED payloadVars
    \/ Init /\ PayloadNext /\ UNCHANGED vars
MCSpec == MCInit /\ [][MCNext]_<<vars, payloadVars>>

\* Ids and topics are only compared for equality.
IdsAndTopics == Permutations(MCClients) \cup Permutations(MCTopics)
=============================================================================
