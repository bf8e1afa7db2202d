------------------------------ MODULE MCRouter ------------------------------
(* A small instance of Router for TLC: two next hops on two interfaces, a  *)
(* destination behind each, and the addresses of the router.  own1 lies in *)
(* the network behind h1, so that it has a route; own2 has none.           *)
(* The parts that Router takes as given, the search of the routing table,  *)
(* the checksum of a header and a queue, are checked beside it.  They have *)
(* no state in common with it, and one moves while the others rest.        *)
EXTENDS Router, RouteLookup, Checksum, WaitingQueue, TLC

CONSTANTS h1, h2, own1, own2, d1, d2

MCOwnIp == (1 :> own1) @@ (2 :> own2)
Via(h, i) == [next_hop |-> h, interface |-> i]
MCRoute == (d1 :> Via(h1, 1)) @@ (d2 :> Via(h2, 2))
           @@ (own1 :> Via(h1, 1)) @@ (own2 :> NoRoute)

\* Words of four bits.
Bit(a, i) == (a \div 2^i) % 2
MCAnd(a, b) == LET both(i) == Bit(a, i) * Bit(b, i) * 2^i
               IN  both(0) + both(1) + both(2) + both(3)

\* A default route, networks with a mask of two bits, and single hosts.
Entry(p, m) == [prefix |-> p, mask |-> m]
MCRoutes == {Entry(0, 0)} \cup {Entry(p, 3) : p \in {1, 2, 3}}
            \cup {Entry(p, 15) : p \in {1, 5, 9, 13}}

MCFields == 0..15

MCInit == Init /\ LookupInit /\ ChecksumInit /\ QueueInit
MCNext ==
    \/ /\ LookupInit /\ ChecksumInit /\ QueueInit
       /\ Next
       /\ UNCHANGED <<lookupVars, checksumVars, queueVars>>
    \/ /\ Init /\ ChecksumInit /\ QueueInit
       /\ LookupNext
       /\ UNCHANGED <<vars, checksumVars, queueVars>>
    \/ /\ Init /\ LookupInit /\ QueueInit
       /\ ChecksumNext
       /\ UNCHANGED <<vars, lookupVars, queueVars>>
    \/ /\ Init /\ LookupInit /\ ChecksumInit
       /\ QueueNext
       /\ UNCHANGED <<vars, lookupVars, checksumVars>>

MCSpec ==
    /\ MCInit
    /\ [][MCNext]_<<vars, lookupVars, checksumVars, queueVars>>
    /\ \A h \in Hops : WF_vars(Answer(h))
=============================================================================
