------------------------------- MODULE Router -------------------------------
(***************************************************************************)
(* 01-Router/router.c: the main loop, which takes one frame at a time and  *)
(* forwards it, answers it, drops it, or queues it until the MAC address   *)
(* of its next hop is known, and the hosts that answer ARP requests.       *)
(*                                                                         *)
(* The result of get_best_route is the constant Route here, and checksums  *)
(* and headers are reduced to what the loop decides by.  The loop is one   *)
(* thread; frames may reach it in any order.                               *)
(***************************************************************************)
EXTENDS Integers, Sequences, FiniteSets, FiniteSetsExt, Functions

CONSTANTS Hops,        \* next-hop addresses
          Macs,        \* MAC addresses
          Interfaces,
          OwnIp,       \* interface -> the address of the router on it
          Dests,       \* destination addresses of packets
          NoRoute,
          Route,       \* destination -> [next_hop, interface] or NoRoute
          Ttls,        \* the values of ttl that packets come with
          MaxPackets,  \* bound: IP packets received
          MaxUnasked   \* bound: ARP replies received that nobody asked for

ASSUME RouterAssumption ==
    /\ \A i \in Interfaces : OwnIp[i] \in Dests
    /\ \A d \in Dests : Route[d] \in [next_hop : Hops, interface : Interfaces]
                                     \cup {NoRoute}
    /\ NoRoute \notin [next_hop : Hops, interface : Interfaces]
    /\ Ttls \subseteq 0..255
    /\ MaxPackets \in Nat
    /\ MaxUnasked \in Nat

VARIABLES
    arp_table,   \* <<[ip, mac], ...>>, in the order of recording
    q_pack,      \* waiting packets
    q_int,       \* the interfaces they are to leave by
    q_next,      \* their next hops
    requests,    \* hop -> ARP requests on their way to it
    received,    \* the packets received so far, in order
    waited,      \* the numbers of those that were queued
    sent,        \* the packets forwarded, in order
    icmp         \* ICMP messages sent

queues == <<q_pack, q_int, q_next>>
vars == <<arp_table, queues, requests, received, waited, sent, icmp>>

Packets == [id : 1..MaxPackets, dst : Dests, ttl : Ttls]

Init ==
    /\ arp_table = <<>>
    /\ q_pack = <<>>
    /\ q_int = <<>>
    /\ q_next = <<>>
    /\ requests = [h \in Hops |-> 0]
    /\ received = <<>>
    /\ waited = {}
    /\ sent = <<>>
    /\ icmp = {}

(***************************************************************************)
(* The ARP table                                                           *)
(***************************************************************************)

Known(table, h) == \E k \in DOMAIN table : table[k].ip = h

\* Mutant: the table is searched from its end.
MacOfNewest(table, h) ==
    table[Max({k \in DOMAIN table : table[k].ip = h})].mac

\* get_arp_entry: the first entry for h, that is the oldest.
MacOf(table, h) == table[Min({k \in DOMAIN table : table[k].ip = h})].mac

(***************************************************************************)
(* IP packets, in the order the checks are made                            *)
(***************************************************************************)

\* A packet p with these properties is the next one to be received.
Receive(p) ==
    /\ Len(received) < MaxPackets
    /\ p.id = Len(received) + 1
    /\ received' = Append(received, p)

\* Only the address of the interface the packet came by counts.
ForRouter(p, i) == p.dst = OwnIp[i]

\* A packet to the router itself: only an ICMP echo request is answered.  ct,
\* the number put into the reply, is the number of echo replies in icmp.
HandleOwn(p, i, echo) ==
    /\ Receive(p)
    /\ ForRouter(p, i)
    /\ icmp' = icmp \cup (IF echo THEN {[id |-> p.id, type |-> "echo_reply"]} ELSE {})
    /\ UNCHANGED <<arp_table, queues, requests, waited, sent>>

\* Mutants: the test at 179 is missing, or is ttl < 1.
NeverExpired(p) == FALSE
ExpiredAtZero(p) == p.ttl < 1

Expired(p) == p.ttl <= 1

HandleExpired(p, i) ==
    /\ Receive(p)
    /\ ~ForRouter(p, i)
    /\ Expired(p)
    /\ icmp' = icmp \cup {[id |-> p.id, type |-> "time_exceeded"]}
    /\ UNCHANGED <<arp_table, queues, requests, waited, sent>>

\* A packet whose checksum is wrong is dropped.
HandleCorrupt(p, i) ==
    /\ Receive(p)
    /\ ~ForRouter(p, i)
    /\ ~Expired(p)
    /\ UNCHANGED <<arp_table, queues, requests, waited, sent, icmp>>

HandleUnroutable(p, i) ==
    /\ Receive(p)
    /\ ~ForRouter(p, i)
    /\ ~Expired(p)
    /\ Route[p.dst] = NoRoute
    /\ icmp' = icmp \cup {[id |-> p.id, type |-> "dest_unreach"]}
    /\ UNCHANGED <<arp_table, queues, requests, waited, sent>>

Routable(p, i) ==
    /\ ~ForRouter(p, i)
    /\ ~Expired(p)
    /\ Route[p.dst] # NoRoute

\* The packet as it leaves, in a frame to mac on interface out.
Frame(p, out, mac) == [packet |-> p, interface |-> out, mac |-> mac]

\* The next hop's MAC is known.
HandleForward(p, i) ==
    LET route == Route[p.dst] IN
    /\ Receive(p)
    /\ Routable(p, i)
    /\ Known(arp_table, route.next_hop)
    /\ sent' = Append(sent, Frame([p EXCEPT !.ttl = @ - 1], route.interface,
                                  MacOf(arp_table, route.next_hop)))
    /\ UNCHANGED <<arp_table, queues, requests, waited, icmp>>

\* Mutant: a packet asks only if no other one is waiting.
AskOnlyIfIdle(h) ==
    requests' = [requests EXCEPT ![h] = IF q_pack = <<>> THEN @ + 1 ELSE @]

\* The next hop's MAC is not known: it is asked for by broadcast.
AskFor(h) == requests' = [requests EXCEPT ![h] = @ + 1]

\* Mutant: the queues grow at their head.
EnqueueAtHead(p, route) ==
    /\ q_pack' = <<p>> \o q_pack
    /\ q_int' = <<route.interface>> \o q_int
    /\ q_next' = <<route.next_hop>> \o q_next

Enqueue(p, route) ==
    /\ q_pack' = Append(q_pack, p)
    /\ q_int' = Append(q_int, route.interface)
    /\ q_next' = Append(q_next, route.next_hop)

\* A copy of the packet waits.
HandleWait(p, i) ==
    LET route == Route[p.dst] IN
    /\ Receive(p)
    /\ Routable(p, i)
    /\ ~Known(arp_table, route.next_hop)
    /\ AskFor(route.next_hop)
    /\ Enqueue([p EXCEPT !.ttl = @ - 1], route)
    /\ waited' = waited \cup {p.id}
    /\ UNCHANGED <<arp_table, sent, icmp>>

(***************************************************************************)
(* ARP                                                                     *)
(***************************************************************************)

\* Mutant: one packet is taken from the queues per reply.
FirstOnly(table) == IF q_next # <<>> /\ Known(table, Head(q_next)) THEN 1 ELSE 0

\* How many packets the loop at 273-297 takes from the queues: it stops at
\* the first one whose next hop is not in the table.
Sendable(table) ==
    Max({k \in 0..Len(q_next) : \A j \in 1..k : Known(table, q_next[j])})

\* Mutants: a call of queue_deq at 289-291 is missing.
DequeueKeepingPackets(k) ==
    /\ q_int' = SubSeq(q_int, k + 1, Len(q_int))
    /\ q_next' = SubSeq(q_next, k + 1, Len(q_next))
    /\ UNCHANGED q_pack
DequeueKeepingInterfaces(k) ==
    /\ q_pack' = SubSeq(q_pack, k + 1, Len(q_pack))
    /\ q_next' = SubSeq(q_next, k + 1, Len(q_next))
    /\ UNCHANGED q_int

Dequeue(k) ==
    /\ q_pack' = SubSeq(q_pack, k + 1, Len(q_pack))
    /\ q_int' = SubSeq(q_int, k + 1, Len(q_int))
    /\ q_next' = SubSeq(q_next, k + 1, Len(q_next))

\* A reply from h is recorded, and what can be sent from the head of the
\* queues is sent.
RecordReply(h, mac) ==
    LET table == Append(arp_table, [ip |-> h, mac |-> mac])
        k == Sendable(table)
    IN
    /\ arp_table' = table
    /\ sent' = sent \o [j \in 1..k |-> Frame(q_pack[j], q_int[j],
                                             MacOf(table, q_next[j]))]
    /\ Dequeue(k)
    /\ UNCHANGED <<received, waited, icmp>>

\* A host answers a request.
HandleReply(h, mac) ==
    /\ requests[h] > 0
    /\ requests' = [requests EXCEPT ![h] = @ - 1]
    /\ RecordReply(h, mac)

\* The replies recorded so far that nobody asked for: every packet in waited
\* has asked once, and its request is under way or answered.
Unasked == Len(arp_table) + FoldFunction(+, 0, requests) - Cardinality(waited)

\* A reply nobody asked for is taken as well.
HandleUnaskedReply(h, mac) ==
    /\ Unasked < MaxUnasked
    /\ RecordReply(h, mac)
    /\ UNCHANGED requests

\* Requests for an address of the router are answered from the frame alone.
Next ==
    \/ \E p \in Packets, i \in Interfaces :
          \/ \E echo \in BOOLEAN : HandleOwn(p, i, echo)
          \/ HandleExpired(p, i)
          \/ HandleCorrupt(p, i)
          \/ HandleUnroutable(p, i)
          \/ HandleForward(p, i)
          \/ HandleWait(p, i)
    \/ \E h \in Hops, mac \in Macs : HandleReply(h, mac) \/ HandleUnaskedReply(h, mac)

\* Every ARP request is answered: nothing is lost on the router's links.
Answer(h) == \E mac \in Macs : HandleReply(h, mac)

Spec == Init /\ [][Next]_vars /\ \A h \in Hops : WF_vars(Answer(h))

(***************************************************************************)
(* Properties                                                              *)
(***************************************************************************)

\* Packets with their ttl decremented.
Outgoing == [id : 1..MaxPackets, dst : Dests, ttl : 1..254]
Frames == [packet : Outgoing, interface : Interfaces, mac : Macs]

TypeOK ==
    /\ arp_table \in Seq([ip : Hops, mac : Macs])
    /\ q_pack \in Seq(Outgoing)
    /\ q_int \in Seq(Interfaces)
    /\ q_next \in Seq(Hops)
    /\ requests \in [Hops -> Nat]
    /\ received \in Seq(Packets)
    /\ waited \subseteq 1..MaxPackets
    /\ sent \in Seq(Frames)
    /\ icmp \subseteq [id : 1..MaxPackets,
                       type : {"echo_reply", "time_exceeded", "dest_unreach"}]

\* The three queues stay in step: what is taken from them together belongs
\* together.
QueuesInStep ==
    /\ Len(q_int) = Len(q_pack)
    /\ Len(q_next) = Len(q_pack)
    /\ \A k \in DOMAIN q_pack :
          Route[q_pack[k].dst] = [next_hop |-> q_next[k], interface |-> q_int[k]]

\* Between two frames nothing waits that could be sent from the head: a
\* packet is queued only while its next hop is unknown, and a reply flushes
\* the queues as far as it can.
HeadUnresolved == q_next # <<>> => ~Known(arp_table, Head(q_next))

\* A packet never waits for an answer to a question that was not asked.
WaitsForAnswer ==
    \A k \in DOMAIN q_next : Known(arp_table, q_next[k]) \/ requests[q_next[k]] > 0

Forwarded == {sent[k].packet.id : k \in DOMAIN sent}
Queued == {q_pack[k].id : k \in DOMAIN q_pack}
Answered == {m.id : m \in icmp}

\* A received packet is forwarded, kept or answered, at most one of them and
\* at most once, and one that was kept is still there or has been forwarded.
OneOutcome ==
    /\ Forwarded \cap Queued = {}
    /\ Answered \cap (Forwarded \cup Queued) = {}
    /\ \A j, k \in DOMAIN sent : sent[j].packet.id = sent[k].packet.id => j = k
    /\ \A j, k \in DOMAIN q_pack : q_pack[j].id = q_pack[k].id => j = k
    /\ \A m, n \in icmp : m.id = n.id => m = n
    /\ waited \subseteq Forwarded \cup Queued

\* A packet leaves with its ttl decremented once, positive, on the interface
\* of its route, to a MAC address its next hop has answered with.
ForwardedRight ==
    \A k \in DOMAIN sent :
        LET p == sent[k].packet
            route == Route[p.dst]
        IN
        /\ p = [received[p.id] EXCEPT !.ttl = @ - 1]
        /\ p.ttl > 0
        /\ sent[k].interface = route.interface
        /\ [ip |-> route.next_hop, mac |-> sent[k].mac] \in
              {arp_table[j] : j \in DOMAIN arp_table}

\* Packets that wait leave in the order in which they came, whatever order
\* their next hops answer in.
QueueOrder ==
    LET left == {k \in DOMAIN sent : sent[k].packet.id \in waited} IN
    /\ \A j, k \in left : j < k => sent[j].packet.id < sent[k].packet.id
    /\ \A j, k \in DOMAIN q_pack : j < k => q_pack[j].id < q_pack[k].id
    /\ \A j \in left, k \in DOMAIN q_pack : sent[j].packet.id < q_pack[k].id

\* What the proofs need besides: packets are numbered as they come, every
\* number in use is of a packet that came, and a queued packet is the one
\* that came, its ttl decremented once.
Numbered ==
    /\ \A n \in DOMAIN received : received[n].id = n
    /\ Forwarded \cup Queued \cup Answered \cup waited \subseteq DOMAIN received
    /\ Queued \subseteq waited
    /\ \A k \in DOMAIN q_pack :
          q_pack[k] = [received[q_pack[k].id] EXCEPT !.ttl = @ - 1]

IInv ==
    /\ TypeOK
    /\ Numbered
    /\ QueuesInStep
    /\ HeadUnresolved
    /\ WaitsForAnswer
    /\ OneOutcome
    /\ ForwardedRight
    /\ QueueOrder

\* Every waiting packet is sent in the end, if hosts answer.
WaitEnds == \A n \in 1..MaxPackets : n \in waited ~> n \in Forwarded

\* README:33-35: an ARP reply updates the table with what its source said.
ReplyUpdatesTable ==
    [][\A h \in Hops, mac \in Macs :
          RecordReply(h, mac) => MacOf(arp_table', h) = mac]_vars
=============================================================================
