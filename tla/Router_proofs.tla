--------------------------- MODULE Router_proofs ----------------------------
(***************************************************************************)
(* The router's queues are right for any routes, hosts and number of       *)
(* packets: IInv of Router is inductive.                                   *)
(***************************************************************************)
EXTENDS Router, WellFoundedInduction, TLAPS

(***************************************************************************)
(* Least and greatest elements                                             *)
(***************************************************************************)

LEMMA LeastNatural ==
    ASSUME NEW S, S \subseteq Nat, S # {}
    PROVE  \E x \in S : \A y \in S : x <= y
<1>1. PICK x \in S : \A y \in S : ~ (<<y, x>> \in OpToRel(<, Nat))
  BY NatLessThanWellFounded, WFMin
<1>2. \A y \in S : ~ (y < x)
  BY <1>1 DEF OpToRel
<1> QED
  BY <1>2

LEMMA MinIsLeast ==
    ASSUME NEW S, S \subseteq Nat, S # {}
    PROVE  Min(S) \in S
BY LeastNatural DEF Min

LEMMA MaxIsGreatest ==
    ASSUME NEW n \in Nat, NEW S, S \subseteq 0..n, S # {}
    PROVE  Max(S) \in S /\ \A y \in S : Max(S) >= y
<1> DEFINE T == {n - x : x \in S}
<1>1. \A x \in S : x \in 0..n /\ n - x \in Nat /\ n - x \in T
  OBVIOUS
<1>2. T \subseteq Nat /\ T # {}
  BY <1>1
<1>3. PICK t \in T : \A y \in T : t <= y
  BY <1>2, LeastNatural
<1>4. PICK x \in S : t = n - x
  OBVIOUS
<1>5. \A y \in S : x >= y
  <2> SUFFICES ASSUME NEW y \in S PROVE x >= y
    OBVIOUS
  <2>1. n - x <= n - y
    BY <1>1, <1>3, <1>4
  <2>2. x \in 0..n /\ y \in 0..n
    BY <1>1
  <2> HIDE DEF T
  <2> QED
    BY <2>1, <2>2
<1> QED
  BY <1>5 DEF Max

(***************************************************************************)
(* The operators of the router                                             *)
(***************************************************************************)

LEMMA EntryOfSeq ==
    ASSUME NEW S, NEW s \in Seq(S)
    PROVE  \A k \in DOMAIN s : s[k] \in S
OBVIOUS

\* get_arp_entry returns an entry of the table, for the address asked for.
LEMMA MacOfKnown ==
    ASSUME NEW table \in Seq([ip : Hops, mac : Macs]), NEW h \in Hops, Known(table, h)
    PROVE  /\ MacOf(table, h) \in Macs
           /\ [ip |-> h, mac |-> MacOf(table, h)] \in {table[j] : j \in DOMAIN table}
<1> DEFINE S == {k \in DOMAIN table : table[k].ip = h}
<1>1. S \subseteq Nat /\ S # {}
  BY DEF Known
<1> DEFINE m == Min(S)
<1>2. m \in S
  BY <1>1, MinIsLeast
<1>3. m \in DOMAIN table /\ table[m].ip = h
  BY <1>2
<1>4. MacOf(table, h) = table[m].mac
  BY DEF MacOf
<1> HIDE DEF m, S
<1>5. table[m] \in [ip : Hops, mac : Macs]
  <2>1. \A k \in DOMAIN table : table[k] \in [ip : Hops, mac : Macs]
    BY EntryOfSeq
  <2> QED
    BY <2>1, <1>3
<1>6. table[m] = [ip |-> h, mac |-> MacOf(table, h)]
  BY <1>3, <1>4, <1>5
<1> QED
  BY <1>3, <1>4, <1>5, <1>6

\* The loop at 273-297 stops at the end of the queues or at the first
\* unknown next hop.
LEMMA SendableStops ==
    ASSUME q_next \in Seq(Hops), NEW table
    PROVE  /\ Sendable(table) \in 0..Len(q_next)
           /\ \A j \in 1..Sendable(table) : Known(table, q_next[j])
           /\ Sendable(table) < Len(q_next)
                 => ~Known(table, q_next[Sendable(table) + 1])
<1> DEFINE S == {k \in 0..Len(q_next) : \A j \in 1..k : Known(table, q_next[j])}
<1>1. Len(q_next) \in Nat
  OBVIOUS
<1>2. 0 \in S
  BY <1>1
<1>3. S \subseteq 0..Len(q_next) /\ S # {}
  BY <1>2
<1>4. Max(S) \in S /\ \A y \in S : Max(S) >= y
  BY <1>1, <1>3, MaxIsGreatest
<1>5. Sendable(table) = Max(S)
  BY DEF Sendable
<1>6. ASSUME Max(S) < Len(q_next), Known(table, q_next[Max(S) + 1])
      PROVE  FALSE
  <2>1. Max(S) + 1 \in 0..Len(q_next)
    BY <1>1, <1>4, <1>6
  <2>2. \A j \in 1..(Max(S) + 1) : j \in 1..Max(S) \/ j = Max(S) + 1
    BY <1>4
  <2>3. Max(S) + 1 \in S
    BY <2>1, <2>2, <1>4, <1>6
  <2> QED
    BY <2>3, <1>4
<1> QED
  BY <1>4, <1>5, <1>6

\* A packet that has just come has a number that is not in use.
LEMMA ReceiveFacts ==
    ASSUME IInv, NEW p \in Packets, Receive(p)
    PROVE  /\ received' \in Seq(Packets)
           /\ DOMAIN received' = DOMAIN received \cup {p.id}
           /\ p.id \in 1..MaxPackets
           /\ p.id \notin DOMAIN received
           /\ \A n \in DOMAIN received : received'[n] = received[n] /\ n < p.id
           /\ received'[p.id] = p
           /\ \A n \in DOMAIN received' : received'[n].id = n
<1>1. received \in Seq(Packets) /\ \A n \in DOMAIN received : received[n].id = n
  BY DEF IInv, TypeOK, Numbered
<1>2. p.id = Len(received) + 1 /\ received' = Append(received, p)
  BY DEF Receive
<1>3. p.id \in 1..MaxPackets
  BY DEF Packets
<1> QED
  BY <1>1, <1>2, <1>3

\* A decremented packet that has not expired is one that may leave.
LEMMA Decremented ==
    ASSUME NEW p \in Packets, ~Expired(p)
    PROVE  LET q == [p EXCEPT !.ttl = @ - 1]
           IN  q \in Outgoing /\ q.id = p.id /\ q.dst = p.dst /\ q.ttl > 0
<1>1. p.ttl \in 2..255
  <2>1. p.ttl \in Ttls /\ ~(p.ttl <= 1)
    BY DEF Packets, Expired
  <2>2. p.ttl \in 0..255
    BY <2>1, RouterAssumption
  <2>3. \A t \in 0..255 : t <= 1 \/ t \in 2..255
    OBVIOUS
  <2> QED
    BY <2>1, <2>2, <2>3, Zenon
<1>2. p.id \in 1..MaxPackets /\ p.dst \in Dests
  BY DEF Packets
<1>3. [p EXCEPT !.ttl = @ - 1] = [id |-> p.id, dst |-> p.dst, ttl |-> p.ttl - 1]
  BY DEF Packets
<1> QED
  BY <1>1, <1>2, <1>3 DEF Outgoing

(***************************************************************************)
(* The inductive invariant                                                 *)
(***************************************************************************)

LEMMA InitIInv == Init => IInv
<1> SUFFICES ASSUME Init PROVE IInv
  OBVIOUS
<1>1. TypeOK
  BY DEF Init, TypeOK
<1>2. Numbered
  BY DEF Init, Numbered, Forwarded, Queued, Answered
<1>3. QueuesInStep /\ HeadUnresolved /\ WaitsForAnswer
  BY DEF Init, QueuesInStep, HeadUnresolved, WaitsForAnswer
<1>4. OneOutcome
  BY DEF Init, OneOutcome, Forwarded, Queued, Answered
<1>5. ForwardedRight /\ QueueOrder
  BY DEF Init, ForwardedRight, QueueOrder
<1> QED
  BY <1>1, <1>2, <1>3, <1>4, <1>5 DEF IInv

IcmpTypes == {"echo_reply", "time_exceeded", "dest_unreach"}

\* Packets that are answered or dropped touch neither the queues nor the
\* ARP table.
LEMMA AnsweredKeepsIInv ==
    ASSUME IInv, NEW p \in Packets, Receive(p),
           UNCHANGED <<arp_table, queues, requests, waited, sent>>,
           \/ icmp' = icmp
           \/ \E t \in IcmpTypes : icmp' = icmp \cup {[id |-> p.id, type |-> t]}
    PROVE  IInv'
<1>1. /\ received' \in Seq(Packets)
      /\ DOMAIN received' = DOMAIN received \cup {p.id}
      /\ p.id \in 1..MaxPackets
      /\ p.id \notin DOMAIN received
      /\ \A n \in DOMAIN received : received'[n] = received[n] /\ n < p.id
      /\ received'[p.id] = p
      /\ \A n \in DOMAIN received' : received'[n].id = n
  BY ReceiveFacts
<1>2. UNCHANGED <<arp_table, q_pack, q_int, q_next, requests, waited, sent>>
  BY DEF queues
<1>3. TypeOK'
  BY <1>1, <1>2 DEF IInv, TypeOK, IcmpTypes
<1>4. Forwarded' = Forwarded /\ Queued' = Queued
  BY <1>2 DEF Forwarded, Queued
<1>5. Answered' \subseteq Answered \cup {p.id}
  BY DEF Answered
<1>6. \A n \in Forwarded \cup Queued \cup Answered \cup waited : n \in DOMAIN received
  BY DEF IInv, Numbered
<1>7. Numbered'
  <2>1. (Forwarded \cup Queued \cup Answered \cup waited)' \subseteq DOMAIN received'
    BY <1>1, <1>2, <1>4, <1>5, <1>6
  <2>2. \A k \in DOMAIN q_pack' :
            q_pack'[k] = [received'[q_pack'[k].id] EXCEPT !.ttl = @ - 1]
    <3> SUFFICES ASSUME NEW k \in DOMAIN q_pack
                 PROVE  q_pack[k] = [received'[q_pack[k].id] EXCEPT !.ttl = @ - 1]
      BY <1>2
    <3>1. q_pack[k].id \in DOMAIN received
      BY <1>6 DEF Queued
    <3> QED
      BY <3>1, <1>1 DEF IInv, Numbered
  <2> QED
    BY <2>1, <2>2, <1>1, <1>2, <1>4 DEF IInv, Numbered
<1>8. (QueuesInStep /\ HeadUnresolved /\ WaitsForAnswer /\ QueueOrder)'
  BY <1>2 DEF IInv, QueuesInStep, HeadUnresolved, WaitsForAnswer, QueueOrder
<1>9. OneOutcome'
  <2>1. Answered' \cap (Forwarded \cup Queued) = {}
    BY <1>1, <1>5, <1>6 DEF IInv, OneOutcome
  <2>2. \A m, n \in icmp' : m.id = n.id => m = n
    <3>1. \A m \in icmp : m.id # p.id
      BY <1>1, <1>6 DEF Answered
    <3>2. \A m, n \in icmp : m.id = n.id => m = n
      BY DEF IInv, OneOutcome
    <3> QED
      BY <3>1, <3>2
  <2> QED
    BY <2>1, <2>2, <1>2, <1>4 DEF IInv, OneOutcome
<1>10. ForwardedRight'
  <2>1. \A k \in DOMAIN sent : sent[k].packet.id \in DOMAIN received
    BY <1>6 DEF Forwarded
  <2> QED
    BY <2>1, <1>1, <1>2 DEF IInv, ForwardedRight
<1> QED
  BY <1>3, <1>7, <1>8, <1>9, <1>10 DEF IInv

\* A packet whose next hop is known leaves at once.
LEMMA ForwardKeepsIInv ==
    ASSUME IInv, NEW p \in Packets, NEW i \in Interfaces, HandleForward(p, i)
    PROVE  IInv'
<1> DEFINE route == Route[p.dst]
           q == [p EXCEPT !.ttl = @ - 1]
           f == Frame(q, route.interface, MacOf(arp_table, route.next_hop))
<1>1. /\ received' \in Seq(Packets)
      /\ DOMAIN received' = DOMAIN received \cup {p.id}
      /\ p.id \in 1..MaxPackets
      /\ p.id \notin DOMAIN received
      /\ \A n \in DOMAIN received : received'[n] = received[n] /\ n < p.id
      /\ received'[p.id] = p
      /\ \A n \in DOMAIN received' : received'[n].id = n
  BY ReceiveFacts DEF HandleForward
<1>2. UNCHANGED <<arp_table, q_pack, q_int, q_next, requests, waited, icmp>>
  BY DEF HandleForward, queues
<1>3. /\ route \in [next_hop : Hops, interface : Interfaces]
      /\ ~Expired(p)
      /\ Known(arp_table, route.next_hop)
      /\ sent' = Append(sent, f)
  BY RouterAssumption DEF HandleForward, Routable, Packets
<1>4. q \in Outgoing /\ q.id = p.id /\ q.dst = p.dst /\ q.ttl > 0
  BY <1>3, Decremented
<1>5. /\ MacOf(arp_table, route.next_hop) \in Macs
      /\ [ip |-> route.next_hop, mac |-> MacOf(arp_table, route.next_hop)] \in
            {arp_table[j] : j \in DOMAIN arp_table}
  BY <1>3, MacOfKnown DEF IInv, TypeOK
<1>6. /\ f \in Frames
      /\ f.packet = q
      /\ f.interface = route.interface
      /\ f.mac = MacOf(arp_table, route.next_hop)
  BY <1>3, <1>4, <1>5 DEF Frame, Frames
<1> HIDE DEF f, q, route
<1>7. /\ sent \in Seq(Frames)
      /\ sent' \in Seq(Frames)
      /\ Len(sent') = Len(sent) + 1
      /\ DOMAIN sent' = DOMAIN sent \cup {Len(sent) + 1}
      /\ \A k \in DOMAIN sent : sent'[k] = sent[k]
      /\ sent'[Len(sent) + 1] = f
  BY <1>3, <1>6 DEF IInv, TypeOK
<1>8. Queued' = Queued /\ Answered' = Answered /\ Forwarded' = Forwarded \cup {p.id}
  <2>1. Queued' = Queued /\ Answered' = Answered
    BY <1>2 DEF Queued, Answered
  <2>2. \A k \in DOMAIN sent : sent'[k].packet.id = sent[k].packet.id
    BY <1>7
  <2>3. sent'[Len(sent) + 1].packet.id = p.id
    BY <1>4, <1>6, <1>7
  <2>4. Forwarded' = Forwarded \cup {p.id}
    BY <1>7, <2>2, <2>3 DEF Forwarded
  <2> QED
    BY <2>1, <2>4
<1>9. \A n \in Forwarded \cup Queued \cup Answered \cup waited : n \in DOMAIN received
  BY DEF IInv, Numbered
<1>10. TypeOK'
  BY <1>1, <1>2, <1>7 DEF IInv, TypeOK
<1>11. Numbered'
  <2>1. (Forwarded \cup Queued \cup Answered \cup waited)' \subseteq DOMAIN received'
    BY <1>1, <1>2, <1>8, <1>9
  <2>2. \A k \in DOMAIN q_pack' :
            q_pack'[k] = [received'[q_pack'[k].id] EXCEPT !.ttl = @ - 1]
    <3> SUFFICES ASSUME NEW k \in DOMAIN q_pack
                 PROVE  q_pack[k] = [received'[q_pack[k].id] EXCEPT !.ttl = @ - 1]
      BY <1>2
    <3>1. q_pack[k].id \in DOMAIN received
      BY <1>9 DEF Queued
    <3> QED
      BY <3>1, <1>1 DEF IInv, Numbered
  <2> QED
    BY <2>1, <2>2, <1>1, <1>2, <1>8 DEF IInv, Numbered
<1>12. (QueuesInStep /\ HeadUnresolved /\ WaitsForAnswer)'
  BY <1>2 DEF IInv, QueuesInStep, HeadUnresolved, WaitsForAnswer
<1>13. \A k \in DOMAIN sent : sent[k].packet.id \in DOMAIN received
  BY <1>9 DEF Forwarded
<1>14. OneOutcome'
  <2>1. \A j, k \in DOMAIN sent' : sent'[j].packet.id = sent'[k].packet.id => j = k
    <3>1. \A j, k \in DOMAIN sent : sent[j].packet.id = sent[k].packet.id => j = k
      BY DEF IInv, OneOutcome
    <3>2. \A k \in DOMAIN sent : sent'[k].packet.id = sent[k].packet.id
      BY <1>7
    <3>3. sent'[Len(sent) + 1].packet.id = p.id
      BY <1>4, <1>6, <1>7
    <3>4. \A k \in DOMAIN sent : sent[k].packet.id # p.id
      BY <1>1, <1>13
    <3> QED
      BY <1>7, <3>1, <3>2, <3>3, <3>4
  <2>2. /\ (Forwarded \cap Queued = {})'
        /\ (Answered \cap (Forwarded \cup Queued) = {})'
        /\ (waited \subseteq Forwarded \cup Queued)'
    BY <1>1, <1>2, <1>8, <1>9 DEF IInv, OneOutcome
  <2> QED
    BY <2>1, <2>2, <1>2 DEF IInv, OneOutcome
<1>15. ForwardedRight'
  <2>1. \A k \in DOMAIN sent :
            LET o == sent[k].packet IN
            /\ o = [received[o.id] EXCEPT !.ttl = @ - 1]
            /\ o.ttl > 0
            /\ sent[k].interface = Route[o.dst].interface
            /\ [ip |-> Route[o.dst].next_hop, mac |-> sent[k].mac] \in
                  {arp_table[j] : j \in DOMAIN arp_table}
            /\ received'[o.id] = received[o.id]
    BY <1>1, <1>13 DEF IInv, ForwardedRight
  <2>2. /\ q = [received'[q.id] EXCEPT !.ttl = @ - 1]
        /\ f.packet = q
        /\ f.interface = Route[q.dst].interface
        /\ f.mac = MacOf(arp_table, Route[q.dst].next_hop)
    BY <1>1, <1>4, <1>6 DEF q, route
  <2>3. [ip |-> Route[q.dst].next_hop, mac |-> f.mac] \in
            {arp_table[j] : j \in DOMAIN arp_table}
    BY <1>4, <1>5, <1>6 DEF route
  <2> HIDE DEF q
  <2> SUFFICES ASSUME NEW k \in DOMAIN sent'
               PROVE  LET o == sent'[k].packet IN
                      /\ o = [received'[o.id] EXCEPT !.ttl = @ - 1]
                      /\ o.ttl > 0
                      /\ sent'[k].interface = Route[o.dst].interface
                      /\ [ip |-> Route[o.dst].next_hop, mac |-> sent'[k].mac] \in
                            {arp_table[j] : j \in DOMAIN arp_table}
    BY <1>2 DEF ForwardedRight
  <2>4. CASE k \in DOMAIN sent
    <3>1. sent'[k] = sent[k]
      BY <2>4, <1>7
    <3> QED
      BY <2>4, <3>1, <2>1
  <2>5. CASE k = Len(sent) + 1
    BY <2>5, <1>4, <1>7, <2>2, <2>3
  <2> QED
    BY <2>4, <2>5, <1>7
<1>16. QueueOrder'
  <2>1. p.id \notin waited
    BY <1>1, <1>9
  <2>2. \A k \in DOMAIN sent' : sent'[k].packet.id \in waited' =>
            k \in DOMAIN sent /\ sent'[k] = sent[k] /\ sent[k].packet.id \in waited
    BY <2>1, <1>2, <1>4, <1>6, <1>7
  <2> QED
    BY <2>2, <1>2, <1>7 DEF IInv, QueueOrder
<1> QED
  BY <1>10, <1>11, <1>12, <1>14, <1>15, <1>16 DEF IInv

\* A packet whose next hop is unknown joins the end of the queues.
LEMMA WaitKeepsIInv ==
    ASSUME IInv, NEW p \in Packets, NEW i \in Interfaces, HandleWait(p, i)
    PROVE  IInv'
<1> DEFINE route == Route[p.dst]
           q == [p EXCEPT !.ttl = @ - 1]
           last == Len(q_pack) + 1
<1>1. /\ received' \in Seq(Packets)
      /\ DOMAIN received' = DOMAIN received \cup {p.id}
      /\ p.id \in 1..MaxPackets
      /\ p.id \notin DOMAIN received
      /\ \A n \in DOMAIN received : received'[n] = received[n] /\ n < p.id
      /\ received'[p.id] = p
      /\ \A n \in DOMAIN received' : received'[n].id = n
  BY ReceiveFacts DEF HandleWait
<1>2. UNCHANGED <<arp_table, sent, icmp>> /\ waited' = waited \cup {p.id}
  BY DEF HandleWait
<1>3. /\ route \in [next_hop : Hops, interface : Interfaces]
      /\ ~Expired(p)
      /\ ~Known(arp_table, route.next_hop)
      /\ requests' = [requests EXCEPT ![route.next_hop] = @ + 1]
      /\ q_pack' = Append(q_pack, q)
      /\ q_int' = Append(q_int, route.interface)
      /\ q_next' = Append(q_next, route.next_hop)
  BY RouterAssumption DEF HandleWait, Routable, Packets, AskFor, Enqueue
<1>4. q \in Outgoing /\ q.id = p.id /\ q.dst = p.dst /\ q.ttl > 0
  BY <1>3, Decremented
<1>5. q = [received'[q.id] EXCEPT !.ttl = @ - 1]
  BY <1>1, <1>4
<1>6. route = Route[q.dst] /\ route = [next_hop |-> route.next_hop, interface |-> route.interface]
  BY <1>3, <1>4
<1> HIDE DEF q, route
<1>7. /\ q_pack \in Seq(Outgoing) /\ q_int \in Seq(Interfaces) /\ q_next \in Seq(Hops)
      /\ Len(q_int) = Len(q_pack) /\ Len(q_next) = Len(q_pack)
      /\ requests \in [Hops -> Nat]
  BY DEF IInv, TypeOK, QueuesInStep
<1>8. /\ q_pack' \in Seq(Outgoing) /\ q_int' \in Seq(Interfaces) /\ q_next' \in Seq(Hops)
      /\ requests' \in [Hops -> Nat]
  BY <1>3, <1>4, <1>7
<1>9. /\ Len(q_pack') = last /\ Len(q_int') = last /\ Len(q_next') = last
      /\ DOMAIN q_pack' = DOMAIN q_pack \cup {last}
      /\ DOMAIN q_next' = DOMAIN q_next \cup {last}
      /\ DOMAIN q_next = DOMAIN q_pack
      /\ q_pack'[last] = q
      /\ q_int'[last] = route.interface
      /\ q_next'[last] = route.next_hop
      /\ \A k \in DOMAIN q_pack :
            q_pack'[k] = q_pack[k] /\ q_int'[k] = q_int[k] /\ q_next'[k] = q_next[k]
  BY <1>3, <1>7
<1>10. \A k \in DOMAIN q_pack : k < last
  BY <1>7
<1> HIDE DEF last
<1>11. Forwarded' = Forwarded /\ Answered' = Answered
  BY <1>2 DEF Forwarded, Answered
<1>12. Queued' = Queued \cup {p.id}
  <2>1. \A k \in DOMAIN q_pack : q_pack'[k].id = q_pack[k].id
    BY <1>9
  <2>2. q_pack'[last].id = p.id
    BY <1>4, <1>9
  <2> QED
    BY <1>9, <2>1, <2>2 DEF Queued
<1>13. \A n \in Forwarded \cup Queued \cup Answered \cup waited : n \in DOMAIN received
  BY DEF IInv, Numbered
<1>14. /\ \A k \in DOMAIN q_pack : q_pack[k].id \in DOMAIN received
       /\ \A k \in DOMAIN sent : sent[k].packet.id \in DOMAIN received
  BY <1>13 DEF Queued, Forwarded
<1>15. TypeOK'
  BY <1>1, <1>2, <1>8 DEF IInv, TypeOK
<1>16. Numbered'
  <2>1. (Forwarded \cup Queued \cup Answered \cup waited)' \subseteq DOMAIN received'
    BY <1>1, <1>2, <1>11, <1>12, <1>13
  <2>2. \A k \in DOMAIN q_pack :
            q_pack'[k] = [received'[q_pack'[k].id] EXCEPT !.ttl = @ - 1]
    <3>1. \A k \in DOMAIN q_pack :
              q_pack[k] = [received[q_pack[k].id] EXCEPT !.ttl = @ - 1]
      BY DEF IInv, Numbered
    <3> QED
      BY <3>1, <1>1, <1>9, <1>14
  <2>3. \A k \in DOMAIN q_pack' :
            q_pack'[k] = [received'[q_pack'[k].id] EXCEPT !.ttl = @ - 1]
    BY <2>2, <1>5, <1>9
  <2>4. Queued' \subseteq waited'
    BY <1>2, <1>12 DEF IInv, Numbered
  <2> QED
    BY <2>1, <2>3, <2>4, <1>1 DEF Numbered
<1>17. QueuesInStep'
  <2>1. \A k \in DOMAIN q_pack :
            Route[q_pack[k].dst] = [next_hop |-> q_next[k], interface |-> q_int[k]]
    BY DEF IInv, QueuesInStep
  <2>2. \A k \in DOMAIN q_pack' :
            Route[q_pack'[k].dst] = [next_hop |-> q_next'[k], interface |-> q_int'[k]]
    BY <2>1, <1>6, <1>9
  <2> QED
    BY <2>2, <1>9 DEF QueuesInStep
<1>18. HeadUnresolved'
  <2>1. Head(q_next') = q_next'[1]
    BY <1>8
  <2>2. CASE q_next = <<>>
    <3>1. last = 1
      BY <2>2, <1>7 DEF last
    <3> QED
      BY <3>1, <2>1, <1>2, <1>3, <1>9 DEF HeadUnresolved
  <2>3. CASE q_next # <<>>
    <3>1. 1 \in DOMAIN q_pack /\ Head(q_next) = q_next[1]
      BY <2>3, <1>7
    <3> QED
      BY <2>1, <2>3, <3>1, <1>2, <1>9 DEF IInv, HeadUnresolved
  <2> QED
    BY <2>2, <2>3
<1>19. WaitsForAnswer'
  <2>1. \A h \in Hops : requests'[h] >= requests[h]
    BY <1>3, <1>7
  <2>2. requests'[route.next_hop] > 0
    BY <1>3, <1>7
  <2>3. \A k \in DOMAIN q_next : q_next[k] \in Hops
    BY <1>7, EntryOfSeq
  <2>4. \A k \in DOMAIN q_next : Known(arp_table, q_next[k]) \/ requests'[q_next[k]] > 0
    BY <2>1, <2>3, <1>7, <1>8 DEF IInv, WaitsForAnswer
  <2> QED
    BY <2>2, <2>4, <1>2, <1>9 DEF WaitsForAnswer
<1>20. OneOutcome'
  <2>1. \A j, k \in DOMAIN q_pack' : q_pack'[j].id = q_pack'[k].id => j = k
    <3>1. \A j, k \in DOMAIN q_pack : q_pack[j].id = q_pack[k].id => j = k
      BY DEF IInv, OneOutcome
    <3>2. \A k \in DOMAIN q_pack : q_pack'[k].id = q_pack[k].id /\ q_pack[k].id # p.id
      BY <1>1, <1>9, <1>14
    <3>3. q_pack'[last].id = p.id
      BY <1>4, <1>9
    <3> QED
      BY <1>9, <3>1, <3>2, <3>3
  <2>2. /\ (Forwarded \cap Queued = {})'
        /\ (Answered \cap (Forwarded \cup Queued) = {})'
        /\ (waited \subseteq Forwarded \cup Queued)'
    BY <1>1, <1>2, <1>11, <1>12, <1>13 DEF IInv, OneOutcome
  <2> QED
    BY <2>1, <2>2, <1>2 DEF IInv, OneOutcome
<1>21. ForwardedRight'
  BY <1>1, <1>2, <1>14 DEF IInv, ForwardedRight
<1>22. QueueOrder'
  <2>1. \A k \in DOMAIN sent : sent[k].packet.id \in waited' => sent[k].packet.id \in waited
    BY <1>1, <1>2, <1>14
  <2>2. /\ \A k \in DOMAIN q_pack : q_pack'[k].id = q_pack[k].id /\ q_pack[k].id < p.id
        /\ \A k \in DOMAIN sent : sent[k].packet.id < p.id
        /\ q_pack'[last].id = p.id
    BY <1>1, <1>4, <1>9, <1>14
  <2>3. \A j, k \in DOMAIN q_pack' : j < k => q_pack'[j].id < q_pack'[k].id
    <3> SUFFICES ASSUME NEW j \in DOMAIN q_pack', NEW k \in DOMAIN q_pack', j < k
                 PROVE  q_pack'[j].id < q_pack'[k].id
      OBVIOUS
    <3>1. j \in DOMAIN q_pack
      BY <1>9, <1>10, <1>7 DEF last
    <3>2. CASE k \in DOMAIN q_pack
      <4>1. q_pack[j].id < q_pack[k].id
        BY <3>1, <3>2 DEF IInv, QueueOrder
      <4> QED
        BY <4>1, <3>1, <3>2, <2>2
    <3>3. CASE k = last
      BY <3>1, <3>3, <2>2
    <3> QED
      BY <3>2, <3>3, <1>9
  <2>4. \A j \in DOMAIN sent, k \in DOMAIN q_pack' :
            sent[j].packet.id \in waited' => sent[j].packet.id < q_pack'[k].id
    <3>1. \A j \in DOMAIN sent, k \in DOMAIN q_pack :
              sent[j].packet.id \in waited => sent[j].packet.id < q_pack[k].id
      BY DEF IInv, QueueOrder
    <3> QED
      BY <3>1, <2>1, <2>2, <1>9
  <2>5. \A j, k \in DOMAIN sent :
            (sent[j].packet.id \in waited' /\ sent[k].packet.id \in waited' /\ j < k)
               => sent[j].packet.id < sent[k].packet.id
    BY <2>1 DEF IInv, QueueOrder
  <2> QED
    BY <2>3, <2>4, <2>5, <1>2 DEF QueueOrder
<1> QED
  BY <1>15, <1>16, <1>17, <1>18, <1>19, <1>20, <1>21, <1>22 DEF IInv

\* What is known of a sequence cut off its first k elements.
LEMMA TailFacts ==
    ASSUME NEW S, NEW s \in Seq(S), NEW k \in 0..Len(s)
    PROVE  /\ SubSeq(s, k + 1, Len(s)) \in Seq(S)
           /\ Len(SubSeq(s, k + 1, Len(s))) = Len(s) - k
           /\ \A j \in 1..(Len(s) - k) : SubSeq(s, k + 1, Len(s))[j] = s[j + k]
OBVIOUS

\* What is known of two sequences put together.
LEMMA ConcatFacts ==
    ASSUME NEW S, NEW s \in Seq(S), NEW t \in Seq(S)
    PROVE  /\ s \o t \in Seq(S)
           /\ Len(s \o t) = Len(s) + Len(t)
           /\ \A j \in 1..Len(s) : (s \o t)[j] = s[j]
           /\ \A j \in 1..Len(t) : (s \o t)[Len(s) + j] = t[j]
OBVIOUS

\* A reply is recorded, and the packets at the head of the queues leave as
\* long as their next hops are known.
LEMMA ReplyKeepsIInv ==
    ASSUME IInv, NEW h \in Hops, NEW mac \in Macs, RecordReply(h, mac),
           requests' \in [Hops -> Nat],
           \A g \in Hops \ {h} : requests'[g] = requests[g]
    PROVE  IInv'
<1> DEFINE entry == [ip |-> h, mac |-> mac]
           table == Append(arp_table, entry)
           k == Sendable(table)
           n == Len(q_pack)
           l == Len(sent)
           frame(j) == Frame(q_pack[j], q_int[j], MacOf(table, q_next[j]))
           frames == [j \in 1..k |-> frame(j)]
<1>1. /\ UNCHANGED <<received, waited, icmp>>
      /\ arp_table' = table
      /\ sent' = sent \o frames
      /\ q_pack' = SubSeq(q_pack, k + 1, Len(q_pack))
      /\ q_int' = SubSeq(q_int, k + 1, Len(q_int))
      /\ q_next' = SubSeq(q_next, k + 1, Len(q_next))
  BY DEF RecordReply, Dequeue
<1>2. /\ q_pack \in Seq(Outgoing) /\ q_int \in Seq(Interfaces) /\ q_next \in Seq(Hops)
      /\ Len(q_int) = n /\ Len(q_next) = n /\ n \in Nat
      /\ sent \in Seq(Frames) /\ l \in Nat
      /\ arp_table \in Seq([ip : Hops, mac : Macs])
  BY DEF IInv, TypeOK, QueuesInStep
<1>3. /\ table \in Seq([ip : Hops, mac : Macs])
      /\ {arp_table[j] : j \in DOMAIN arp_table} \subseteq {table[j] : j \in DOMAIN table}
      /\ \A g : Known(arp_table, g) => Known(table, g)
      /\ Known(table, h)
  <2>1. entry \in [ip : Hops, mac : Macs] /\ entry.ip = h
    OBVIOUS
  <2> HIDE DEF entry
  <2>2. /\ table \in Seq([ip : Hops, mac : Macs])
        /\ DOMAIN table = DOMAIN arp_table \cup {Len(arp_table) + 1}
        /\ \A j \in DOMAIN arp_table : table[j] = arp_table[j]
        /\ table[Len(arp_table) + 1] = entry
    BY <2>1, <1>2
  <2> HIDE DEF table
  <2> QED
    BY <2>1, <2>2 DEF Known
<1>4. /\ k \in 0..n
      /\ \A j \in 1..k : Known(table, q_next[j])
      /\ k < n => ~Known(table, q_next[k + 1])
  BY <1>2, SendableStops
<1> HIDE DEF k, entry, table
<1>5. /\ q_pack' \in Seq(Outgoing) /\ q_int' \in Seq(Interfaces) /\ q_next' \in Seq(Hops)
      /\ Len(q_pack') = n - k /\ Len(q_int') = n - k /\ Len(q_next') = n - k
      /\ \A j \in 1..(n - k) :
            q_pack'[j] = q_pack[j + k] /\ q_int'[j] = q_int[j + k] /\ q_next'[j] = q_next[j + k]
  <2>1. /\ q_pack' \in Seq(Outgoing) /\ Len(q_pack') = n - k
        /\ \A j \in 1..(n - k) : q_pack'[j] = q_pack[j + k]
    <3>1. k \in 0..Len(q_pack)
      BY <1>4
    <3> HIDE DEF n
    <3>2. /\ q_pack' \in Seq(Outgoing) /\ Len(q_pack') = Len(q_pack) - k
          /\ \A j \in 1..(Len(q_pack) - k) : q_pack'[j] = q_pack[j + k]
      BY <1>1, <1>2, <3>1, TailFacts
    <3> QED
      BY <3>2 DEF n
  <2>2. /\ q_int' \in Seq(Interfaces) /\ Len(q_int') = n - k
        /\ \A j \in 1..(n - k) : q_int'[j] = q_int[j + k]
    <3>1. k \in 0..Len(q_int)
      BY <1>2, <1>4
    <3>2. /\ q_int' \in Seq(Interfaces) /\ Len(q_int') = Len(q_int) - k
          /\ \A j \in 1..(Len(q_int) - k) : q_int'[j] = q_int[j + k]
      BY <1>1, <1>2, <3>1, TailFacts
    <3> QED
      BY <1>2, <3>2
  <2>3. /\ q_next' \in Seq(Hops) /\ Len(q_next') = n - k
        /\ \A j \in 1..(n - k) : q_next'[j] = q_next[j + k]
    <3>1. k \in 0..Len(q_next)
      BY <1>2, <1>4
    <3>2. /\ q_next' \in Seq(Hops) /\ Len(q_next') = Len(q_next) - k
          /\ \A j \in 1..(Len(q_next) - k) : q_next'[j] = q_next[j + k]
      BY <1>1, <1>2, <3>1, TailFacts
    <3> QED
      BY <1>2, <3>2
  <2> QED
    BY <2>1, <2>2, <2>3
<1>6. \A j \in 1..k : /\ frame(j) \in Frames
                      /\ frame(j).packet = q_pack[j]
                      /\ frame(j).interface = q_int[j]
                      /\ [ip |-> q_next[j], mac |-> frame(j).mac] \in
                            {table[i] : i \in DOMAIN table}
  <2> SUFFICES ASSUME NEW j \in 1..k
               PROVE  /\ frame(j) \in Frames
                      /\ frame(j).packet = q_pack[j]
                      /\ frame(j).interface = q_int[j]
                      /\ [ip |-> q_next[j], mac |-> frame(j).mac] \in
                            {table[i] : i \in DOMAIN table}
    OBVIOUS
  <2>1. j \in 1..n /\ q_pack[j] \in Outgoing /\ q_int[j] \in Interfaces /\ q_next[j] \in Hops
    BY <1>2, <1>4
  <2>2. /\ MacOf(table, q_next[j]) \in Macs
        /\ [ip |-> q_next[j], mac |-> MacOf(table, q_next[j])] \in
              {table[i] : i \in DOMAIN table}
    BY <2>1, <1>3, <1>4, MacOfKnown
  <2> QED
    BY <2>1, <2>2 DEF Frame, Frames
<1> HIDE DEF frame
<1>7. /\ sent' \in Seq(Frames)
      /\ Len(sent') = l + k
      /\ \A j \in 1..l : sent'[j] = sent[j]
      /\ \A j \in 1..k : sent'[l + j] = frame(j)
  <2>1. frames \in Seq(Frames) /\ Len(frames) = k /\ \A j \in 1..k : frames[j] = frame(j)
    BY <1>4, <1>6
  <2>2. l = Len(sent)
    OBVIOUS
  <2> HIDE DEF frames, l
  <2>3. /\ sent' \in Seq(Frames) /\ Len(sent') = Len(sent) + Len(frames)
        /\ \A j \in 1..Len(sent) : sent'[j] = sent[j]
        /\ \A j \in 1..Len(frames) : sent'[Len(sent) + j] = frames[j]
    <3>1. /\ sent \o frames \in Seq(Frames)
          /\ Len(sent \o frames) = Len(sent) + Len(frames)
          /\ \A j \in 1..Len(sent) : (sent \o frames)[j] = sent[j]
          /\ \A j \in 1..Len(frames) : (sent \o frames)[Len(sent) + j] = frames[j]
      <4>1. sent \in Seq(Frames) /\ frames \in Seq(Frames)
        BY <1>2, <2>1
      <4> QED
        BY <4>1, ConcatFacts
    <3> QED
      BY <1>1, <3>1
  <2>4. Len(sent') = l + k /\ \A j \in 1..l : sent'[j] = sent[j]
    BY <2>1, <2>2, <2>3
  <2>5. ASSUME NEW j \in 1..k PROVE sent'[l + j] = frame(j)
    <3>1. sent'[l + j] = frames[j]
      BY <2>1, <2>2, <2>3
    <3>2. frames[j] = frame(j)
      BY <2>1
    <3> QED
      BY <3>1, <3>2
  <2> QED
    BY <2>3, <2>4, <2>5
<1> HIDE DEF n, l
\* An index of sent' is one of sent or belongs to a packet that leaves now.
<1>8. /\ DOMAIN sent = 1..l /\ DOMAIN sent' = 1..(l + k)
      /\ DOMAIN q_pack = 1..n /\ DOMAIN q_pack' = 1..(n - k)
      /\ DOMAIN q_next = 1..n /\ DOMAIN q_next' = 1..(n - k)
  BY <1>2, <1>5, <1>7 DEF n, l
<1>9. /\ \A j \in 1..(l + k) : j \in 1..l \/ \E i \in 1..k : j = l + i
      /\ \A j \in 1..(n - k) : j + k \in 1..n /\ j + k > k
      /\ \A j \in 1..k : j \in 1..n /\ l + j \in 1..(l + k)
      /\ \A j \in 1..l : j \in 1..(l + k)
      /\ \A j \in 1..n : j \in 1..k \/ (j - k \in 1..(n - k) /\ j = (j - k) + k)
  BY <1>2, <1>4
<1>10. /\ \A j \in 1..l : sent'[j].packet.id = sent[j].packet.id
       /\ \A j \in 1..k : sent'[l + j].packet.id = q_pack[j].id
       /\ \A j \in 1..(n - k) : q_pack'[j].id = q_pack[j + k].id
  BY <1>5, <1>6, <1>7
<1>11. /\ \A j \in 1..n : q_pack[j].id \in Queued
       /\ \A j \in 1..l : sent[j].packet.id \in Forwarded
  BY <1>8 DEF Queued, Forwarded
<1>12. /\ Queued' \subseteq Queued
       /\ Forwarded' \subseteq Forwarded \cup Queued
       /\ Forwarded \cup Queued \subseteq Forwarded' \cup Queued'
       /\ Answered' = Answered
  <2>1. Queued' \subseteq Queued
    BY <1>8, <1>9, <1>10, <1>11 DEF Queued
  <2>2. Forwarded' \subseteq Forwarded \cup Queued
    BY <1>8, <1>9, <1>10, <1>11 DEF Forwarded
  <2>3. Forwarded \subseteq Forwarded'
    BY <1>8, <1>9, <1>10 DEF Forwarded
  <2>4. Queued \subseteq Forwarded' \cup Queued'
    <3> SUFFICES ASSUME NEW j \in 1..n
                 PROVE  q_pack[j].id \in Forwarded' \cup Queued'
      BY <1>8 DEF Queued
    <3>1. CASE j \in 1..k
      BY <3>1, <1>8, <1>9, <1>10 DEF Forwarded
    <3>2. ASSUME NEW i \in 1..(n - k), j = i + k
          PROVE  q_pack[j].id \in Queued'
      BY <3>2, <1>8, <1>10 DEF Queued
    <3> QED
      BY <3>1, <3>2, <1>9
  <2>5. Answered' = Answered
    BY <1>1 DEF Answered
  <2> QED
    BY <2>1, <2>2, <2>3, <2>4, <2>5
<1>13. TypeOK'
  BY <1>1, <1>3, <1>5, <1>7 DEF IInv, TypeOK
<1>14. Numbered'
  <2>1. \A j \in DOMAIN q_pack :
            q_pack[j] = [received[q_pack[j].id] EXCEPT !.ttl = @ - 1]
    BY DEF IInv, Numbered
  <2>2. \A j \in DOMAIN q_pack' :
            q_pack'[j] = [received[q_pack'[j].id] EXCEPT !.ttl = @ - 1]
    BY <2>1, <1>5, <1>8, <1>9
  <2> QED
    BY <2>2, <1>1, <1>12 DEF IInv, Numbered
<1>15. QueuesInStep'
  <2>1. \A j \in DOMAIN q_pack :
            Route[q_pack[j].dst] = [next_hop |-> q_next[j], interface |-> q_int[j]]
    BY DEF IInv, QueuesInStep
  <2>2. \A j \in DOMAIN q_pack' :
            Route[q_pack'[j].dst] = [next_hop |-> q_next'[j], interface |-> q_int'[j]]
    <3> SUFFICES ASSUME NEW j \in 1..(n - k)
                 PROVE  Route[q_pack'[j].dst] =
                           [next_hop |-> q_next'[j], interface |-> q_int'[j]]
      BY <1>8
    <3>1. /\ q_pack'[j] = q_pack[j + k] /\ q_int'[j] = q_int[j + k]
          /\ q_next'[j] = q_next[j + k]
          /\ j + k \in DOMAIN q_pack
      BY <1>5, <1>8, <1>9
    <3> QED
      BY <2>1, <3>1
  <2> QED
    BY <2>2, <1>5 DEF QueuesInStep
<1>16. HeadUnresolved'
  <2> SUFFICES ASSUME q_next' # <<>>
               PROVE  ~Known(table, Head(q_next'))
    BY <1>1 DEF HeadUnresolved
  <2>1. Head(q_next') = q_next'[1] /\ 1 \in 1..(n - k)
    BY <1>2, <1>4, <1>5
  <2>2. q_next'[1] = q_next[k + 1] /\ k < n
    BY <2>1, <1>2, <1>4, <1>5
  <2> QED
    BY <2>1, <2>2, <1>4
<1>17. WaitsForAnswer'
  <2> SUFFICES ASSUME NEW j \in 1..(n - k)
               PROVE  Known(table, q_next[j + k]) \/ requests'[q_next[j + k]] > 0
    BY <1>1, <1>5, <1>8 DEF WaitsForAnswer
  <2>1. j + k \in DOMAIN q_next /\ q_next[j + k] \in Hops
    BY <1>2, <1>8, <1>9
  <2>2. Known(arp_table, q_next[j + k]) \/ requests[q_next[j + k]] > 0
    BY <2>1 DEF IInv, WaitsForAnswer
  <2> QED
    BY <2>1, <2>2, <1>3
<1>18. OneOutcome'
  <2>1. /\ \A i, j \in 1..l : sent[i].packet.id = sent[j].packet.id => i = j
        /\ \A i, j \in 1..n : q_pack[i].id = q_pack[j].id => i = j
        /\ \A i \in 1..l, j \in 1..n : sent[i].packet.id # q_pack[j].id
    BY <1>8, <1>11 DEF IInv, OneOutcome
  <2>2. \A i, j \in DOMAIN sent' : sent'[i].packet.id = sent'[j].packet.id => i = j
    BY <2>1, <1>8, <1>9, <1>10
  <2>3. \A i, j \in DOMAIN q_pack' : q_pack'[i].id = q_pack'[j].id => i = j
    <3> SUFFICES ASSUME NEW i \in 1..(n - k), NEW j \in 1..(n - k),
                        q_pack'[i].id = q_pack'[j].id
                 PROVE  i = j
      BY <1>8
    <3>1. i + k = j + k
      BY <2>1, <1>9, <1>10
    <3> QED
      BY <3>1, <1>2, <1>4
  <2>4. \A i \in DOMAIN sent', j \in DOMAIN q_pack' : sent'[i].packet.id # q_pack'[j].id
    <3> SUFFICES ASSUME NEW i \in 1..(l + k), NEW j \in 1..(n - k)
                 PROVE  sent'[i].packet.id # q_pack[j + k].id
      BY <1>8, <1>10
    <3>1. j + k \in 1..n /\ j + k > k
      BY <1>9
    <3>2. CASE i \in 1..l
      BY <3>1, <3>2, <2>1, <1>10
    <3>3. ASSUME NEW m \in 1..k, i = l + m
          PROVE  sent'[i].packet.id # q_pack[j + k].id
      <4>1. m \in 1..n /\ m # j + k
        BY <3>1, <1>9, <1>4
      <4> QED
        BY <4>1, <3>1, <3>3, <2>1, <1>10
    <3> QED
      BY <3>2, <3>3, <1>9
  <2>5. Forwarded' \cap Queued' = {}
    BY <2>4 DEF Forwarded, Queued
  <2>6. /\ (Answered \cap (Forwarded \cup Queued) = {})'
        /\ (waited \subseteq Forwarded \cup Queued)'
    BY <1>1, <1>12 DEF IInv, OneOutcome
  <2> QED
    BY <2>2, <2>3, <2>5, <2>6, <1>1 DEF IInv, OneOutcome
<1>19. ForwardedRight'
  <2> DEFINE Right(f) == /\ f.packet = [received[f.packet.id] EXCEPT !.ttl = @ - 1]
                         /\ f.packet.ttl > 0
                         /\ f.interface = Route[f.packet.dst].interface
                         /\ [ip |-> Route[f.packet.dst].next_hop, mac |-> f.mac] \in
                               {table[j] : j \in DOMAIN table}
  <2>1. \A j \in 1..l : Right(sent[j])
    BY <1>3, <1>8 DEF IInv, ForwardedRight
  <2>2. ASSUME NEW j \in 1..k PROVE Right(frame(j))
    <3>1. j \in DOMAIN q_pack
      BY <1>8, <1>9
    <3>2. /\ q_pack[j] = [received[q_pack[j].id] EXCEPT !.ttl = @ - 1]
          /\ Route[q_pack[j].dst] = [next_hop |-> q_next[j], interface |-> q_int[j]]
      BY <3>1 DEF IInv, Numbered, QueuesInStep
    <3>3. q_pack[j].ttl > 0
      <4>1. q_pack[j] \in Outgoing
        BY <3>1, <1>2, EntryOfSeq
      <4>2. q_pack[j].ttl \in 1..254
        BY <4>1 DEF Outgoing
      <4> QED
        BY <4>2
    <3> QED
      BY <3>2, <3>3, <1>6
  <2> HIDE DEF Right
  <2>3. \A j \in DOMAIN sent' : Right(sent'[j])
    <3> SUFFICES ASSUME NEW j \in 1..(l + k) PROVE Right(sent'[j])
      BY <1>8
    <3>1. CASE j \in 1..l
      <4>1. sent'[j] = sent[j]
        BY <3>1, <1>7
      <4> QED
        BY <4>1, <3>1, <2>1
    <3>2. ASSUME NEW m \in 1..k, j = l + m PROVE Right(sent'[j])
      <4>1. sent'[j] = frame(m)
        BY <3>2, <1>7
      <4> QED
        BY <4>1, <2>2
    <3> QED
      BY <3>1, <3>2, <1>9
  <2> SUFFICES ASSUME NEW j \in DOMAIN sent'
               PROVE  LET p == sent'[j].packet IN
                      /\ p = [received'[p.id] EXCEPT !.ttl = @ - 1]
                      /\ p.ttl > 0
                      /\ sent'[j].interface = Route[p.dst].interface
                      /\ [ip |-> Route[p.dst].next_hop, mac |-> sent'[j].mac] \in
                            {arp_table'[i] : i \in DOMAIN arp_table'}
    BY DEF ForwardedRight
  <2>4. Right(sent'[j])
    BY <2>3
  <2>5. received' = received /\ arp_table' = table
    BY <1>1
  <2> QED
    BY <2>4, <2>5 DEF Right
<1>20. QueueOrder'
  <2>1. /\ \A i, j \in 1..l :
               (sent[i].packet.id \in waited /\ sent[j].packet.id \in waited /\ i < j)
                  => sent[i].packet.id < sent[j].packet.id
        /\ \A i, j \in 1..n : i < j => q_pack[i].id < q_pack[j].id
        /\ \A i \in 1..l, j \in 1..n :
               sent[i].packet.id \in waited => sent[i].packet.id < q_pack[j].id
    BY <1>8 DEF IInv, QueueOrder
  <2>2. \A i, j \in 1..(n - k) : i < j => q_pack'[i].id < q_pack'[j].id
    <3> SUFFICES ASSUME NEW i \in 1..(n - k), NEW j \in 1..(n - k), i < j
                 PROVE  q_pack[i + k].id < q_pack[j + k].id
      BY <1>10
    <3>1. i + k < j + k /\ i + k \in 1..n /\ j + k \in 1..n
      BY <1>2, <1>4, <1>9
    <3> QED
      BY <3>1, <2>1
  <2>3. \A i \in 1..(l + k), j \in 1..(n - k) :
            sent'[i].packet.id \in waited => sent'[i].packet.id < q_pack'[j].id
    <3> SUFFICES ASSUME NEW i \in 1..(l + k), NEW j \in 1..(n - k),
                        sent'[i].packet.id \in waited
                 PROVE  sent'[i].packet.id < q_pack[j + k].id
      BY <1>10
    <3>1. j + k \in 1..n /\ j + k > k
      BY <1>9
    <3>2. CASE i \in 1..l
      BY <3>1, <3>2, <2>1, <1>10
    <3>3. ASSUME NEW m \in 1..k, i = l + m
          PROVE  sent'[i].packet.id < q_pack[j + k].id
      <4>1. m \in 1..n /\ m < j + k
        BY <3>1, <1>9, <1>4
      <4> QED
        BY <4>1, <3>1, <3>3, <2>1, <1>10
    <3> QED
      BY <3>2, <3>3, <1>9
  <2>4. \A i, j \in 1..(l + k) :
            (sent'[i].packet.id \in waited /\ sent'[j].packet.id \in waited /\ i < j)
               => sent'[i].packet.id < sent'[j].packet.id
    <3> SUFFICES ASSUME NEW i \in 1..(l + k), NEW j \in 1..(l + k), i < j,
                        sent'[i].packet.id \in waited, sent'[j].packet.id \in waited
                 PROVE  sent'[i].packet.id < sent'[j].packet.id
      OBVIOUS
    <3>1. CASE j \in 1..l
      <4>1. i \in 1..l
        BY <3>1, <1>2, <1>4
      <4> QED
        BY <4>1, <3>1, <2>1, <1>10
    <3>2. ASSUME NEW m \in 1..k, j = l + m
          PROVE  sent'[i].packet.id < sent'[j].packet.id
      <4>1. CASE i \in 1..l
        BY <4>1, <3>2, <2>1, <1>9, <1>10
      <4>2. ASSUME NEW o \in 1..k, i = l + o
            PROVE  sent'[i].packet.id < sent'[j].packet.id
        <5>1. o < m /\ o \in 1..n /\ m \in 1..n
          BY <3>2, <4>2, <1>2, <1>4, <1>9
        <5> QED
          BY <5>1, <3>2, <4>2, <2>1, <1>10
      <4> QED
        BY <4>1, <4>2, <1>9
    <3> QED
      BY <3>1, <3>2, <1>9
  <2> QED
    BY <2>2, <2>3, <2>4, <1>1, <1>8 DEF QueueOrder
<1> QED
  BY <1>13, <1>14, <1>15, <1>16, <1>17, <1>18, <1>19, <1>20 DEF IInv

LEMMA NextIInv == IInv /\ [Next]_vars => IInv'
<1> SUFFICES ASSUME IInv, [Next]_vars PROVE IInv'
  OBVIOUS
<1> USE DEF IcmpTypes
<1>1. ASSUME NEW p \in Packets, NEW i \in Interfaces, NEW echo \in BOOLEAN,
             HandleOwn(p, i, echo)
      PROVE  IInv'
  <2>1. \/ icmp' = icmp
        \/ icmp' = icmp \cup {[id |-> p.id, type |-> "echo_reply"]}
    <3>1. CASE echo
      BY <1>1, <3>1 DEF HandleOwn
    <3>2. CASE ~echo
      BY <1>1, <3>2 DEF HandleOwn
    <3> QED
      BY <3>1, <3>2
  <2> QED
    BY <1>1, <2>1, AnsweredKeepsIInv DEF HandleOwn
<1>2. ASSUME NEW p \in Packets, NEW i \in Interfaces, HandleExpired(p, i)
      PROVE  IInv'
  BY <1>2, AnsweredKeepsIInv DEF HandleExpired
<1>3. ASSUME NEW p \in Packets, NEW i \in Interfaces, HandleCorrupt(p, i)
      PROVE  IInv'
  BY <1>3, AnsweredKeepsIInv DEF HandleCorrupt
<1>4. ASSUME NEW p \in Packets, NEW i \in Interfaces, HandleUnroutable(p, i)
      PROVE  IInv'
  BY <1>4, AnsweredKeepsIInv DEF HandleUnroutable
<1>5. ASSUME NEW p \in Packets, NEW i \in Interfaces, HandleForward(p, i)
      PROVE  IInv'
  BY <1>5, ForwardKeepsIInv
<1>6. ASSUME NEW p \in Packets, NEW i \in Interfaces, HandleWait(p, i)
      PROVE  IInv'
  BY <1>6, WaitKeepsIInv
<1>7. requests \in [Hops -> Nat]
  BY DEF IInv, TypeOK
<1>8. ASSUME NEW h \in Hops, NEW mac \in Macs, HandleReply(h, mac)
      PROVE  IInv'
  <2>1. requests' \in [Hops -> Nat] /\ \A g \in Hops \ {h} : requests'[g] = requests[g]
    BY <1>7, <1>8 DEF HandleReply
  <2> QED
    BY <1>8, <2>1, ReplyKeepsIInv DEF HandleReply
<1>9. ASSUME NEW h \in Hops, NEW mac \in Macs, HandleUnaskedReply(h, mac)
      PROVE  IInv'
  <2>1. RecordReply(h, mac) /\ requests' = requests
    BY <1>9 DEF HandleUnaskedReply
  <2> QED
    BY <1>7, <2>1, ReplyKeepsIInv
<1>10. CASE UNCHANGED vars
  <2>1. UNCHANGED <<arp_table, q_pack, q_int, q_next, requests, received, waited, sent, icmp>>
    BY <1>10 DEF vars, queues
  <2>2. TypeOK'
    BY <2>1 DEF IInv, TypeOK
  <2>3. UNCHANGED <<Forwarded, Queued, Answered>>
    BY <2>1 DEF Forwarded, Queued, Answered
  <2>4. Numbered' /\ OneOutcome'
    BY <2>1, <2>3 DEF IInv, Numbered, OneOutcome
  <2>5. (QueuesInStep /\ HeadUnresolved /\ WaitsForAnswer)'
    BY <2>1 DEF IInv, QueuesInStep, HeadUnresolved, WaitsForAnswer
  <2>6. ForwardedRight' /\ QueueOrder'
    BY <2>1 DEF IInv, ForwardedRight, QueueOrder
  <2> QED
    BY <2>2, <2>4, <2>5, <2>6 DEF IInv
<1> QED
  BY <1>1, <1>2, <1>3, <1>4, <1>5, <1>6, <1>8, <1>9, <1>10 DEF Next

\* IInv holds throughout every run of the router.
THEOREM InductiveInvariant == Spec => []IInv
BY InitIInv, NextIInv, PTL DEF Spec

\* The tables, queues and frames have their types.
THEOREM TypeCorrect == Spec => []TypeOK
BY InductiveInvariant, PTL DEF IInv

\* The three queues stay in step, for any traffic and any ARP replies
\* (router.c:241-244, 273-297).
THEOREM QueuesAlwaysInStep == Spec => []QueuesInStep
BY InductiveInvariant, PTL DEF IInv

\* After every frame the head of the queues is a packet that has to wait.
THEOREM HeadAlwaysUnresolved == Spec => []HeadUnresolved
BY InductiveInvariant, PTL DEF IInv

\* Every packet that waits has its next hop asked for or answered.
THEOREM AlwaysWaitsForAnswer == Spec => []WaitsForAnswer
BY InductiveInvariant, PTL DEF IInv

\* No packet is doubled, and none that was queued is lost.
THEOREM AlwaysOneOutcome == Spec => []OneOutcome
BY InductiveInvariant, PTL DEF IInv

\* What leaves leaves decremented, by its route, to a MAC its next hop gave.
THEOREM AlwaysForwardedRight == Spec => []ForwardedRight
BY InductiveInvariant, PTL DEF IInv

\* Packets that wait leave in the order in which they came.
THEOREM AlwaysQueueOrder == Spec => []QueueOrder
BY InductiveInvariant, PTL DEF IInv
=============================================================================
