-------------------- MODULE StoreForwardDelivery_proofs ---------------------
(***************************************************************************)
(* What the clients of the notification server receive, for any set of     *)
(* clients, topics and sockets and any number of messages: the counter of  *)
(* a stored message is the number of clients it waits for until a message  *)
(* strays, nothing is lost before that, and every session is in order.     *)
(***************************************************************************)
EXTENDS StoreForwardDelivery, StoreForward_proofs, WellFoundedInduction

(***************************************************************************)
(* Sorting the store                                                       *)
(***************************************************************************)

LEMMA LeastNatural ==
    ASSUME NEW S, S \subseteq Nat, S # {}
    PROVE  \E x \in S : \A y \in S : x <= y
<1>1. PICK x \in S : \A y \in S : ~ (<<y, x>> \in OpToRel(<, Nat))
  BY NatLessThanWellFounded, WFMin
<1>2. \A y \in S : ~ (y < x)
  BY <1>1 DEF OpToRel
<1> QED
  BY <1>2

\* Messages told apart by their numbers.
Numbered(S) == /\ S \subseteq Messages
               /\ \A k, m \in S : k.n = m.n => k = m

\* q lists S in the order of the store.
Lists(q, k, S) == /\ q \in [1..k -> S]
                  /\ \A m \in S : \E i \in 1..k : q[i] = m
                  /\ \A i, j \in 1..k : i < j => q[i].n < q[j].n

\* A list is extended by a message younger than all it holds.
LEMMA ListYoungest ==
    ASSUME NEW k \in Nat, NEW S, S \subseteq Messages, NEW q, Lists(q, k, S),
           NEW m \in Messages, \A x \in S : x.n < m.n
    PROVE  \E r : Lists(r, k + 1, S \cup {m})
<1> DEFINE r == [i \in 1..(k + 1) |-> IF i = k + 1 THEN m ELSE q[i]]
<1>1. \A i \in 1..k : i \in 1..(k + 1) /\ i # k + 1 /\ r[i] = q[i] /\ q[i] \in S
  BY DEF Lists
<1>2. k + 1 \in 1..(k + 1) /\ r[k + 1] = m
  OBVIOUS
<1>3. \A i \in 1..(k + 1) : i = k + 1 \/ i \in 1..k
  OBVIOUS
<1>4. r \in [1..(k + 1) -> S \cup {m}]
  BY <1>1, <1>2, <1>3
<1> HIDE DEF r
<1>5. \A x \in S \cup {m} : \E i \in 1..(k + 1) : r[i] = x
  <2> SUFFICES ASSUME NEW x \in S \cup {m} PROVE \E i \in 1..(k + 1) : r[i] = x
    OBVIOUS
  <2>1. CASE x = m
    BY <2>1, <1>2
  <2>2. CASE x \in S
    <3>1. PICK i \in 1..k : q[i] = x
      BY <2>2 DEF Lists
    <3> QED
      BY <3>1, <1>1
  <2> QED
    BY <2>1, <2>2
<1>6. \A i, j \in 1..(k + 1) : i < j => r[i].n < r[j].n
  <2> SUFFICES ASSUME NEW i \in 1..(k + 1), NEW j \in 1..(k + 1), i < j
               PROVE  r[i].n < r[j].n
    OBVIOUS
  <2>1. i \in 1..k /\ r[i] = q[i] /\ q[i] \in S
    BY <1>1
  <2>2. CASE j = k + 1
    BY <2>1, <2>2, <1>2
  <2>3. CASE j \in 1..k
    BY <2>1, <2>3, <1>1 DEF Lists
  <2> QED
    BY <2>2, <2>3, <1>3
<1> QED
  BY <1>4, <1>5, <1>6 DEF Lists

\* Any set of numbered messages can be listed in the order of the store: a
\* least bound on the numbers of one that cannot does not exist.
LEMMA ListsExist ==
    ASSUME NEW S, Numbered(S)
    PROVE  \E k \in Nat : \E q : Lists(q, k, S)
<1> DEFINE Listed(T) == \E k \in Nat : \E q : Lists(q, k, T)
           Below(b) == {m \in S : m.n <= b}
           Bad == {b \in Nat : ~ Listed(Below(b))}
<1>1. S \subseteq Messages /\ MaxMsgs \in Nat
  BY StoreForwardAssumption DEF Numbered
<1>2. \A m \in S : m.n \in 1..MaxMsgs
  BY <1>1 DEF Messages
<1>3. Below(MaxMsgs) = S
  BY <1>1, <1>2
<1>4. Bad = {}
  <2> SUFFICES ASSUME Bad # {} PROVE FALSE
    OBVIOUS
  <2>1. Bad \subseteq Nat
    OBVIOUS
  <2>2. PICK b \in Bad : \A y \in Bad : b <= y
    <3> HIDE DEF Bad
    <3> QED
      BY <2>1, LeastNatural
  <2>3. b \in Nat /\ ~ Listed(Below(b))
    OBVIOUS
  <2>4. CASE b = 0
    <3>1. Below(b) = {}
      BY <2>4, <1>1, <1>2
    <3>2. Lists([i \in 1..0 |-> 0], 0, {})
      BY DEF Lists
    <3> QED
      BY <3>1, <3>2, <2>3
  <2>5. CASE b # 0
    <3>1. b - 1 \in Nat /\ ~ (b <= b - 1)
      BY <2>3, <2>5
    <3>2. Listed(Below(b - 1))
      BY <3>1, <2>2
    <3>3. PICK k \in Nat : \E q : Lists(q, k, Below(b - 1))
      BY <3>2
    <3>6. PICK q : Lists(q, k, Below(b - 1))
      BY <3>3
    <3>4. CASE \E m \in S : m.n = b
      <4>1. PICK m \in S : m.n = b
        BY <3>4
      <4>2. Below(b) = Below(b - 1) \cup {m}
        BY <4>1, <1>1, <1>2, <2>3 DEF Numbered
      <4>3. \A x \in Below(b - 1) : x.n < m.n
        BY <4>1, <1>1, <1>2, <2>3
      <4>4. Below(b - 1) \subseteq Messages /\ m \in Messages
        BY <1>1
      <4>5. \E r : Lists(r, k + 1, Below(b - 1) \cup {m})
        <5> HIDE DEF Below
        <5> QED
          BY <3>6, <4>3, <4>4, ListYoungest
      <4>6. \E n \in Nat : \E r : Lists(r, n, Below(b))
        <5>1. k + 1 \in Nat
          OBVIOUS
        <5> HIDE DEF Below
        <5> QED
          BY <4>2, <4>5, <5>1
      <4> QED
        BY <4>6, <2>3
    <3>5. CASE \A m \in S : m.n # b
      <4>1. Below(b) = Below(b - 1)
        BY <3>5, <1>1, <1>2, <2>3
      <4> QED
        BY <4>1, <3>2, <2>3
    <3> QED
      BY <3>4, <3>5
  <2> QED
    BY <2>4, <2>5
<1>5. Listed(Below(MaxMsgs))
  BY <1>1, <1>4
<1> QED
  BY <1>3, <1>5

\* A list holds every message once, so its length counts them.
LEMMA ListCounts ==
    ASSUME NEW S, NEW k \in Nat, NEW q, Lists(q, k, S), S \subseteq Messages
    PROVE  Cardinality(S) = k
<1>1. \A i, j \in 1..k : q[i] = q[j] => i = j
  <2> SUFFICES ASSUME NEW i \in 1..k, NEW j \in 1..k, q[i] = q[j], i # j PROVE FALSE
    OBVIOUS
  <2>1. q[i] \in Messages /\ q[j] \in Messages
    BY DEF Lists
  <2>2. q[i].n \in Int /\ q[i].n = q[j].n
    BY <2>1 DEF Messages
  <2>3. CASE i < j
    BY <2>2, <2>3 DEF Lists
  <2>4. CASE j < i
    BY <2>2, <2>4 DEF Lists
  <2> QED
    BY <2>3, <2>4
<1>2. q \in Bijection(1..k, S)
  BY <1>1 DEF Lists, Bijection, Injection, Surjection, IsInjective
<1>3. ExistsBijection(1..k, S)
  BY <1>2 DEF ExistsBijection
<1> QED
  BY <1>3, FS_CountingElements

\* What send_stored sends: every stored message on a topic of the client,
\* in the order of the store.
LEMMA ResendSequenceSorted ==
    ASSUME NEW c, Numbered(ResentTo(c))
    PROVE  LET q == ResendSequence(c) IN
           /\ q \in Seq(ResentTo(c))
           /\ \A i, j \in DOMAIN q : i < j => q[i].n < q[j].n
<1> DEFINE R == ResentTo(c)
           k == Cardinality(R)
<1>1. PICK n \in Nat : \E q : Lists(q, n, R)
  BY ListsExist
<1>6. PICK q : Lists(q, n, R)
  BY <1>1
<1>2. n = k
  BY <1>6, ListCounts DEF Numbered
<1>3. \E p \in [1..k -> R] : \A i, j \in DOMAIN p : i < j => StoreOrder(p[i], p[j])
  BY <1>6, <1>2 DEF Lists, StoreOrder
<1>4. /\ ResendSequence(c) \in [1..k -> R]
      /\ \A i, j \in DOMAIN ResendSequence(c) :
            i < j => StoreOrder(ResendSequence(c)[i], ResendSequence(c)[j])
  BY <1>3 DEF ResendSequence
<1>5. ResendSequence(c) \in Seq(R)
  BY <1>2, <1>4
<1> QED
  BY <1>4, <1>5 DEF StoreOrder

(***************************************************************************)
(* The invariant                                                           *)
(***************************************************************************)

HistoryTypes ==
    /\ session \in [Clients -> Seq(Messages)]
    /\ owed \in [Clients -> SUBSET Messages]
    /\ stray \in SUBSET Messages
    /\ sf_users \in [Topics -> SUBSET Clients]

\* Everything that was sent, owed or stored was received before, so the next
\* message is a new one; the store holds a number once.
NumbersPast ==
    /\ \A c \in Clients : \A i \in DOMAIN session[c] : session[c][i].n <= published
    /\ \A c \in Clients : \A m \in owed[c] : m.n <= published
    /\ \A m \in stray : m.n <= published
    /\ \A k, m \in DOMAIN saved_msgs : k.n = m.n => k = m

\* A client that is away is still entered for the topics of what it is owed:
\* it cannot unsubscribe before it is back.
OwedAreAway ==
    \A c \in Clients : \A m \in owed[c] \ stray :
        client_sockfds[c] = Closed => m.topic \in saved_ids[c]

SfUsersRecorded ==
    \A c \in Clients : /\ \A t \in saved_ids[c] : c \in sf_users[t]
                       /\ \A m \in owed[c] : c \in sf_users[m.topic]

\* A message strays only when two clients want its topic stored.
StrayIsShared ==
    \A m \in stray : \E c, d \in sf_users[m.topic] : c # d

\* The conjunction that is inductive.
DInv == /\ IInv
        /\ HistoryTypes
        /\ NumbersPast
        /\ CountIsOwers
        /\ LossOnlyAfterStray
        /\ OwedAreAway
        /\ SfUsersRecorded
        /\ StrayIsShared
        /\ SessionInOrder

LEMMA DInitInv == DInit => DInv
<1> SUFFICES ASSUME DInit PROVE DInv
  OBVIOUS
<1>1. IInv
  BY InitIInv DEF DInit
<1>2. HistoryTypes /\ NumbersPast /\ SessionInOrder
  BY DEF DInit, Init, HistoryTypes, NumbersPast, SessionInOrder
<1>3. CountIsOwers /\ LossOnlyAfterStray
  BY DEF DInit, Init, CountIsOwers, Published, LossOnlyAfterStray
<1>4. OwedAreAway /\ SfUsersRecorded /\ StrayIsShared
  BY DEF DInit, Init, OwedAreAway, SfUsersRecorded, StrayIsShared
<1> QED
  BY <1>1, <1>2, <1>3, <1>4 DEF DInv

\* A message that waits for somebody is in the store, unless it strayed.
LEMMA OwedIsStored ==
    ASSUME HistoryTypes, CountIsOwers, NEW c \in Clients, NEW m \in owed[c], m \notin stray
    PROVE  m \in DOMAIN saved_msgs
<1>1. m \in Published /\ c \in Owers(m) /\ Owers(m) \subseteq Clients
  BY DEF Published, Owers
<1>2. Cardinality(Owers(m)) >= 1
  BY <1>1, CountPositive
<1> QED
  BY <1>1, <1>2 DEF CountIsOwers

\* Handlers of a new id, a command or a disconnection touch no message: what
\* they have to keep is who is away and who asked for what.
LEMMA QuietStep ==
    ASSUME DInv, IInv', UNCHANGED <<saved_msgs, published, session, owed, stray>>,
           sf_users' \in [Topics -> SUBSET Clients],
           \A t \in Topics : sf_users[t] \subseteq sf_users'[t],
           LossOnlyAfterStray', OwedAreAway',
           \A c \in Clients : \A t \in saved_ids'[c] : c \in sf_users'[t]
    PROVE  DInv'
<1> USE DEF DInv
<1>1. HistoryTypes' /\ NumbersPast' /\ SessionInOrder'
  BY DEF HistoryTypes, NumbersPast, SessionInOrder, Messages
<1>2. CountIsOwers'
  BY DEF CountIsOwers, Owers, Published
<1>3. SfUsersRecorded' /\ StrayIsShared'
  BY DEF SfUsersRecorded, StrayIsShared, HistoryTypes, Messages
<1> QED
  BY <1>1, <1>2, <1>3

LEMMA DConnectNewStep ==
    ASSUME DInv, NEW c \in Clients, NEW s \in Sockets, DConnectNew(c, s)
    PROVE  DInv'
<1>1. /\ ConnectNew(c, s)
      /\ Register(c, s)
      /\ client_sockfds[c] = Absent
      /\ UNCHANGED <<saved_ids, saved_msgs, published, session, owed, stray, sf_users>>
  BY DEF DConnectNew, ConnectNew, history, subscriptions, stored
<1>2. IInv'
  BY <1>1, ConnectNewStep DEF DInv
<1>3. /\ client_sockfds'[c] = s
      /\ \A d \in Clients \ {c} : client_sockfds'[d] = client_sockfds[d]
  BY <1>1, RegisterKeepsTables DEF DInv
<1>4. LossOnlyAfterStray'
  BY <1>1, <1>3, StoreForwardAssumption DEF DInv, LossOnlyAfterStray
<1>5. OwedAreAway'
  BY <1>1, <1>3, StoreForwardAssumption DEF DInv, OwedAreAway
<1> QED
  BY <1>1, <1>2, <1>4, <1>5, QuietStep DEF DInv, HistoryTypes, SfUsersRecorded

LEMMA DDisconnectStep ==
    ASSUME DInv, NEW s \in Sockets, DDisconnect(s)
    PROVE  DInv'
<1> DEFINE id == client_ids[s]
<1>1. /\ Disconnect(s)
      /\ s \in read_fds
      /\ client_sockfds' = [client_sockfds EXCEPT ![id] = Closed]
      /\ UNCHANGED <<saved_ids, saved_msgs, published, session, owed, stray, sf_users>>
  BY DEF DDisconnect, Disconnect, history, subscriptions
<1>2. IInv'
  BY <1>1, DisconnectStep DEF DInv
<1>3. id \in Clients /\ client_sockfds[id] = s /\ s # Closed
  BY <1>1, ServedClient DEF DInv
<1>4. client_sockfds \in [Clients -> Sockets \cup {Closed, Absent}]
  BY DEF DInv, IInv, TypeOK
<1> HIDE DEF id
<1>5. LossOnlyAfterStray'
  BY <1>1, <1>3, <1>4 DEF DInv, LossOnlyAfterStray
<1>6. OwedAreAway'
  <2>1. owed[id] \subseteq stray
    BY <1>3 DEF DInv, LossOnlyAfterStray
  <2> QED
    BY <1>1, <1>3, <1>4, <2>1 DEF DInv, OwedAreAway
<1> QED
  BY <1>1, <1>2, <1>5, <1>6, QuietStep DEF DInv, HistoryTypes, SfUsersRecorded

LEMMA DSubscribeStep ==
    ASSUME DInv, NEW s \in Sockets, NEW t \in Topics, NEW sf \in {0, 1},
           DSubscribe(s, t, sf)
    PROVE  DInv'
<1> DEFINE id == client_ids[s]
           F == IF sf = 1 THEN saved_ids[id] \cup {t} ELSE saved_ids[id] \ {t}
<1>1. /\ Subscribe(s, t, sf)
      /\ s \in read_fds
      /\ saved_ids' = [saved_ids EXCEPT ![id] = F]
      /\ sf_users' = [sf_users EXCEPT ![t] = IF sf = 1 THEN @ \cup {id} ELSE @]
      /\ UNCHANGED <<client_sockfds, saved_msgs, published, session, owed, stray>>
  BY DEF DSubscribe, Subscribe, tables, stored
<1>2. IInv'
  BY <1>1, SubscribeStep DEF DInv
<1>3. id \in Clients /\ client_sockfds[id] = s /\ s # Closed
  BY <1>1, ServedClient DEF DInv
<1>4. saved_ids \in [Clients -> SUBSET Topics] /\ sf_users \in [Topics -> SUBSET Clients]
  BY DEF DInv, IInv, TypeOK, HistoryTypes
<1> HIDE DEF id
<1>5. LossOnlyAfterStray'
  BY <1>1 DEF DInv, LossOnlyAfterStray
<1>6. OwedAreAway'
  BY <1>1, <1>3, <1>4 DEF DInv, OwedAreAway
<1>7. sf_users' \in [Topics -> SUBSET Clients] /\ \A k \in Topics : sf_users[k] \subseteq sf_users'[k]
  BY <1>1, <1>3, <1>4
<1>8. \A c \in Clients : \A k \in saved_ids'[c] : c \in sf_users'[k]
  <2> SUFFICES ASSUME NEW c \in Clients, NEW k \in saved_ids'[c] PROVE c \in sf_users'[k]
    OBVIOUS
  <2>1. CASE k \in saved_ids[c]
    BY <2>1, <1>4, <1>7 DEF DInv, SfUsersRecorded
  <2>2. CASE k \notin saved_ids[c]
    BY <2>2, <1>1, <1>3, <1>4
  <2> QED
    BY <2>1, <2>2
<1> QED
  BY <1>1, <1>2, <1>5, <1>6, <1>7, <1>8, QuietStep

LEMMA DUnsubscribeStep ==
    ASSUME DInv, NEW s \in Sockets, NEW t \in Topics, DUnsubscribe(s, t)
    PROVE  DInv'
<1> DEFINE id == client_ids[s]
<1>1. /\ Unsubscribe(s, t)
      /\ s \in read_fds
      /\ saved_ids' = [saved_ids EXCEPT ![id] = @ \ {t}]
      /\ UNCHANGED <<client_sockfds, saved_msgs, published, session, owed, stray, sf_users>>
  BY DEF DUnsubscribe, Unsubscribe, history, tables, stored
<1>2. IInv'
  BY <1>1, UnsubscribeStep DEF DInv
<1>3. id \in Clients /\ client_sockfds[id] = s /\ s # Closed
  BY <1>1, ServedClient DEF DInv
<1>4. saved_ids \in [Clients -> SUBSET Topics]
  BY DEF DInv, IInv, TypeOK
<1> HIDE DEF id
<1>5. LossOnlyAfterStray'
  BY <1>1 DEF DInv, LossOnlyAfterStray
<1>6. OwedAreAway'
  BY <1>1, <1>3, <1>4 DEF DInv, OwedAreAway
<1>7. \A c \in Clients : \A k \in saved_ids'[c] : c \in sf_users[k]
  BY <1>1, <1>3, <1>4 DEF DInv, SfUsersRecorded
<1> QED
  BY <1>1, <1>2, <1>5, <1>6, <1>7, QuietStep DEF DInv, HistoryTypes

\* The client that comes back leaves the owers of exactly the messages whose
\* counter is decremented, except for those that stray.
LEMMA DReconnectStep ==
    ASSUME DInv, NEW c \in Clients, NEW s \in Sockets, DReconnect(c, s)
    PROVE  DInv'
<1> DEFINE R == ResentTo(c)
<1>1. /\ Reconnect(c, s)
      /\ Register(c, s)
      /\ client_sockfds[c] = Closed
      /\ saved_msgs' = SendStored(c)
      /\ session' = [session EXCEPT ![c] = ResendSequence(c)]
      /\ owed' = [owed EXCEPT ![c] = @ \ R]
      /\ stray' = stray \cup (R \ owed[c])
      /\ UNCHANGED <<saved_ids, published, sf_users>>
  BY DEF DReconnect, Reconnect, subscriptions
<1>2. IInv'
  BY <1>1, ReconnectStep DEF DInv
<1>3. /\ client_sockfds'[c] = s /\ s # Closed
      /\ \A d \in Clients \ {c} : client_sockfds'[d] = client_sockfds[d]
  BY <1>1, RegisterKeepsTables, StoreForwardAssumption DEF DInv
<1>4. /\ DOMAIN saved_msgs \subseteq Messages
      /\ \A m \in DOMAIN saved_msgs : m.topic \in Topics /\ saved_msgs[m] \in Int /\ m.n <= published
  BY DEF DInv, IInv, TypeOK, Messages
<1>5. \A m \in R : m \in DOMAIN saved_msgs /\ c \in saved_topics[m.topic]
  BY DEF ResentTo
<1>6. \A m \in DOMAIN saved_msgs : saved_msgs[m] >= 1
  <2> SUFFICES ASSUME NEW m \in DOMAIN saved_msgs PROVE saved_msgs[m] >= 1
    OBVIOUS
  <2>1. saved_msgs[m] \in 1..Cardinality(saved_topics[m.topic])
    BY DEF DInv, IInv, NoSubsBounded
  <2>2. saved_topics[m.topic] \subseteq Clients
    BY <1>4 DEF DInv, IInv, TypeOK
  <2> QED
    BY <2>1, <2>2, ClientSetsFinite
<1>7. DOMAIN saved_msgs' = {m \in DOMAIN saved_msgs : CountAfterResend(c, m) # 0}
  BY <1>1 DEF SendStored
<1>8. \A m \in DOMAIN saved_msgs' : saved_msgs'[m] = CountAfterResend(c, m)
  BY <1>1 DEF SendStored
<1>9. \A m \in R : m \in DOMAIN saved_msgs' <=> saved_msgs[m] # 1
  BY <1>4, <1>5, <1>7 DEF CountAfterResend
<1>10. \A m \in DOMAIN saved_msgs \ R : m \in DOMAIN saved_msgs'
  BY <1>6, <1>7 DEF CountAfterResend
<1>11. /\ session \in [Clients -> Seq(Messages)]
       /\ owed \in [Clients -> SUBSET Messages]
       /\ stray \in SUBSET Messages
  BY DEF DInv, HistoryTypes
<1>12. /\ owed'[c] = owed[c] \ R
       /\ \A d \in Clients \ {c} : owed'[d] = owed[d]
  BY <1>1, <1>11
<1>13. /\ ResendSequence(c) \in Seq(R)
       /\ \A i, j \in DOMAIN ResendSequence(c) :
             i < j => ResendSequence(c)[i].n < ResendSequence(c)[j].n
  <2>1. Numbered(R)
    BY <1>4, <1>5 DEF DInv, NumbersPast, Numbered
  <2> QED
    BY <2>1, ResendSequenceSorted
<1>14. \A i \in DOMAIN ResendSequence(c) : ResendSequence(c)[i] \in R
  BY <1>13
<1> HIDE DEF R
<1>15. HistoryTypes'
  <2>1. R \subseteq Messages
    BY <1>4, <1>5
  <2>2. ResendSequence(c) \in Seq(Messages)
    BY <2>1, <1>13
  <2> QED
    BY <2>1, <2>2, <1>1, <1>11 DEF DInv, HistoryTypes, Messages
<1>16. NumbersPast'
  <2>1. \A d \in Clients : \A i \in DOMAIN session'[d] : session'[d][i].n <= published
    BY <1>1, <1>4, <1>5, <1>11, <1>14 DEF DInv, NumbersPast
  <2>2. \A d \in Clients : \A m \in owed'[d] : m.n <= published
    BY <1>12 DEF DInv, NumbersPast
  <2>3. \A m \in stray' : m.n <= published
    BY <1>1, <1>4, <1>5 DEF DInv, NumbersPast
  <2>4. \A k, m \in DOMAIN saved_msgs' : k.n = m.n => k = m
    BY <1>7 DEF DInv, NumbersPast
  <2> QED
    BY <2>1, <2>2, <2>3, <2>4, <1>1 DEF NumbersPast
<1>17. SessionInOrder'
  BY <1>1, <1>11, <1>13 DEF DInv, SessionInOrder
<1>18. CountIsOwers'
  <2> SUFFICES ASSUME NEW m \in Published' \ stray'
               PROVE  Cardinality(Owers(m)') =
                        IF m \in DOMAIN saved_msgs' THEN saved_msgs'[m] ELSE 0
    BY DEF CountIsOwers, Owers
  <2>1. m \in Published /\ m \notin stray
    BY <1>1, <1>7, <1>12 DEF Published
  <2>2. Cardinality(Owers(m)) = IF m \in DOMAIN saved_msgs THEN saved_msgs[m] ELSE 0
    BY <2>1 DEF DInv, CountIsOwers
  <2>3. CASE m \in R
    <3>1. m \in owed[c]
      BY <2>3, <1>1
    <3>2. Owers(m)' = Owers(m) \ {c} /\ c \in Owers(m) /\ Owers(m) \subseteq Clients
      BY <2>3, <3>1, <1>12 DEF Owers
    <3>3. Cardinality(Owers(m)') = saved_msgs[m] - 1
      BY <3>2, <2>2, <2>3, <1>5, CountOneLess
    <3>4. CountAfterResend(c, m) = saved_msgs[m] - 1
      BY <2>3 DEF CountAfterResend, R
    <3> QED
      BY <3>3, <3>4, <2>3, <1>4, <1>5, <1>8, <1>9
  <2>4. CASE m \notin R
    <3>1. Owers(m)' = Owers(m)
      BY <2>4, <1>12 DEF Owers
    <3>2. m \in DOMAIN saved_msgs => CountAfterResend(c, m) = saved_msgs[m]
      BY <2>4 DEF CountAfterResend, R
    <3>3. m \in DOMAIN saved_msgs <=> m \in DOMAIN saved_msgs'
      BY <2>4, <1>7, <1>10
    <3> QED
      BY <3>1, <3>2, <3>3, <2>2, <1>8
  <2> QED
    BY <2>3, <2>4
<1>19. LossOnlyAfterStray'
  <2> SUFFICES ASSUME NEW d \in Clients, client_sockfds'[d] # Closed, NEW m \in owed'[d]
               PROVE  m \in stray'
    BY DEF LossOnlyAfterStray
  <2>1. CASE d # c
    BY <2>1, <1>1, <1>3, <1>12 DEF DInv, LossOnlyAfterStray
  <2>2. CASE d = c /\ m \notin stray
    <3>1. m \in owed[c] /\ m \notin R
      BY <2>2, <1>12
    <3>2. m \in DOMAIN saved_msgs
      BY <3>1, <2>2, OwedIsStored DEF DInv
    <3>3. m.topic \in saved_ids[c]
      BY <3>1, <2>2, <1>1 DEF DInv, OwedAreAway
    <3>4. c \in saved_topics[m.topic]
      BY <3>2, <3>3, <1>1, <1>4 DEF DInv, IInv, SavedTopicsExact
    <3> QED
      BY <3>1, <3>2, <3>4 DEF R, ResentTo
  <2>3. CASE m \in stray
    BY <2>3, <1>1
  <2> QED
    BY <2>1, <2>2, <2>3
<1>20. OwedAreAway'
  BY <1>1, <1>3, <1>12 DEF DInv, OwedAreAway
<1>21. SfUsersRecorded'
  BY <1>1, <1>12 DEF DInv, SfUsersRecorded
<1>22. StrayIsShared'
  <2> SUFFICES ASSUME NEW m \in R, m \notin stray, m \notin owed[c]
               PROVE  \E a, b \in sf_users[m.topic] : a # b
    BY <1>1 DEF DInv, StrayIsShared
  <2>1. m \in DOMAIN saved_msgs /\ c \in saved_topics[m.topic] /\ m.topic \in Topics
    BY <1>4, <1>5
  <2>2. c \in sf_users[m.topic]
    BY <2>1 DEF DInv, IInv, SavedTopicsExact, SfUsersRecorded
  <2>3. Cardinality(Owers(m)) = saved_msgs[m]
    BY <2>1 DEF DInv, CountIsOwers, Published
  <2>4. Owers(m) # {}
    BY <2>1, <2>3, <1>6, FS_EmptySet
  <2>5. PICK d \in Clients : m \in owed[d]
    BY <2>4 DEF Owers
  <2>6. d \in sf_users[m.topic] /\ d # c
    BY <2>5 DEF DInv, SfUsersRecorded
  <2> QED
    BY <2>2, <2>6
<1> QED
  BY <1>2, <1>15, <1>16, <1>17, <1>18, <1>19, <1>20, <1>21, <1>22 DEF DInv

\* A new message is owed to the very set whose size becomes its counter.
LEMMA DPublishStep ==
    ASSUME DInv, NEW t \in Topics, DPublishUdp(t)
    PROVE  DInv'
<1> DEFINE new == NextMessage(t)
<1>1. /\ PublishUdp(t)
      /\ published' = published + 1
      /\ session' = [c \in Clients |-> IF c \in Receivers(t)
                                       THEN Append(session[c], new) ELSE session[c]]
      /\ owed' = [c \in Clients |->
                    IF client_sockfds[c] = Closed /\ t \in saved_ids[c]
                    THEN owed[c] \cup {new} ELSE owed[c]]
      /\ UNCHANGED <<client_sockfds, saved_ids, saved_topics, saved_keys, stray, sf_users>>
  BY DEF DPublishUdp, PublishUdp, tables, subscriptions
<1>2. IInv'
  BY <1>1, PublishStep DEF DInv
<1>3. new \in Messages /\ new.topic = t /\ new.n = published + 1 /\ published \in Nat
  <2>1. published \in 0..MaxMsgs /\ published < MaxMsgs
    BY <1>1 DEF PublishUdp, DInv, IInv, TypeOK
  <2>2. published + 1 \in 1..MaxMsgs
    BY <2>1, StoreForwardAssumption
  <2> QED
    BY <2>1, <2>2 DEF NextMessage, Messages
<1>4. /\ session \in [Clients -> Seq(Messages)]
      /\ owed \in [Clients -> SUBSET Messages]
      /\ stray \in SUBSET Messages
  BY DEF DInv, HistoryTypes
<1>5. \A m \in Messages : m.n \in Int
  BY DEF Messages
<1>6. /\ new \notin stray /\ new \notin DOMAIN saved_msgs
      /\ \A c \in Clients : new \notin owed[c]
  BY <1>3 DEF DInv, NumbersPast, IInv, TypeOK
<1>7. /\ DOMAIN saved_msgs' = IF t \in saved_keys THEN DOMAIN saved_msgs \cup {new}
                                                ELSE DOMAIN saved_msgs
      /\ \A m \in DOMAIN saved_msgs : saved_msgs'[m] = saved_msgs[m]
      /\ t \in saved_keys => saved_msgs'[new] = Cardinality(saved_topics[t])
  BY <1>1, <1>6 DEF PublishUdp
<1>8. \A c \in Clients : /\ owed[c] \subseteq owed'[c]
                         /\ owed'[c] \subseteq owed[c] \cup {new}
                         /\ new \in owed'[c] <=> client_sockfds[c] = Closed /\ t \in saved_ids[c]
  BY <1>1, <1>6
<1>9. /\ DOMAIN saved_msgs \subseteq Messages
      /\ \A m \in DOMAIN saved_msgs : m.n <= published
  BY DEF DInv, IInv, TypeOK
<1> HIDE DEF new
<1>10. HistoryTypes'
  <2>1. \A c \in Clients : session'[c] \in Seq(Messages)
    BY <1>1, <1>3, <1>4
  <2>2. \A c \in Clients : owed'[c] \in SUBSET Messages
    BY <1>3, <1>4, <1>8
  <2>3. session' \in [Clients -> Seq(Messages)]
    <3>1. session' = [c \in Clients |-> session'[c]]
      BY <1>1
    <3> QED
      BY <2>1, <3>1
  <2>4. owed' \in [Clients -> SUBSET Messages]
    <3>1. owed' = [c \in Clients |-> owed'[c]]
      BY <1>1
    <3> QED
      BY <2>2, <3>1
  <2> QED
    BY <2>3, <2>4, <1>1 DEF DInv, HistoryTypes, Messages
<1>11. \A c \in Clients : \A i \in DOMAIN session'[c] :
          \/ i \in DOMAIN session[c] /\ session'[c][i] = session[c][i]
          \/ session'[c][i] = new /\ \A j \in DOMAIN session'[c] : j <= i
  <2> SUFFICES ASSUME NEW c \in Clients, NEW i \in DOMAIN session'[c]
               PROVE  \/ i \in DOMAIN session[c] /\ session'[c][i] = session[c][i]
                      \/ session'[c][i] = new /\ \A j \in DOMAIN session'[c] : j <= i
    OBVIOUS
  <2>1. session[c] \in Seq(Messages)
    BY <1>4
  <2>2. CASE session'[c] = session[c]
    BY <2>2
  <2>3. CASE session'[c] = Append(session[c], new)
    BY <2>1, <2>3, <1>3
  <2> QED
    BY <2>2, <2>3, <1>1
<1>12. \A c \in Clients : \A i \in DOMAIN session[c] :
          session[c][i].n <= published /\ session[c][i].n \in Int
  <2> SUFFICES ASSUME NEW c \in Clients, NEW i \in DOMAIN session[c]
               PROVE  session[c][i].n <= published /\ session[c][i].n \in Int
    OBVIOUS
  <2>1. session[c] \in Seq(Messages)
    BY <1>4
  <2>2. session[c][i] \in Messages
    BY <2>1
  <2> QED
    BY <2>2, <1>5 DEF DInv, NumbersPast
<1>13. NumbersPast'
  <2>1. \A c \in Clients : \A i \in DOMAIN session'[c] : session'[c][i].n <= published + 1
    BY <1>3, <1>11, <1>12
  <2>2. \A c \in Clients : \A m \in owed'[c] : m.n <= published + 1
    <3>1. \A c \in Clients : \A m \in owed[c] : m.n <= published /\ m.n \in Int
      BY <1>4, <1>5 DEF DInv, NumbersPast
    <3> QED
      BY <3>1, <1>3, <1>8
  <2>3. \A m \in stray' : m.n <= published + 1
    <3>1. \A m \in stray : m.n <= published /\ m.n \in Int
      BY <1>4, <1>5 DEF DInv, NumbersPast
    <3> QED
      BY <3>1, <1>1, <1>3
  <2>4. \A k, m \in DOMAIN saved_msgs' : k.n = m.n => k = m
    <3>1. \A m \in DOMAIN saved_msgs : m.n <= published /\ m.n \in Int
      BY <1>5, <1>9
    <3> QED
      BY <3>1, <1>3, <1>7 DEF DInv, NumbersPast
  <2> QED
    BY <2>1, <2>2, <2>3, <2>4, <1>1 DEF NumbersPast
<1>14. SessionInOrder'
  <2> SUFFICES ASSUME NEW c \in Clients, NEW i \in DOMAIN session'[c],
                      NEW j \in DOMAIN session'[c], i < j
               PROVE  session'[c][i].n < session'[c][j].n
    BY DEF SessionInOrder
  <2>1. i \in Int /\ j \in Int /\ ~ (j <= i)
    <3>1. session'[c] \in Seq(Messages)
      BY <1>10 DEF HistoryTypes, Messages
    <3> QED
      BY <3>1
  <2>2. i \in DOMAIN session[c] /\ session'[c][i] = session[c][i]
    BY <2>1, <1>11
  <2>3. CASE j \in DOMAIN session[c] /\ session'[c][j] = session[c][j]
    BY <2>2, <2>3 DEF DInv, SessionInOrder
  <2>4. CASE session'[c][j] = new
    BY <2>2, <2>4, <1>3, <1>12
  <2> QED
    BY <2>3, <2>4, <1>11
<1>15. CountIsOwers'
  <2> SUFFICES ASSUME NEW m \in Published' \ stray'
               PROVE  Cardinality(Owers(m)') =
                        IF m \in DOMAIN saved_msgs' THEN saved_msgs'[m] ELSE 0
    BY DEF CountIsOwers, Owers
  <2>1. CASE m = new
    <3>1. Owers(m)' = saved_topics[t]
      <4>1. \A c \in Clients : m \in owed'[c] <=> c \in saved_topics[t]
        BY <2>1, <1>8 DEF DInv, IInv, SavedTopicsExact
      <4>2. saved_topics[t] \subseteq Clients
        BY DEF DInv, IInv, TypeOK
      <4> QED
        BY <4>1, <4>2 DEF Owers
    <3>2. t \notin saved_keys => saved_topics[t] = {}
      BY DEF DInv, IInv, SavedKeysExact
    <3> QED
      BY <2>1, <3>1, <3>2, <1>6, <1>7, FS_EmptySet
  <2>2. CASE m # new
    <3>1. Owers(m)' = Owers(m)
      BY <2>2, <1>8 DEF Owers
    <3>2. m \in Published /\ m \notin stray
      BY <2>2, <1>1, <1>7, <1>8 DEF Published
    <3> QED
      BY <2>2, <3>1, <3>2, <1>7 DEF DInv, CountIsOwers
  <2> QED
    BY <2>1, <2>2
<1>16. LossOnlyAfterStray'
  BY <1>1, <1>8 DEF DInv, LossOnlyAfterStray
<1>17. OwedAreAway' /\ SfUsersRecorded'
  BY <1>1, <1>3, <1>8 DEF DInv, OwedAreAway, SfUsersRecorded
<1>18. StrayIsShared'
  BY <1>1 DEF DInv, StrayIsShared
<1> QED
  BY <1>2, <1>10, <1>13, <1>14, <1>15, <1>16, <1>17, <1>18 DEF DInv

\* DInv is an inductive invariant of the handlers with their history.
THEOREM DeliveryInvariant == DSpec => []DInv
<1>1. DInit => DInv
  BY DInitInv
<1>2. DInv /\ [DNext]_<<vars, history>> => DInv'
  <2> SUFFICES ASSUME DInv, [DNext]_<<vars, history>> PROVE DInv'
    OBVIOUS
  <2>1. ASSUME NEW c \in Clients, NEW s \in Sockets, DConnectNew(c, s) PROVE DInv'
    BY <2>1, DConnectNewStep
  <2>2. ASSUME NEW c \in Clients, NEW s \in Sockets, DReconnect(c, s) PROVE DInv'
    BY <2>2, DReconnectStep
  <2>3. ASSUME NEW s \in Sockets, DDisconnect(s) PROVE DInv'
    BY <2>3, DDisconnectStep
  <2>4. ASSUME NEW s \in Sockets, NEW t \in Topics, NEW sf \in {0, 1}, DSubscribe(s, t, sf)
        PROVE  DInv'
    BY <2>4, DSubscribeStep
  <2>5. ASSUME NEW s \in Sockets, NEW t \in Topics, DUnsubscribe(s, t) PROVE DInv'
    BY <2>5, DUnsubscribeStep
  <2>6. ASSUME NEW t \in Topics, DPublishUdp(t) PROVE DInv'
    BY <2>6, DPublishStep
  <2>7. CASE UNCHANGED <<vars, history>>
    <3>1. IInv'
      BY <2>7, StutterStep DEF DInv
    <3>2. UNCHANGED <<client_sockfds, saved_ids, saved_msgs, published, session, owed, stray, sf_users>>
      BY <2>7 DEF vars, tables, subscriptions, stored, history
    <3>3. LossOnlyAfterStray' /\ OwedAreAway'
      BY <3>2 DEF DInv, LossOnlyAfterStray, OwedAreAway
    <3> QED
      BY <3>1, <3>2, <3>3, QuietStep DEF DInv, HistoryTypes, SfUsersRecorded
  <2> QED
    BY <2>1, <2>2, <2>3, <2>4, <2>5, <2>6, <2>7 DEF DNext
<1> QED
  BY <1>1, <1>2, PTL DEF DSpec

(***************************************************************************)
(* What the invariant gives                                                *)
(***************************************************************************)

\* no_subs counts the clients a message still waits for, as long as no one
\* was sent it who was not owed it.
THEOREM CounterCountsOwers == DSpec => []CountIsOwers
<1>1. DInv => CountIsOwers
  BY DEF DInv
<1> QED
  BY <1>1, DeliveryInvariant, PTL

\* Whoever is connected has been sent all it was owed, up to strays: the one
\* way to lose a stored message is another client's late subscription.
THEOREM LossNeedsStray == DSpec => []LossOnlyAfterStray
<1>1. DInv => LossOnlyAfterStray
  BY DEF DInv
<1> QED
  BY <1>1, DeliveryInvariant, PTL

\* The stored messages of a session and the live ones after them come in the
\* order of publication, none twice.
THEOREM SessionsInOrder == DSpec => []SessionInOrder
<1>1. DInv => SessionInOrder
  BY DEF DInv
<1> QED
  BY <1>1, DeliveryInvariant, PTL

\* A topic only one client ever asks to have stored is delivered exactly.
THEOREM LoneSubscriberExact == DSpec => []ExactForLoneSubscriber
<1>1. DInv => ExactForLoneSubscriber
  <2> SUFFICES ASSUME DInv, NEW t \in Topics, Cardinality(sf_users[t]) <= 1
               PROVE  /\ \A m \in stray : m.topic # t
                      /\ \A c \in Clients, m \in Published :
                            m \in owed[c] /\ m.topic = t =>
                                m \in DOMAIN saved_msgs /\ client_sockfds[c] = Closed
    BY DEF ExactForLoneSubscriber
  <2>1. sf_users[t] \subseteq Clients
    BY DEF DInv, HistoryTypes
  <2>2. \A c, d \in sf_users[t] : c = d
    <3> SUFFICES ASSUME NEW c \in sf_users[t], NEW d \in sf_users[t], c # d PROVE FALSE
      OBVIOUS
    <3>1. Cardinality(sf_users[t] \ {c}) >= 1
      BY <2>1, CountPositive
    <3>2. Cardinality(sf_users[t] \ {c}) = Cardinality(sf_users[t]) - 1
      BY <2>1, CountOneLess
    <3> QED
      BY <2>1, <3>1, <3>2, ClientSetsFinite
  <2>3. \A m \in stray : m.topic # t
    BY <2>2 DEF DInv, StrayIsShared
  <2>4. ASSUME NEW c \in Clients, NEW m \in owed[c], m.topic = t
        PROVE  m \in DOMAIN saved_msgs /\ client_sockfds[c] = Closed
    <3>1. m \notin stray
      BY <2>3, <2>4
    <3> QED
      BY <3>1, OwedIsStored DEF DInv, LossOnlyAfterStray
  <2> QED
    BY <2>3, <2>4
<1> QED
  BY <1>1, DeliveryInvariant, PTL
=============================================================================
