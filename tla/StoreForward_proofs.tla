------------------------ MODULE StoreForward_proofs -------------------------
(***************************************************************************)
(* The tables of the notification server are right for any set of clients, *)
(* topics and sockets and any number of messages: IInv of StoreForward is  *)
(* inductive.                                                              *)
(***************************************************************************)
EXTENDS StoreForward, FiniteSetTheorems, TLAPS

\* Any set of clients is finite, so Cardinality counts it.
LEMMA ClientSetsFinite ==
    ASSUME NEW S, S \subseteq Clients
    PROVE  IsFiniteSet(S) /\ Cardinality(S) \in Nat
BY StoreForwardAssumption, FS_Subset, FS_CardinalityType

\* A stored client leaving (entering) a set of saved_topics changes its size
\* by one, which is what no_subs is compared with.
LEMMA CountOneLess ==
    ASSUME NEW S, S \subseteq Clients, NEW c \in S
    PROVE  Cardinality(S \ {c}) = Cardinality(S) - 1
BY ClientSetsFinite, FS_RemoveElement

LEMMA CountNoLess ==
    ASSUME NEW S, S \subseteq Clients, NEW c \in Clients
    PROVE  Cardinality(S \cup {c}) >= Cardinality(S)
BY ClientSetsFinite, FS_AddElement

LEMMA CountPositive ==
    ASSUME NEW S, S \subseteq Clients, S # {}
    PROVE  Cardinality(S) >= 1
BY ClientSetsFinite, FS_EmptySet

\* The empty tables satisfy the invariant.
LEMMA InitIInv == Init => IInv
<1> SUFFICES ASSUME Init PROVE IInv
  OBVIOUS
<1>1. TypeOK
  BY StoreForwardAssumption DEF Init, TypeOK
<1>2. SocketTablesAgree
  BY StoreForwardAssumption DEF Init, SocketTablesAgree
<1>3. SavedTopicsExact /\ SavedKeysExact
  BY StoreForwardAssumption DEF Init, SavedTopicsExact, SavedKeysExact
<1>4. NoSubsBounded /\ SubscriptionsNested
  BY DEF Init, NoSubsBounded, SubscriptionsNested
<1> QED
  BY <1>1, <1>2, <1>3, <1>4 DEF IInv

\* What the invariant says of the client whose socket a handler serves: it
\* is a known id, connected through this very socket, and nothing is stored
\* for it.
LEMMA ServedClient ==
    ASSUME IInv, NEW s \in read_fds
    PROVE  /\ s \in Sockets
           /\ client_ids[s] \in Clients
           /\ client_sockfds[client_ids[s]] = s
           /\ s # Closed
           /\ s # Absent
           /\ \A t \in Topics : client_ids[s] \notin saved_topics[t]
<1>1. s \in Sockets /\ s # Closed /\ s # Absent
  BY StoreForwardAssumption DEF IInv, TypeOK
<1>2. client_ids[s] \in Clients /\ client_sockfds[client_ids[s]] = s
  BY DEF IInv, SocketTablesAgree
<1> QED
  BY <1>1, <1>2 DEF IInv, SavedTopicsExact

\* Taking up an id on a fresh socket keeps the two socket tables inverse.
LEMMA RegisterKeepsTables ==
    ASSUME IInv, NEW c \in Clients, NEW s \in Sockets,
           client_sockfds[c] \in {Absent, Closed}, Register(c, s)
    PROVE  /\ client_sockfds' \in [Clients -> Sockets \cup {Closed, Absent}]
           /\ client_ids' \in [Sockets -> Clients \cup {Absent}]
           /\ read_fds' \in SUBSET Sockets
           /\ SocketTablesAgree'
           /\ client_sockfds'[c] = s
           /\ \A d \in Clients \ {c} : client_sockfds'[d] = client_sockfds[d]
<1> USE StoreForwardAssumption DEF IInv, TypeOK, Register
<1>1. /\ client_sockfds' \in [Clients -> Sockets \cup {Closed, Absent}]
      /\ client_ids' \in [Sockets -> Clients \cup {Absent}]
      /\ read_fds' \in SUBSET Sockets
      /\ client_sockfds'[c] = s
      /\ \A d \in Clients \ {c} : client_sockfds'[d] = client_sockfds[d]
  OBVIOUS
<1>2. \A r \in read_fds' : /\ client_ids'[r] \in Clients
                           /\ client_sockfds'[client_ids'[r]] = r
  <2> SUFFICES ASSUME NEW r \in read_fds'
               PROVE  client_ids'[r] \in Clients /\ client_sockfds'[client_ids'[r]] = r
    OBVIOUS
  <2>1. CASE r = s
    BY <2>1
  <2>2. CASE r # s
    <3>1. r \in read_fds
      BY <2>2
    <3>2. client_ids'[r] = client_ids[r]
      BY <2>2, <3>1
    <3> QED
      BY <3>1, <3>2, <1>1, ServedClient
  <2> QED
    BY <2>1, <2>2
<1>3. \A d \in Clients : client_sockfds'[d] \in Sockets =>
          client_sockfds'[d] \in read_fds' /\ client_ids'[client_sockfds'[d]] = d
  <2> SUFFICES ASSUME NEW d \in Clients, client_sockfds'[d] \in Sockets
               PROVE  client_sockfds'[d] \in read_fds' /\ client_ids'[client_sockfds'[d]] = d
    OBVIOUS
  <2>1. CASE d = c
    BY <2>1
  <2>2. CASE d # c
    BY <2>2 DEF SocketTablesAgree
  <2> QED
    BY <2>1, <2>2
<1> QED
  BY <1>1, <1>2, <1>3 DEF SocketTablesAgree

LEMMA ConnectNewStep ==
    ASSUME IInv, NEW c \in Clients, NEW s \in Sockets, ConnectNew(c, s)
    PROVE  IInv'
<1> USE StoreForwardAssumption
<1>1. /\ Register(c, s)
      /\ client_sockfds[c] = Absent
      /\ UNCHANGED <<client_topics, saved_ids, saved_topics, saved_keys,
                     saved_msgs, published>>
  BY DEF ConnectNew, subscriptions, stored
<1>2. TypeOK'
  BY <1>1, RegisterKeepsTables DEF IInv, TypeOK, Messages
<1>3. SocketTablesAgree'
  BY <1>1, RegisterKeepsTables
<1>4. SavedTopicsExact'
  BY <1>1, RegisterKeepsTables DEF IInv, SavedTopicsExact
<1>5. SavedKeysExact' /\ NoSubsBounded'
  BY <1>1 DEF IInv, SavedKeysExact, NoSubsBounded
<1>6. SubscriptionsNested'
  BY <1>1, RegisterKeepsTables DEF IInv, SubscriptionsNested
<1> QED
  BY <1>2, <1>3, <1>4, <1>5, <1>6 DEF IInv

\* The pass of send_stored and delete_from_stored over the store.
LEMMA ReconnectStep ==
    ASSUME IInv, NEW c \in Clients, NEW s \in Sockets, Reconnect(c, s)
    PROVE  IInv'
<1> USE StoreForwardAssumption
<1>1. /\ Register(c, s)
      /\ client_sockfds[c] = Closed
      /\ saved_msgs' = SendStored(c)
      /\ saved_topics' = SavedWithout(c)
      /\ saved_keys' = KeysWithout(c)
      /\ UNCHANGED <<client_topics, saved_ids, published>>
  BY DEF Reconnect, subscriptions
<1>2. saved_topics' = [t \in Topics |-> saved_topics[t] \ {c}]
  <2>1. \A t \in Topics : t \notin saved_ids[c] => c \notin saved_topics[t]
    BY DEF IInv, SavedTopicsExact
  <2> QED
    BY <1>1, <2>1 DEF SavedWithout, IInv, TypeOK
<1>3. saved_topics' \in [Topics -> SUBSET Clients]
  BY <1>2 DEF IInv, TypeOK
<1>4. DOMAIN saved_msgs' \subseteq DOMAIN saved_msgs
  BY <1>1 DEF SendStored
<1>5. \A m \in DOMAIN saved_msgs' :
          /\ m \in Messages
          /\ m.topic \in Topics
          /\ saved_msgs'[m] = CountAfterResend(c, m)
          /\ saved_msgs'[m] # 0
          /\ saved_msgs'[m] \in Int
  BY <1>1, <1>4 DEF SendStored, CountAfterResend, IInv, TypeOK, Messages
<1>6. NoSubsBounded'
  <2> SUFFICES ASSUME NEW m \in DOMAIN saved_msgs'
               PROVE  saved_msgs'[m] \in 1..Cardinality(saved_topics'[m.topic])
    BY DEF NoSubsBounded
  <2> DEFINE S == saved_topics[m.topic]
  <2>1. S \subseteq Clients /\ saved_topics'[m.topic] = S \ {c}
    BY <1>2, <1>5 DEF IInv, TypeOK
  <2>2. saved_msgs[m] \in 1..Cardinality(S) /\ Cardinality(S) \in Nat
    BY <1>4, <2>1, ClientSetsFinite DEF IInv, NoSubsBounded
  <2>3. CASE c \in S
    <3>1. saved_msgs'[m] = saved_msgs[m] - 1
      BY <2>3, <1>4, <1>5 DEF CountAfterResend, ResentTo
    <3>2. Cardinality(S \ {c}) = Cardinality(S) - 1
      BY <2>1, <2>3, CountOneLess
    <3> QED
      BY <2>1, <2>2, <3>1, <3>2, <1>5
  <2>4. CASE c \notin S
    <3>1. saved_msgs'[m] = saved_msgs[m]
      BY <2>4, <1>5 DEF CountAfterResend, ResentTo
    <3>2. S \ {c} = S
      BY <2>4
    <3> QED
      BY <2>1, <2>2, <3>1, <3>2
  <2> QED
    BY <2>3, <2>4
<1>7. SavedKeysExact'
  <2> SUFFICES ASSUME NEW t \in Topics
               PROVE  t \in KeysWithout(c) <=> saved_topics[t] \ {c} # {}
    BY <1>1, <1>2 DEF SavedKeysExact
  <2>1. CASE t \in saved_ids[c]
    BY <2>1 DEF KeysWithout
  <2>2. CASE t \notin saved_ids[c]
    <3>1. c \notin saved_topics[t]
      BY <2>2 DEF IInv, SavedTopicsExact
    <3>2. t \in {m.topic : m \in DOMAIN saved_msgs} => t \in saved_keys
      <4> SUFFICES ASSUME NEW m \in DOMAIN saved_msgs, t = m.topic
                   PROVE  saved_topics[t] # {}
        BY DEF IInv, SavedKeysExact
      <4>1. saved_msgs[m] \in 1..Cardinality(saved_topics[t])
        BY DEF IInv, NoSubsBounded
      <4> QED
        BY <4>1, FS_EmptySet
    <3> QED
      BY <2>2, <3>1, <3>2 DEF KeysWithout, IInv, SavedKeysExact
  <2> QED
    BY <2>1, <2>2
<1>8. SavedTopicsExact'
  <2> SUFFICES ASSUME NEW t \in Topics, NEW d \in Clients
               PROVE  d \in saved_topics'[t] <=>
                          client_sockfds'[d] = Closed /\ t \in saved_ids'[d]
    BY DEF SavedTopicsExact
  <2>1. d \in saved_topics'[t] <=> d # c /\ d \in saved_topics[t]
    BY <1>2
  <2>2. client_sockfds'[c] = s /\ s # Closed
    BY <1>1, RegisterKeepsTables
  <2>3. d # c => client_sockfds'[d] = client_sockfds[d]
    BY <1>1, RegisterKeepsTables
  <2> QED
    BY <1>1, <2>1, <2>2, <2>3 DEF IInv, SavedTopicsExact
<1>9. TypeOK'
  <2>1. saved_keys' \in SUBSET Topics
    BY <1>1 DEF KeysWithout, IInv, TypeOK, Messages
  <2>2. /\ DOMAIN saved_msgs' \subseteq Messages
        /\ saved_msgs' \in [DOMAIN saved_msgs' -> Int]
        /\ \A m \in DOMAIN saved_msgs' : m.n <= published'
    BY <1>1, <1>4, <1>5 DEF SendStored, IInv, TypeOK
  <2> QED
    BY <1>1, <1>3, <2>1, <2>2, RegisterKeepsTables DEF IInv, TypeOK, Messages
<1>10. SubscriptionsNested'
  BY <1>1, RegisterKeepsTables DEF IInv, SubscriptionsNested
<1> QED
  BY <1>6, <1>7, <1>8, <1>9, <1>10, <1>1, RegisterKeepsTables DEF IInv

\* update_store moves the client into the sets it now waits in.
LEMMA DisconnectStep ==
    ASSUME IInv, NEW s \in Sockets, Disconnect(s)
    PROVE  IInv'
<1> DEFINE id == client_ids[s]
<1> USE StoreForwardAssumption
<1>1. /\ s \in read_fds
      /\ client_sockfds' = [client_sockfds EXCEPT ![id] = Closed]
      /\ saved_topics' = SavedWith(id)
      /\ saved_keys' = saved_keys \cup saved_ids[id]
      /\ read_fds' = read_fds \ {s}
      /\ UNCHANGED <<client_ids, client_topics, saved_ids, saved_msgs, published>>
  BY DEF Disconnect, subscriptions
<1>2. /\ id \in Clients
      /\ client_sockfds[id] = s
      /\ \A t \in Topics : id \notin saved_topics[t]
  BY <1>1, ServedClient
<1> HIDE DEF id
<1>3. TypeOK'
  BY <1>1, <1>2 DEF SavedWith, IInv, TypeOK, Messages
<1>4. SocketTablesAgree'
  BY <1>1, <1>2, ServedClient DEF IInv, TypeOK, SocketTablesAgree
<1>5. SavedTopicsExact'
  BY <1>1, <1>2 DEF SavedWith, IInv, TypeOK, SavedTopicsExact
<1>6. SavedKeysExact'
  BY <1>1, <1>2 DEF SavedWith, IInv, TypeOK, SavedKeysExact
<1>7. NoSubsBounded'
  <2> SUFFICES ASSUME NEW m \in DOMAIN saved_msgs
               PROVE  saved_msgs[m] \in 1..Cardinality(saved_topics'[m.topic])
    BY <1>1 DEF NoSubsBounded
  <2>1. /\ m.topic \in Topics
        /\ saved_topics[m.topic] \subseteq Clients
        /\ saved_msgs[m] \in 1..Cardinality(saved_topics[m.topic])
    BY DEF IInv, TypeOK, Messages, NoSubsBounded
  <2>2. \/ saved_topics'[m.topic] = saved_topics[m.topic]
        \/ saved_topics'[m.topic] = saved_topics[m.topic] \cup {id}
    BY <1>1, <2>1 DEF SavedWith
  <2>3. /\ saved_topics'[m.topic] \subseteq Clients
        /\ Cardinality(saved_topics'[m.topic]) >= Cardinality(saved_topics[m.topic])
    BY <1>2, <2>1, <2>2, CountNoLess, ClientSetsFinite
  <2>4. /\ Cardinality(saved_topics'[m.topic]) \in Nat
        /\ Cardinality(saved_topics[m.topic]) \in Nat
    BY <2>1, <2>3, ClientSetsFinite
  <2> QED
    BY <2>1, <2>3, <2>4
<1>8. SubscriptionsNested'
  BY <1>1, <1>2 DEF IInv, TypeOK, SubscriptionsNested
<1> QED
  BY <1>3, <1>4, <1>5, <1>6, <1>7, <1>8 DEF IInv

\* Commands come from connected clients, so they cannot disturb what is kept
\* for the disconnected ones.
LEMMA CommandStep ==
    ASSUME IInv, NEW s \in read_fds, NEW T \in SUBSET Topics, NEW F \in SUBSET Topics,
           F \subseteq T,
           client_topics' = [client_topics EXCEPT ![client_ids[s]] = T],
           saved_ids' = [saved_ids EXCEPT ![client_ids[s]] = F],
           UNCHANGED <<tables, stored, published>>
    PROVE  IInv'
<1> DEFINE id == client_ids[s]
<1>1. id \in Clients /\ client_sockfds[id] = s /\ s # Closed /\ s # Absent
  BY ServedClient
<1> HIDE DEF id
<1> USE <1>1 DEF tables, stored
<1>2. client_topics' = [client_topics EXCEPT ![id] = T]
  BY DEF id
<1>3. saved_ids' = [saved_ids EXCEPT ![id] = F]
  BY DEF id
<1>4. TypeOK'
  BY <1>2, <1>3 DEF IInv, TypeOK, Messages
<1>5. SocketTablesAgree' /\ SavedKeysExact' /\ NoSubsBounded'
  BY DEF IInv, SocketTablesAgree, SavedKeysExact, NoSubsBounded
<1>6. SavedTopicsExact'
  BY <1>3 DEF IInv, TypeOK, SavedTopicsExact
<1>7. SubscriptionsNested'
  BY <1>2, <1>3 DEF IInv, TypeOK, SubscriptionsNested
<1> QED
  BY <1>4, <1>5, <1>6, <1>7 DEF IInv

LEMMA SubscribeStep ==
    ASSUME IInv, NEW s \in Sockets, NEW t \in Topics, NEW sf \in {0, 1},
           Subscribe(s, t, sf)
    PROVE  IInv'
<1> DEFINE id == client_ids[s]
           T == client_topics[id] \cup {t}
           F == IF sf = 1 THEN saved_ids[id] \cup {t} ELSE saved_ids[id] \ {t}
<1>1. s \in read_fds
  BY DEF Subscribe
<1>2. id \in Clients
  BY <1>1, ServedClient
<1>3. T \in SUBSET Topics /\ F \in SUBSET Topics /\ F \subseteq T
  BY <1>2 DEF IInv, TypeOK, SubscriptionsNested
<1>4. /\ client_topics' = [client_topics EXCEPT ![id] = T]
      /\ saved_ids' = [saved_ids EXCEPT ![id] = F]
      /\ UNCHANGED <<tables, stored, published>>
  BY DEF Subscribe
<1> QED
  BY <1>1, <1>3, <1>4, CommandStep

LEMMA UnsubscribeStep ==
    ASSUME IInv, NEW s \in Sockets, NEW t \in Topics, Unsubscribe(s, t)
    PROVE  IInv'
<1> DEFINE id == client_ids[s]
           T == client_topics[id] \ {t}
           F == saved_ids[id] \ {t}
<1>1. s \in read_fds
  BY DEF Unsubscribe
<1>2. id \in Clients
  BY <1>1, ServedClient
<1>3. T \in SUBSET Topics /\ F \in SUBSET Topics /\ F \subseteq T
  BY <1>2 DEF IInv, TypeOK, SubscriptionsNested
<1>4. /\ client_topics' = [client_topics EXCEPT ![id] = T]
      /\ saved_ids' = [saved_ids EXCEPT ![id] = F]
      /\ UNCHANGED <<tables, stored, published>>
  BY DEF Unsubscribe
<1> QED
  BY <1>1, <1>3, <1>4, CommandStep

\* A message is stored with a positive count, because the key exists only
\* for a non-empty set.
LEMMA PublishStep ==
    ASSUME IInv, NEW t \in Topics, PublishUdp(t)
    PROVE  IInv'
<1> DEFINE new == NextMessage(t)
           D == IF t \in saved_keys THEN DOMAIN saved_msgs \cup {new}
                                    ELSE DOMAIN saved_msgs
<1> USE StoreForwardAssumption
<1>1. /\ published < MaxMsgs
      /\ published' = published + 1
      /\ published' \in 0..MaxMsgs
      /\ UNCHANGED <<tables, subscriptions, saved_topics, saved_keys>>
  BY DEF PublishUdp, IInv, TypeOK
<1>2. new \in Messages /\ new.topic = t /\ new.n = published'
  BY <1>1 DEF NextMessage, Messages, IInv, TypeOK
<1>3. DOMAIN saved_msgs' = D
  BY DEF PublishUdp
<1>4. \A m \in D : saved_msgs'[m] = IF t \in saved_keys /\ m = new
                                    THEN Cardinality(saved_topics[t])
                                    ELSE saved_msgs[m]
  BY DEF PublishUdp
<1>5. saved_topics[t] \subseteq Clients
  BY DEF IInv, TypeOK
<1>6. saved_msgs' \in [D -> Int]
  <2>1. saved_msgs' = [m \in D |-> saved_msgs'[m]]
    BY <1>3 DEF PublishUdp, IInv, TypeOK
  <2>2. \A m \in D : saved_msgs'[m] \in Int
    BY <1>4, <1>5, ClientSetsFinite DEF IInv, TypeOK
  <2> QED
    BY <2>1, <2>2
<1>7. TypeOK'
  <2>1. D \subseteq Messages /\ \A m \in D : m.n <= published'
    BY <1>1, <1>2 DEF IInv, TypeOK, Messages
  <2> QED
    BY <1>1, <1>3, <1>6, <2>1 DEF IInv, TypeOK, tables, subscriptions, Messages
<1>8. NoSubsBounded'
  <2> SUFFICES ASSUME NEW m \in D
               PROVE  saved_msgs'[m] \in 1..Cardinality(saved_topics[m.topic])
    BY <1>1, <1>3 DEF NoSubsBounded
  <2>1. CASE t \in saved_keys /\ m = new
    <3>1. saved_topics[t] # {}
      BY <2>1 DEF IInv, SavedKeysExact
    <3>2. Cardinality(saved_topics[t]) >= 1 /\ Cardinality(saved_topics[t]) \in Nat
      BY <1>5, <3>1, CountPositive, ClientSetsFinite
    <3> QED
      BY <2>1, <1>2, <1>4, <3>2
  <2>2. CASE ~(t \in saved_keys /\ m = new)
    <3>1. m \in DOMAIN saved_msgs
      BY <2>2
    <3> QED
      BY <2>2, <3>1, <1>4 DEF IInv, NoSubsBounded
  <2> QED
    BY <2>1, <2>2
<1>9. SocketTablesAgree' /\ SavedTopicsExact' /\ SavedKeysExact' /\ SubscriptionsNested'
  BY <1>1 DEF IInv, tables, subscriptions, SocketTablesAgree, SavedTopicsExact,
              SavedKeysExact, SubscriptionsNested
<1> QED
  BY <1>7, <1>8, <1>9 DEF IInv

LEMMA StutterStep == IInv /\ UNCHANGED vars => IInv'
BY DEF vars, tables, subscriptions, stored, IInv, TypeOK, Messages,
       SocketTablesAgree, SavedTopicsExact, SavedKeysExact, NoSubsBounded,
       SubscriptionsNested

\* IInv is an inductive invariant of the handlers, whatever order they run
\* in.
THEOREM InductiveInvariant == Spec => []IInv
<1>1. Init => IInv
  BY InitIInv
<1>2. IInv /\ [Next]_vars => IInv'
  <2> SUFFICES ASSUME IInv, [Next]_vars PROVE IInv'
    OBVIOUS
  <2>1. ASSUME NEW c \in Clients, NEW s \in Sockets, ConnectNew(c, s) PROVE IInv'
    BY <2>1, ConnectNewStep
  <2>2. ASSUME NEW c \in Clients, NEW s \in Sockets, Reconnect(c, s) PROVE IInv'
    BY <2>2, ReconnectStep
  <2>3. ASSUME NEW c \in Clients, NEW s \in Sockets, ConnectDuplicate(c, s) PROVE IInv'
    BY <2>3, StutterStep DEF ConnectDuplicate
  <2>4. ASSUME NEW s \in Sockets, Disconnect(s) PROVE IInv'
    BY <2>4, DisconnectStep
  <2>5. ASSUME NEW s \in Sockets, NEW t \in Topics, NEW sf \in {0, 1},
               Subscribe(s, t, sf)
        PROVE  IInv'
    BY <2>5, SubscribeStep
  <2>6. ASSUME NEW s \in Sockets, NEW t \in Topics, Unsubscribe(s, t) PROVE IInv'
    BY <2>6, UnsubscribeStep
  <2>7. ASSUME NEW t \in Topics, PublishUdp(t) PROVE IInv'
    BY <2>7, PublishStep
  <2>8. CASE UNCHANGED vars
    BY <2>8, StutterStep
  <2> QED
    BY <2>1, <2>2, <2>3, <2>4, <2>5, <2>6, <2>7, <2>8 DEF Next
<1> QED
  BY <1>1, <1>2, PTL DEF Spec

(***************************************************************************)
(* What the inductive invariant gives                                      *)
(***************************************************************************)

\* The tables always have their declared types, and no message is stored
\* that has not been received.
THEOREM TypeCorrect == Spec => []TypeOK
<1>1. IInv => TypeOK
  BY DEF IInv
<1> QED
  BY <1>1, InductiveInvariant, PTL

\* Every handler runs under the id of the client it serves.
THEOREM SocketTablesAlwaysAgree == Spec => []SocketTablesAgree
<1>1. IInv => SocketTablesAgree
  BY DEF IInv
<1> QED
  BY <1>1, InductiveInvariant, PTL

\* saved_topics is what the comment at server.cpp:219-223 says it is: whoever
\* is owed messages is away and is entered where the next message looks.
THEOREM SavedTopicsAlwaysExact == Spec => []SavedTopicsExact
<1>1. IInv => SavedTopicsExact
  BY DEF IInv
<1> QED
  BY <1>1, InductiveInvariant, PTL

\* The keys of saved_topics, which decide whether a message is stored, are the
\* topics somebody away waits on, however the reconnections of several clients
\* have erased them.
THEOREM SavedKeysAlwaysExact == Spec => []SavedKeysExact
<1>1. IInv => SavedKeysExact
  BY DEF IInv
<1> QED
  BY <1>1, InductiveInvariant, PTL

\* A client has store-and-forward only on topics it is subscribed to, and only
\* clients that have connected have subscriptions.
THEOREM SubscriptionsAlwaysNested == Spec => []SubscriptionsNested
<1>1. IInv => SubscriptionsNested
  BY DEF IInv
<1> QED
  BY <1>1, InductiveInvariant, PTL

\* no_subs never runs past 0 and never exceeds the clients still waiting.
THEOREM NoSubsAlwaysBounded == Spec => []NoSubsBounded
<1>1. IInv => NoSubsBounded
  BY DEF IInv
<1> QED
  BY <1>1, InductiveInvariant, PTL

\* A message leaves the store no later than the last client waiting on its
\* topic comes back: the store cannot leak.
THEOREM StoreNeverLeaks == Spec => []NothingRetained
<1>1. IInv => NothingRetained
  <2> SUFFICES ASSUME IInv, NEW t \in Topics, saved_topics[t] = {},
                      NEW m \in DOMAIN saved_msgs, m.topic = t
               PROVE  FALSE
    BY DEF NothingRetained
  <2>1. saved_msgs[m] \in 1..Cardinality({})
    BY DEF IInv, NoSubsBounded
  <2> QED
    BY <2>1, FS_EmptySet
<1> QED
  BY <1>1, InductiveInvariant, PTL
=============================================================================
