---------------------------- MODULE StoreForward ----------------------------
(***************************************************************************)
(* The store-and-forward tables of 02-Notification_Platform/server.cpp.    *)
(*                                                                         *)
(* One action per handler of the server's select() loop, each executed     *)
(* atomically: the server is one thread, and no handler is interrupted.    *)
(* Which handler runs when (descriptors, readiness, the kernel's queues,   *)
(* the subscriber processes) is the subject of Notification.tla, whose     *)
(* steps are steps of this specification.                                  *)
(*                                                                         *)
(* A map of the code is a total function here.  The places where the code  *)
(* can see whether a key exists are kept apart: Absent in client_sockfds   *)
(* (find at 286) and saved_keys, the key set of saved_topics (find at      *)
(* 336).  For saved_ids, client_topics and client_ids a missing key and a  *)
(* default-constructed value behave alike.                                 *)
(***************************************************************************)
EXTENDS Integers, FiniteSets

CONSTANTS Clients,   \* subscriber ids
          Topics,
          Sockets,   \* descriptors accept() can return
          Absent,    \* "no such key" in client_sockfds and client_ids
          MaxMsgs    \* bound: UDP messages the server receives

Closed == -1         \* client_sockfds[id] of a disconnected client

ASSUME StoreForwardAssumption ==
    /\ IsFiniteSet(Clients)
    /\ Closed \notin Sockets
    /\ Absent \notin Sockets \cup {Closed}
    /\ Absent \notin Clients
    /\ MaxMsgs \in Nat

VARIABLES
    client_sockfds,  \* id     -> its socket, Closed or Absent
    client_ids,      \* socket -> id of the client that last used it, or Absent
    read_fds,        \* the client sockets select() watches
    client_topics,   \* id     -> topics it is subscribed to
    saved_ids,       \* id     -> topics it is subscribed to with sf = 1
    saved_topics,    \* topic  -> disconnected ids to store its messages for
    saved_keys,      \* the keys saved_topics has
    saved_msgs,      \* stored message -> no_subs, its remaining resends
    published        \* number of UDP messages received so far

tables == <<client_sockfds, client_ids, read_fds>>
subscriptions == <<client_topics, saved_ids>>
stored == <<saved_topics, saved_keys, saved_msgs>>
vars == <<tables, subscriptions, stored, published>>

\* A message is told apart by its position in the stream of UDP messages.
\* The vector saved_msgs only grows at its end, so it lists its messages in
\* the order of n: the function saved_msgs loses nothing of it.
Messages == [n : 1..MaxMsgs, topic : Topics]

(***************************************************************************)
(* The helpers the handlers call                                           *)
(***************************************************************************)

\* Lines 325-333: the connected clients subscribed to topic t.
Receivers(t) == {c \in Clients : /\ client_sockfds[c] \in Sockets
                                 /\ t \in client_topics[c]}

\* What send_stored sends to client c: the test is on the topic alone.
ResentTo(c) == {m \in DOMAIN saved_msgs : c \in saved_topics[m.topic]}

\* Mutant: the decrement at 94 is missing.
CountNeverDecremented(c, m) == saved_msgs[m]

\* no_subs once send_stored has passed message m.
CountAfterResend(c, m) == IF m \in ResentTo(c) THEN saved_msgs[m] - 1
                                               ELSE saved_msgs[m]

\* Mutant: a message is erased with one resend left.
SendStoredErasingEarly(c) ==
    [m \in {k \in DOMAIN saved_msgs : CountAfterResend(c, k) > 1}
        |-> CountAfterResend(c, m)]

\* saved_msgs as send_stored leaves it: messages at no_subs = 0 are erased.
SendStored(c) ==
    [m \in {k \in DOMAIN saved_msgs : CountAfterResend(c, k) # 0}
        |-> CountAfterResend(c, m)]

\* Mutant: delete_from_stored is not called.
SavedNotDeleted(c) == saved_topics

\* saved_topics as delete_from_stored leaves it.
SavedWithout(c) ==
    [t \in Topics |-> IF t \in saved_ids[c] THEN saved_topics[t] \ {c}
                                            ELSE saved_topics[t]]

\* Mutant: the test at 117-121 is missing, empty entries stay.
KeysNeverErased(c) ==
    saved_keys \cup {m.topic : m \in DOMAIN saved_msgs} \cup saved_ids[c]

\* The keys: operator[] of send_stored and of delete_from_stored creates the
\* ones it looks up, and delete_from_stored erases those it finds empty.
KeysWithout(c) ==
    (saved_keys \cup {m.topic : m \in DOMAIN saved_msgs} \cup saved_ids[c])
        \ {t \in saved_ids[c] : saved_topics[t] \ {c} = {}}

\* Mutant: update_store walks client_topics, ignoring sf.
SavedWithAnySf(c) ==
    [t \in Topics |-> IF t \in client_topics[c] THEN saved_topics[t] \cup {c}
                                                 ELSE saved_topics[t]]

\* update_store, called only for a client that has an entry in saved_ids.
SavedWith(c) ==
    [t \in Topics |-> IF t \in saved_ids[c] THEN saved_topics[t] \cup {c}
                                            ELSE saved_topics[t]]

(***************************************************************************)
(* The handlers                                                            *)
(***************************************************************************)

Init ==
    /\ client_sockfds = [c \in Clients |-> Absent]
    /\ client_ids = [s \in Sockets |-> Absent]
    /\ read_fds = {}
    /\ client_topics = [c \in Clients |-> {}]
    /\ saved_ids = [c \in Clients |-> {}]
    /\ saved_topics = [t \in Topics |-> {}]
    /\ saved_keys = {}
    /\ saved_msgs = [m \in {} |-> 0]
    /\ published = 0

\* Mutant: line 297 is missing, client_ids keeps the descriptor's last user.
RegisterKeepingOldId(c, s) ==
    /\ s \in Sockets \ read_fds
    /\ read_fds' = read_fds \cup {s}
    /\ client_sockfds' = [client_sockfds EXCEPT ![c] = s]
    /\ client_ids' = [client_ids EXCEPT ![s] = IF @ = Absent THEN c ELSE @]

\* Mutant: 288 and 296 store i, which in this branch is the listening socket
\* and not sock_cli.
RegisterListener(c, s) ==
    LET i == 4 IN
    /\ s \in Sockets \ read_fds
    /\ read_fds' = read_fds \cup {s}
    /\ client_sockfds' = [client_sockfds EXCEPT ![c] = i]
    /\ client_ids' = [client_ids EXCEPT ![s] = c]

\* accept() returned s, and the id c read from it is taken up.
Register(c, s) ==
    /\ s \in Sockets \ read_fds
    /\ read_fds' = read_fds \cup {s}
    /\ client_sockfds' = [client_sockfds EXCEPT ![c] = s]
    /\ client_ids' = [client_ids EXCEPT ![s] = c]

\* The id has never been seen.
ConnectNew(c, s) ==
    /\ client_sockfds[c] = Absent
    /\ Register(c, s)
    /\ UNCHANGED <<subscriptions, stored, published>>

\* The id is known and disconnected: its stored messages are sent to it.
Reconnect(c, s) ==
    /\ client_sockfds[c] = Closed
    /\ Register(c, s)
    /\ saved_msgs' = SendStored(c)
    /\ saved_topics' = SavedWithout(c)
    /\ saved_keys' = KeysWithout(c)
    /\ UNCHANGED <<subscriptions, published>>

\* The id is connected already: the new socket is closed, nothing changes.
ConnectDuplicate(c, s) ==
    /\ client_sockfds[c] \notin {Absent, Closed}
    /\ s \in Sockets \ read_fds
    /\ UNCHANGED vars

\* Mutant: 351 writes -1 to client_ids[i] instead of client_sockfds[id].
DisconnectWrongMap(s) ==
    LET id == client_ids[s] IN
    /\ s \in read_fds
    /\ client_ids' = [client_ids EXCEPT ![s] = Closed]
    /\ saved_topics' = SavedWith(id)
    /\ saved_keys' = saved_keys \cup saved_ids[id]
    /\ read_fds' = read_fds \ {s}
    /\ UNCHANGED <<client_sockfds, subscriptions, saved_msgs, published>>

\* recv() returned 0 on client socket s.
Disconnect(s) ==
    LET id == client_ids[s] IN
    /\ s \in read_fds
    /\ client_sockfds' = [client_sockfds EXCEPT ![id] = Closed]
    /\ saved_topics' = SavedWith(id)
    /\ saved_keys' = saved_keys \cup saved_ids[id]
    /\ read_fds' = read_fds \ {s}
    /\ UNCHANGED <<client_ids, subscriptions, saved_msgs, published>>

\* A subscribe command was read from s.  Any sf other than 1 means 0.
Subscribe(s, t, sf) ==
    LET id == client_ids[s] IN
    /\ s \in read_fds
    /\ client_topics' = [client_topics EXCEPT ![id] = @ \cup {t}]
    /\ saved_ids' = [saved_ids EXCEPT ![id] = IF sf = 1 THEN @ \cup {t}
                                                        ELSE @ \ {t}]
    /\ UNCHANGED <<tables, stored, published>>

\* Mutant: line 377 is missing.
UnsubscribeKeepingSf(s, t) ==
    /\ s \in read_fds
    /\ client_topics' = [client_topics EXCEPT ![client_ids[s]] = @ \ {t}]
    /\ UNCHANGED <<tables, saved_ids, stored, published>>

\* An unsubscribe command was read from s.
Unsubscribe(s, t) ==
    LET id == client_ids[s] IN
    /\ s \in read_fds
    /\ client_topics' = [client_topics EXCEPT ![id] = @ \ {t}]
    /\ saved_ids' = [saved_ids EXCEPT ![id] = @ \ {t}]
    /\ UNCHANGED <<tables, stored, published>>

\* The message the UDP handler is about to deal with.
NextMessage(t) == [n |-> published + 1, topic |-> t]

\* A UDP message on topic t: it goes to Receivers(t) now, and it is stored
\* when saved_topics has an entry for t, with the size of that entry.
PublishUdp(t) ==
    /\ published < MaxMsgs
    /\ published' = published + 1
    /\ saved_msgs' =
          IF t \in saved_keys
          THEN [m \in DOMAIN saved_msgs \cup {NextMessage(t)} |->
                  IF m = NextMessage(t) THEN Cardinality(saved_topics[t])
                                        ELSE saved_msgs[m]]
          ELSE saved_msgs
    /\ UNCHANGED <<tables, subscriptions, saved_topics, saved_keys>>

Next ==
    \/ \E c \in Clients, s \in Sockets : \/ ConnectNew(c, s)
                                         \/ Reconnect(c, s)
                                         \/ ConnectDuplicate(c, s)
    \/ \E s \in Sockets : Disconnect(s)
    \/ \E s \in Sockets, t \in Topics : \/ \E sf \in {0, 1} : Subscribe(s, t, sf)
                                        \/ Unsubscribe(s, t)
    \/ \E t \in Topics : PublishUdp(t)

Spec == Init /\ [][Next]_vars

(***************************************************************************)
(* Properties                                                              *)
(***************************************************************************)

\* The tables have the types their declarations give them, and no two
\* stored messages are the same message.
TypeOK ==
    /\ client_sockfds \in [Clients -> Sockets \cup {Closed, Absent}]
    /\ client_ids \in [Sockets -> Clients \cup {Absent}]
    /\ read_fds \in SUBSET Sockets
    /\ client_topics \in [Clients -> SUBSET Topics]
    /\ saved_ids \in [Clients -> SUBSET Topics]
    /\ saved_topics \in [Topics -> SUBSET Clients]
    /\ saved_keys \in SUBSET Topics
    /\ published \in 0..MaxMsgs
    /\ DOMAIN saved_msgs \subseteq Messages
    /\ saved_msgs \in [DOMAIN saved_msgs -> Int]
    /\ \A m \in DOMAIN saved_msgs : m.n <= published

\* client_sockfds and client_ids are inverse to each other on the sockets
\* select() watches: no handler runs under another client's id, through a
\* stale entry of client_ids left by an earlier user of the descriptor, and
\* a client the tables call connected is one the server still listens to.
SocketTablesAgree ==
    /\ \A s \in read_fds : /\ client_ids[s] \in Clients
                           /\ client_sockfds[client_ids[s]] = s
    /\ \A c \in Clients : client_sockfds[c] \in Sockets =>
          /\ client_sockfds[c] \in read_fds
          /\ client_ids[client_sockfds[c]] = c

\* saved_topics holds exactly the clients it is documented to hold (comment
\* at 219-223): those disconnected that last asked for the topic with sf = 1.
SavedTopicsExact ==
    \A t \in Topics, c \in Clients :
        c \in saved_topics[t] <=> client_sockfds[c] = Closed /\ t \in saved_ids[c]

\* The membership test at 336 stores a message only if somebody is waiting:
\* operator[] never leaves an empty entry in saved_topics behind.
SavedKeysExact == \A t \in Topics : t \in saved_keys <=> saved_topics[t] # {}

\* A stored message has at least one resend left, and never more than there
\* are clients waiting on its topic: the decrement at 94 cannot run past 0,
\* and a message does not stay in memory once its last waiting client is back.
NoSubsBounded ==
    \A m \in DOMAIN saved_msgs :
        saved_msgs[m] \in 1..Cardinality(saved_topics[m.topic])

\* sf = 1 is kept only for topics the client is subscribed to, and only a
\* client that has once connected has subscriptions.
SubscriptionsNested ==
    \A c \in Clients : /\ saved_ids[c] \subseteq client_topics[c]
                       /\ client_topics[c] # {} => client_sockfds[c] # Absent

\* The conjunction that is inductive.
IInv == /\ TypeOK
        /\ SocketTablesAgree
        /\ SavedTopicsExact
        /\ SavedKeysExact
        /\ NoSubsBounded
        /\ SubscriptionsNested

\* Nothing is retained for a topic nobody is waiting on, even while the
\* topic's sf = 1 subscribers are all connected.
NothingRetained ==
    \A t \in Topics : saved_topics[t] = {} =>
        \A m \in DOMAIN saved_msgs : m.topic # t
=============================================================================
