------------------------ MODULE StoreForwardDelivery ------------------------
(***************************************************************************)
(* What the clients of the notification server receive.                    *)
(*                                                                         *)
(* StoreForward with history: which messages went to which client, live or *)
(* from the store, and which messages the server stored for whom.  The     *)
(* history never guards a step, so the behaviours are those of             *)
(* StoreForward.                                                           *)
(***************************************************************************)
EXTENDS StoreForward, Sequences

VARIABLES
    session,  \* client -> messages sent to it in its last session, in order
    owed,     \* client -> messages published while it was disconnected with
              \*           sf = 1 for their topic, and not sent to it since
    stray,    \* messages resent to a client they were not owed to
    sf_users  \* topic  -> clients that ever asked for it with sf = 1

history == <<session, owed, stray, sf_users>>

\* Mutant: send_stored walks the vector from its end.
NewestFirst(k, m) == k.n > m.n

\* The vector order in which send_stored goes through the store.
StoreOrder(k, m) == k.n < m.n

\* send_stored's send() calls: one per stored message on a topic of c.
ResendSequence(c) ==
    CHOOSE q \in [1..Cardinality(ResentTo(c)) -> ResentTo(c)] :
        \A i, j \in DOMAIN q : i < j => StoreOrder(q[i], q[j])

DInit ==
    /\ Init
    /\ session = [c \in Clients |-> <<>>]
    /\ owed = [c \in Clients |-> {}]
    /\ stray = {}
    /\ sf_users = [t \in Topics |-> {}]

DConnectNew(c, s) == ConnectNew(c, s) /\ UNCHANGED history

DReconnect(c, s) ==
    /\ Reconnect(c, s)
    /\ session' = [session EXCEPT ![c] = ResendSequence(c)]
    /\ owed' = [owed EXCEPT ![c] = @ \ ResentTo(c)]
    /\ stray' = stray \cup (ResentTo(c) \ owed[c])
    /\ UNCHANGED sf_users

DDisconnect(s) == Disconnect(s) /\ UNCHANGED history

DSubscribe(s, t, sf) ==
    /\ Subscribe(s, t, sf)
    /\ sf_users' = [sf_users EXCEPT ![t] = IF sf = 1 THEN @ \cup {client_ids[s]}
                                                     ELSE @]
    /\ UNCHANGED <<session, owed, stray>>

DUnsubscribe(s, t) == Unsubscribe(s, t) /\ UNCHANGED history

\* The same message is sent to every receiver and owed to every client that
\* is away and wants its topic stored.
DPublishUdp(t) ==
    LET m == NextMessage(t) IN
    /\ PublishUdp(t)
    /\ session' = [c \in Clients |-> IF c \in Receivers(t)
                                     THEN Append(session[c], m) ELSE session[c]]
    /\ owed' = [c \in Clients |->
                  IF client_sockfds[c] = Closed /\ t \in saved_ids[c]
                  THEN owed[c] \cup {m} ELSE owed[c]]
    /\ UNCHANGED <<stray, sf_users>>

DNext ==
    \/ \E c \in Clients, s \in Sockets : DConnectNew(c, s) \/ DReconnect(c, s)
    \/ \E s \in Sockets : DDisconnect(s)
    \/ \E s \in Sockets, t \in Topics :
          \/ \E sf \in {0, 1} : DSubscribe(s, t, sf)
          \/ DUnsubscribe(s, t)
    \/ \E t \in Topics : DPublishUdp(t)

DSpec == DInit /\ [][DNext]_<<vars, history>>

(***************************************************************************)
(* Properties                                                              *)
(***************************************************************************)

Owers(m) == {c \in Clients : m \in owed[c]}

Published == (UNION {owed[c] : c \in Clients}) \cup DOMAIN saved_msgs

\* The anonymous counter no_subs is right as long as no client has received
\* a message from the store that was not meant for it: it is then the number
\* of clients the message still waits for, and a message that is gone from
\* the store waits for nobody.
CountIsOwers ==
    \A m \in Published \ stray :
        Cardinality(Owers(m)) = IF m \in DOMAIN saved_msgs THEN saved_msgs[m] ELSE 0

\* A client that has come back has received all it was owed, except for
\* messages whose counter somebody else used up.
LossOnlyAfterStray ==
    \A c \in Clients : client_sockfds[c] # Closed => owed[c] \subseteq stray

\* Within a session messages arrive in the order of their publication, none
\* twice: the stored ones first, the live ones after them.
SessionInOrder ==
    \A c \in Clients : \A i, j \in DOMAIN session[c] :
        i < j => session[c][i].n < session[c][j].n

\* Store-and-forward is exact for a topic that only one client ever asks for
\* with sf = 1: nothing it was not owed is resent, and nothing is lost.
ExactForLoneSubscriber ==
    \A t \in Topics : Cardinality(sf_users[t]) <= 1 =>
        /\ \A m \in stray : m.topic # t
        /\ \A c \in Clients, m \in Published :
              m \in owed[c] /\ m.topic = t =>
                  /\ m \in DOMAIN saved_msgs
                  /\ client_sockfds[c] = Closed

\* What the comment at 232-236 says of saved_msgs: its messages are there to
\* be sent once the clients they wait for reconnect.
NoStoredLoss == \A c \in Clients : owed[c] \subseteq DOMAIN saved_msgs
=============================================================================
