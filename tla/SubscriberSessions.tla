------------------------- MODULE SubscriberSessions -------------------------
(***************************************************************************)
(* What the notification server promises its subscriber processes, without *)
(* descriptors, queues or a loop: an id is held by one process at a time,  *)
(* only the holder changes the id's subscriptions, and it does so by       *)
(* commands it has sent, each at most once and in the order of sending.    *)
(*                                                                         *)
(* The promise is as weak as the protocol: it has no framing, so commands  *)
(* may be lost.  Notification.tla implements this specification.           *)
(***************************************************************************)
EXTENDS Sequences, Integers

CONSTANTS Clients, Topics,
          Procs,      \* subscriber processes
          IdOf,       \* process -> the id it was started with
          NoProc,     \* "held by nobody"
          Flags       \* values of sf, of {0, 1}

VARIABLES
    holder,           \* id -> the process it is held by
    client_topics,    \* id -> topics it is subscribed to
    saved_ids,        \* id -> topics it is subscribed to with sf = 1
    pending           \* process -> commands sent and not applied yet

Commands == [type : {"subscribe"}, topic : Topics, sf : Flags]
            \cup [type : {"unsubscribe"}, topic : Topics]

Init ==
    /\ holder = [c \in Clients |-> NoProc]
    /\ client_topics = [c \in Clients |-> {}]
    /\ saved_ids = [c \in Clients |-> {}]
    /\ pending = [p \in Procs |-> <<>>]

Send(p, cmd) ==
    /\ pending' = [pending EXCEPT ![p] = Append(@, cmd)]
    /\ UNCHANGED <<holder, client_topics, saved_ids>>

\* Commands p has sent before it holds the id, or sent and then left, may be
\* dropped: rest is what remains of them.
Remainders(q) == {SubSeq(q, i, Len(q)) : i \in 1..Len(q) + 1}

Attach(p) ==
    /\ holder[IdOf[p]] = NoProc
    /\ holder' = [holder EXCEPT ![IdOf[p]] = p]
    /\ \E rest \in Remainders(pending[p]) : pending' = [pending EXCEPT ![p] = rest]
    /\ UNCHANGED <<client_topics, saved_ids>>

Detach(p) ==
    /\ holder[IdOf[p]] = p
    /\ holder' = [holder EXCEPT ![IdOf[p]] = NoProc]
    /\ pending' = [pending EXCEPT ![p] = <<>>]
    /\ UNCHANGED <<client_topics, saved_ids>>

Drop(p) ==
    /\ holder[IdOf[p]] # p
    /\ pending' = [pending EXCEPT ![p] = <<>>]
    /\ UNCHANGED <<holder, client_topics, saved_ids>>

Apply(p) ==
    LET id == IdOf[p]
        cmd == Head(pending[p])
    IN
    /\ holder[id] = p
    /\ pending[p] # <<>>
    /\ \/ /\ cmd.type = "subscribe"
          /\ client_topics' = [client_topics EXCEPT ![id] = @ \cup {cmd.topic}]
          /\ saved_ids' = [saved_ids EXCEPT ![id] = IF cmd.sf = 1
                                                    THEN @ \cup {cmd.topic}
                                                    ELSE @ \ {cmd.topic}]
       \/ /\ cmd.type = "unsubscribe"
          /\ client_topics' = [client_topics EXCEPT ![id] = @ \ {cmd.topic}]
          /\ saved_ids' = [saved_ids EXCEPT ![id] = @ \ {cmd.topic}]
    /\ \E rest \in Remainders(Tail(pending[p])) :
          pending' = [pending EXCEPT ![p] = rest]
    /\ UNCHANGED holder

Next == \E p \in Procs : \/ \E cmd \in Commands : Send(p, cmd)
                         \/ Attach(p)
                         \/ Detach(p)
                         \/ Drop(p)
                         \/ Apply(p)

Spec == Init /\ [][Next]_<<holder, client_topics, saved_ids, pending>>
=============================================================================
