---------------------------- MODULE Notification ----------------------------
(***************************************************************************)
(* 02-Notification_Platform as a whole: the server's select() loop, the    *)
(* subscriber processes, the UDP socket and the TCP connections between    *)
(* them.  The handlers' work on the tables is StoreForward's.              *)
(*                                                                         *)
(* TCP is modelled as far as the two programs can see it: recv() returns   *)
(* all that is pending, close() with unread input resets the connection,   *)
(* and a send() on a connection the other side has left first marks it and *)
(* then, sent again, kills the sender with SIGPIPE.                        *)
(***************************************************************************)
EXTENDS StoreForward, SequencesExt, FiniteSetsExt

CONSTANTS Procs,       \* slots for subscriber processes
          IdOf,        \* process -> the id it is started with
          NoProc,      \* nobody
          NoSock,      \* no descriptor
          Flags,       \* values of sf that are typed, of {0, 1}
          MaxPending   \* bound: sends of one process not yet received

UdpFd == 3             \* sock_udp, the first socket the server creates
TcpFd == 4             \* sock_tcp, the second

ASSUME NotificationAssumption ==
    /\ IdOf \in [Procs -> Clients]
    /\ NoProc \notin Procs
    /\ NoSock \notin Sockets
    /\ Sockets \subseteq Nat \ 0..TcpFd
    /\ Flags \subseteq {0, 1}
    /\ MaxPending \in Nat \ {0}

VARIABLES
    \* the server's loop
    server,      \* "select", "scan", "id" (in the recv at 283), "exited", "died"
    tmp_fds,     \* descriptors select() returned that are still to be scanned
    accepting,   \* the process whose id the server waits for
    \* the kernel
    udp,         \* UDP messages not yet received
    backlog,     \* connections not yet accepted
    sock,        \* process -> the server's descriptor of its connection
    up,          \* process -> what it has sent and the server has not received
    peer,        \* process -> its connection as the server's kernel sees it
    \* the subscriber processes
    stage,       \* "none", "connecting", "running", "gone"
    unread       \* process -> there is input it has not received

loop == <<server, tmp_fds, accepting>>
kernel == <<udp, backlog, sock, up, peer>>
procs == <<stage, unread>>
nvars == <<vars, loop, kernel, procs>>

IdMessage == [type |-> "id"]
Commands == [type : {"subscribe"}, topic : Topics, sf : Flags]
            \cup [type : {"unsubscribe"}, topic : Topics]

Running == server \notin {"exited", "died"}

\* p's connection exists at the server's end.
Attached(p) == sock[p] # NoSock \/ Contains(backlog, p)

ProcAt(s) == CHOOSE p \in Procs : sock[p] = s

NInit ==
    /\ Init
    /\ server = "select"
    /\ tmp_fds = {}
    /\ accepting = NoProc
    /\ udp = <<>>
    /\ backlog = <<>>
    /\ sock = [p \in Procs |-> NoSock]
    /\ up = [p \in Procs |-> <<>>]
    /\ peer = [p \in Procs |-> "open"]
    /\ stage = [p \in Procs |-> "none"]
    /\ unread = [p \in Procs |-> FALSE]

(***************************************************************************)
(* The subscriber, and the sources of UDP messages                         *)
(***************************************************************************)

SubConnect(p) ==
    /\ Running
    /\ stage[p] = "none"
    /\ stage' = [stage EXCEPT ![p] = "connecting"]
    /\ backlog' = Append(backlog, p)
    /\ peer' = [peer EXCEPT ![p] = "open"]
    /\ UNCHANGED <<vars, loop, udp, sock, up, unread>>

SubSendId(p) ==
    /\ Running
    /\ stage[p] = "connecting"
    /\ stage' = [stage EXCEPT ![p] = "running"]
    /\ up' = [up EXCEPT ![p] = <<IdMessage>>]
    /\ UNCHANGED <<vars, loop, udp, backlog, sock, peer, unread>>

\* A command is encoded, sent and reported as done on the terminal.
SubCommand(p, cmd) ==
    /\ Running
    /\ stage[p] = "running"
    /\ Attached(p)
    /\ Len(up[p]) < MaxPending
    /\ up' = [up EXCEPT ![p] = Append(@, cmd)]
    /\ UNCHANGED <<vars, loop, udp, backlog, sock, peer, procs>>

SubReceive(p) ==
    /\ Running
    /\ stage[p] = "running"
    /\ unread[p]
    /\ unread' = [unread EXCEPT ![p] = FALSE]
    /\ UNCHANGED <<vars, loop, kernel, stage>>

\* "exit" is read, which is looked for before the socket: input on the
\* socket may stay unread, and close() then sends a reset.
SubExit(p) ==
    /\ Running
    /\ stage[p] = "running"
    /\ Attached(p)
    /\ stage' = [stage EXCEPT ![p] = "gone"]
    /\ peer' = [peer EXCEPT ![p] = IF unread[p] THEN "reset" ELSE "fin"]
    /\ unread' = [unread EXCEPT ![p] = FALSE]
    /\ UNCHANGED <<vars, loop, udp, backlog, sock, up>>

\* recv() returns 0: the server has closed the connection.
SubEof(p) ==
    /\ Running
    /\ stage[p] = "running"
    /\ ~Attached(p)
    /\ stage' = [stage EXCEPT ![p] = "none"]
    /\ UNCHANGED <<vars, loop, kernel, unread>>

UdpArrives(t) ==
    /\ Running
    /\ published + Len(udp) < MaxMsgs
    /\ udp' = Append(udp, t)
    /\ UNCHANGED <<vars, loop, backlog, sock, up, peer, procs>>

(***************************************************************************)
(* The server                                                              *)
(***************************************************************************)

\* Mutant: line 193 is missing, select() does not watch the listening socket.
ReadyWithoutListener ==
    (IF udp # <<>> THEN {UdpFd} ELSE {})
    \cup {sock[p] : p \in {q \in Procs : /\ sock[q] \in read_fds
                                         /\ up[q] # <<>> \/ peer[q] # "open"}}

\* Descriptors with something to receive, an end of stream or an error.
Ready ==
    (IF udp # <<>> THEN {UdpFd} ELSE {})
    \cup (IF backlog # <<>> THEN {TcpFd} ELSE {})
    \cup {sock[p] : p \in {q \in Procs : /\ sock[q] \in read_fds
                                         /\ up[q] # <<>> \/ peer[q] # "open"}}

Select ==
    /\ server = "select"
    /\ Ready # {}
    /\ tmp_fds' = Ready
    /\ server' = "scan"
    /\ UNCHANGED <<vars, accepting, kernel, procs>>

\* "exit" was typed: it is looked for before any socket.
ServerExit ==
    /\ server = "select"
    /\ server' = "exited"
    /\ UNCHANGED <<vars, tmp_fds, accepting, kernel, procs>>

\* The scan goes through the descriptors in ascending order.
Scanning(i) == server = "scan" /\ i \in tmp_fds /\ i = Min(tmp_fds)

Resume(rest) ==
    /\ tmp_fds' = rest
    /\ server' = IF rest = {} THEN "select" ELSE "scan"

Die == server' = "died" /\ UNCHANGED <<vars, tmp_fds, accepting, kernel, procs>>

\* k calls of send() to p may kill the server with SIGPIPE: the first one on
\* a connection p has left provokes a reset, or reports the one that came,
\* and later ones fail.
SendKills(p, k) == \/ peer[p] = "broken" /\ k >= 1
                   \/ peer[p] \in {"fin", "reset"} /\ k >= 2

\* Sends the server survives.  The reset a send provokes may come too late
\* for the next send to notice (late).
SendTo(ps) ==
    \E late \in SUBSET {p \in ps : peer[p] = "fin"} :
        /\ peer' = [p \in Procs |-> IF p \in ps \ late /\ peer[p] # "open"
                                    THEN "broken" ELSE peer[p]]
        /\ unread' = [p \in Procs |-> unread[p] \/ (p \in ps /\ peer[p] = "open")]

UdpTargets(t) == {p \in Procs : sock[p] \in {client_sockfds[c] : c \in Receivers(t)}}

HandleUdp ==
    LET t == Head(udp) IN
    /\ Scanning(UdpFd)
    /\ IF \E p \in UdpTargets(t) : SendKills(p, 1)
       THEN Die
       ELSE /\ PublishUdp(t)
            /\ SendTo(UdpTargets(t))
            /\ udp' = Tail(udp)
            /\ Resume(tmp_fds \ {UdpFd})
            /\ UNCHANGED <<accepting, backlog, sock, up, stage>>

\* accept() returns the lowest free descriptor, and fails without one.
HandleAccept ==
    LET p == Head(backlog)
        free == Sockets \ {sock[q] : q \in Procs}
    IN
    /\ Scanning(TcpFd)
    /\ IF free = {}
       THEN Die
       ELSE /\ sock' = [sock EXCEPT ![p] = Min(free)]
            /\ backlog' = Tail(backlog)
            /\ accepting' = p
            /\ server' = "id"
            /\ tmp_fds' = tmp_fds \ {TcpFd}
            /\ UNCHANGED <<vars, udp, up, peer, procs>>

\* The blocking recv at 283: nothing else is served until p has sent its id.
\* It takes all that p has sent so far, and uses the id only.
IdReceived(p) ==
    /\ server = "id"
    /\ p = accepting
    /\ up[p] # <<>>

ServeId(p) ==
    /\ up' = [up EXCEPT ![p] = <<>>]
    /\ accepting' = NoProc
    /\ Resume(tmp_fds)
    /\ UNCHANGED <<udp, backlog>>

HandleNewId(p) ==
    /\ IdReceived(p)
    /\ ConnectNew(IdOf[p], sock[p])
    /\ ServeId(p)
    /\ UNCHANGED <<sock, peer, procs>>

HandleKnownId(p) ==
    LET resends == Cardinality(ResentTo(IdOf[p])) IN
    /\ IdReceived(p)
    /\ Reconnect(IdOf[p], sock[p])
    /\ SendTo(IF resends > 0 THEN {p} ELSE {})
    /\ ServeId(p)
    /\ UNCHANGED <<sock, stage>>

\* p leaves while its stored messages are sent to it.
DieResending(p) ==
    /\ IdReceived(p)
    /\ client_sockfds[IdOf[p]] = Closed
    /\ SendKills(p, Cardinality(ResentTo(IdOf[p])))
    /\ Die

\* Mutant: the close() at 310 and 358 is missing.
ConnectionKept(p) == UNCHANGED <<sock, stage, peer>>

\* close() of the server's end; a process that has already left is forgotten.
CloseConnection(p) ==
    /\ sock' = [sock EXCEPT ![p] = NoSock]
    /\ stage' = [stage EXCEPT ![p] = IF @ = "gone" THEN "none" ELSE @]
    /\ peer' = [peer EXCEPT ![p] = "open"]

\* Mutant: a second client with an id takes the place of the first.
HandleDuplicateIdTakingOver(p) ==
    LET id == IdOf[p]
        old == client_sockfds[id]
    IN
    /\ IdReceived(p)
    /\ old \in Sockets
    /\ client_sockfds' = [client_sockfds EXCEPT ![id] = sock[p]]
    /\ client_ids' = [client_ids EXCEPT ![sock[p]] = id]
    /\ read_fds' = (read_fds \ {old}) \cup {sock[p]}
    /\ CloseConnection(ProcAt(old))
    /\ ServeId(p)
    /\ UNCHANGED <<subscriptions, stored, published, unread>>

HandleDuplicateId(p) ==
    /\ IdReceived(p)
    /\ ConnectDuplicate(IdOf[p], sock[p])
    /\ CloseConnection(p)
    /\ ServeId(p)
    /\ UNCHANGED unread

\* Mutant: the command is taken from the end of what was received.
LastCommandRead(p) == Last(up[p])

\* The buffer is read as one sub_msg, the first in it.
CommandRead(p) == Head(up[p])

\* All that p has sent is received, and its first command carried out.
HandleCommand(s) ==
    LET p == ProcAt(s)
        cmd == CommandRead(p)
    IN
    /\ Scanning(s)
    /\ up[p] # <<>>
    /\ IF cmd.type = "subscribe" THEN Subscribe(s, cmd.topic, cmd.sf)
                                 ELSE Unsubscribe(s, cmd.topic)
    /\ up' = [up EXCEPT ![p] = <<>>]
    /\ Resume(tmp_fds \ {s})
    /\ UNCHANGED <<accepting, udp, backlog, sock, peer, procs>>

\* recv() returns 0 once p has left, and fails when p has reset.
HandleEof(s) ==
    LET p == ProcAt(s) IN
    /\ Scanning(s)
    /\ up[p] = <<>>
    /\ peer[p] # "open"
    /\ IF peer[p] = "reset"
       THEN Die
       ELSE /\ Disconnect(s)
            /\ CloseConnection(p)
            /\ Resume(tmp_fds \ {s})
            /\ UNCHANGED <<accepting, udp, backlog, up, unread>>

ServerStep ==
    \/ Select
    \/ HandleUdp
    \/ HandleAccept
    \/ \E p \in Procs : \/ HandleNewId(p)
                        \/ HandleKnownId(p)
                        \/ HandleDuplicateId(p)
                        \/ DieResending(p)
    \/ \E s \in Sockets : HandleCommand(s) \/ HandleEof(s)

NNext ==
    \/ ServerStep
    \/ ServerExit
    \/ \E p \in Procs : \/ SubConnect(p)
                        \/ SubSendId(p)
                        \/ \E cmd \in Commands : SubCommand(p, cmd)
                        \/ SubReceive(p)
                        \/ SubExit(p)
                        \/ SubEof(p)
    \/ \E t \in Topics : UdpArrives(t)

\* The server does not stop between two calls, a subscriber that has
\* connected goes on to send its id, and one whose connection was closed
\* notices.  Nobody has to connect, type a command, exit or publish.
NSpec == /\ NInit /\ [][NNext]_nvars
         /\ WF_nvars(ServerStep)
         /\ \A p \in Procs : WF_nvars(SubSendId(p)) /\ WF_nvars(SubEof(p))

(***************************************************************************)
(* Properties                                                              *)
(***************************************************************************)

NTypeOK ==
    /\ TypeOK
    /\ server \in {"select", "scan", "id", "exited", "died"}
    /\ tmp_fds \subseteq {UdpFd, TcpFd} \cup Sockets
    /\ accepting \in Procs \cup {NoProc}
    /\ udp \in Seq(Topics)
    /\ backlog \in Seq(Procs)
    /\ sock \in [Procs -> Sockets \cup {NoSock}]
    /\ up \in [Procs -> Seq(Commands \cup {IdMessage})]
    /\ peer \in [Procs -> {"open", "fin", "reset", "broken"}]
    /\ stage \in [Procs -> {"none", "connecting", "running", "gone"}]
    /\ unread \in [Procs -> BOOLEAN]

\* A descriptor is one process's: the socket a session is served on belongs
\* to a process that was started with the session's id, and to no other,
\* however often descriptors are closed and given out again.
SessionOfProcess ==
    \A s \in read_fds : \E p \in Procs :
        /\ sock[p] = s
        /\ client_ids[s] = IdOf[p]
        /\ \A q \in Procs \ {p} : sock[q] # s

\* What select() reported still holds when the scan gets to it: handlers run
\* between the two neither close a descriptor that is still to be scanned
\* nor use up its input, so no recv() of the scan blocks or fails on it; and
\* the recv() at 283 waits only for a process that is about to send its id.
NoEmptyReceive ==
    /\ \A s \in tmp_fds \cap Sockets :
          s \in read_fds /\ (up[ProcAt(s)] # <<>> \/ peer[ProcAt(s)] # "open")
    /\ UdpFd \in tmp_fds => udp # <<>>
    /\ TcpFd \in tmp_fds => backlog # <<>>
    /\ server = "id" => \/ stage[accepting] = "connecting"
                        \/ up[accepting] # <<>> /\ Head(up[accepting]) = IdMessage

\* The commands p has sent that the server has not received: its id comes
\* before them.
CommandsSent(p) == IF up[p] # <<>> /\ Head(up[p]) = IdMessage THEN Tail(up[p])
                                                             ELSE up[p]

\* The process at the other end of the client_sockfds entry of each id.
Holders == [c \in Clients |-> IF client_sockfds[c] \in Sockets
                              THEN ProcAt(client_sockfds[c]) ELSE NoProc]

\* The promise of SubscriberSessions is kept.
Sessions == INSTANCE SubscriberSessions WITH
    holder <- Holders,
    pending <- [p \in Procs |-> CommandsSent(p)]
SessionsKept == Sessions!Spec

\* A connection is not left waiting, whatever the other clients do, as long
\* as the server runs.
ConnectionServed ==
    \A p \in Procs : Contains(backlog, p) ~>
        ~Running \/ (sock[p] # NoSock /\ server # "id") \/ stage[p] = "none"

\* A process that has left is noticed, and its slot and descriptor are freed.
ExitNoticed == \A p \in Procs : stage[p] = "gone" ~> ~Running \/ stage[p] = "none"

\* readme.txt:118-119 says what happens when a subscriber disconnects: its
\* socket leaves read_fds.  The server stops on "exit" only (89-90).
ServerStopsOnlyOnExit == server # "died"

\* readme.txt:124-125: an (un)subscribe command updates client_topics and
\* saved_ids; subscriber.cpp:131-136 tells the user that it is done.  So once
\* the server has received what the holder of an id has sent, the last
\* subscribe command in it is in force.
CommandsTakeEffect ==
    [][\A p \in Procs :
         LET got == up[p] IN
         /\ got # <<>> /\ up'[p] = <<>>
         /\ sock'[p] \in read_fds'
         /\ Last(got).type = "subscribe"
         => Last(got).topic \in client_topics'[IdOf[p]]]_nvars
=============================================================================
