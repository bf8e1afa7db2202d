-------------------------------- MODULE Chat --------------------------------
(***************************************************************************)
(* Test-Chat: the chat server, its clients and the TCP connections between *)
(* them.  A client has a nickname; the server numbers the nicknames, and a *)
(* client sends "LIST" to see the numbers of those who are connected and   *)
(* "MSG <number> <text>" to write to one of them.                          *)
(*                                                                         *)
(* One handler of the select() loop is one step.  The scan goes through    *)
(* the descriptors in ascending order, the listening socket first, and a   *)
(* handler closes no descriptor but its own: what select() has reported    *)
(* still holds when the scan gets to it, and any order of the handlers is  *)
(* one that arrivals can bring about.                                      *)
(***************************************************************************)
EXTENDS Integers, Sequences, FiniteSets, FiniteSetsExt

CONSTANTS Procs,       \* slots for client processes
          Nicks,       \* nicknames that clients are started with
          Zero,        \* the nickname "0"
          NoName,      \* the name of a descriptor that nobody has had
          Sockets,     \* descriptors accept() may return
          NoProc,      \* nobody
          NoSock,      \* no descriptor
          Numbers,     \* numbers that are typed after MSG
          MaxPending   \* bound: commands and answers under way, of all clients

Stdin == 0
sockfd == 3            \* the listening socket
Inactive == -1
Absent == -2           \* the name has no entry in user_sock

Names == Nicks \cup {Zero}

ASSUME ChatAssumption ==
    /\ NoName \notin Names
    /\ Sockets \subseteq Nat \ 0..sockfd
    /\ NoSock \notin Int
    /\ NoProc \notin Procs
    /\ Numbers \subseteq Nat
    /\ MaxPending \in Nat

VARIABLES
    \* the server.  user_id is written and never read, and left out; ct is
    \* the length of id_user, whose entry 0 is not in use.
    server,      \* "select", "nickname" (in the recv at 124), "exited", "died"
    accepting,   \* the process whose nickname is waited for
    read_fds,    \* the descriptors of clients in read_fds
    user_sock,   \* name -> descriptor, Inactive or Absent
    sock_user,   \* descriptor -> name
    id_user,     \* the names, numbered from 1
    \* the kernel
    backlog,     \* connections not yet accepted
    sock,        \* process -> the server's descriptor of its connection
    up,          \* process -> what it has sent and the server has not received
    peer,        \* process -> its connection as the server's kernel sees it
    \* the clients
    nick,        \* process -> the nickname it was started with
    stage,       \* "none", "connecting", "running", "gone"
    down,        \* process -> messages it has not received
    \* history
    overlapped   \* names, but "0", that two connections have had at one time,
                 \* as long as one of the connections with this name is open

loop == <<server, accepting>>
tables == <<read_fds, user_sock, sock_user, id_user>>
clients == <<nick, stage, down>>
vars == <<loop, tables, backlog, sock, up, peer, clients, overlapped>>

Nickname == [cmd |-> "nickname", to |-> Absent]
LIST == [cmd |-> "LIST", to |-> Absent]
MSG(k) == [cmd |-> "MSG", to |-> k]
NoNumber == -1
\* A word that is no command, or MSG without a number.  MSG with a number is
\* followed by a text.
Incomplete == MSG(NoNumber)
Commands == {LIST, Incomplete} \cup {MSG(k) : k \in Numbers}

ListAnswer == [by |-> NoName, k |-> 0, from |-> NoName]
Messages == {ListAnswer} \cup [by : Nicks, k : Numbers, from : Nicks]

Running == server \notin {"exited", "died"}
InBacklog(p) == \E i \in DOMAIN backlog : backlog[i] = p
Attached(p) == sock[p] # NoSock \/ InBacklog(p)
ProcAt(s) == CHOOSE p \in Procs : sock[p] = s

\* id_user[k]
NameOf(k) == IF k = 0 THEN Zero ELSE id_user[k]

Init ==
    /\ server = "select"
    /\ accepting = NoProc
    /\ read_fds = {}
    /\ user_sock = [n \in Names |-> Absent]
    /\ sock_user = [s \in Sockets |-> NoName]
    /\ id_user = <<>>
    /\ backlog = <<>>
    /\ sock = [p \in Procs |-> NoSock]
    /\ up = [p \in Procs |-> <<>>]
    /\ peer = [p \in Procs |-> "open"]
    /\ nick = [p \in Procs |-> NoName]
    /\ stage = [p \in Procs |-> "none"]
    /\ down = [p \in Procs |-> {}]
    /\ overlapped = {}

(***************************************************************************)
(* The client                                                              *)
(***************************************************************************)

Connect(p) ==
    /\ Running
    /\ stage[p] = "none"
    /\ \E n \in Nicks : nick' = [nick EXCEPT ![p] = n]
    /\ stage' = [stage EXCEPT ![p] = "connecting"]
    /\ backlog' = Append(backlog, p)
    /\ UNCHANGED <<loop, tables, sock, up, peer, down, overlapped>>

SendNickname(p) ==
    /\ Running
    /\ stage[p] = "connecting"
    /\ stage' = [stage EXCEPT ![p] = "running"]
    /\ up' = [up EXCEPT ![p] = <<Nickname>>]
    /\ UNCHANGED <<loop, tables, backlog, sock, peer, nick, down, overlapped>>

Typed(p) == SelectSeq(up[p], LAMBDA c : c # Nickname)
UnderWay == MapThenSumSet(LAMBDA p : Len(Typed(p)) + Cardinality(down[p]), Procs)

\* A line is typed, and sent as it is, without a terminator.
Type(p, command) ==
    /\ Running
    /\ stage[p] = "running"
    /\ UnderWay < MaxPending
    /\ up' = [up EXCEPT ![p] = Append(@, command)]
    /\ UNCHANGED <<loop, tables, backlog, sock, peer, clients, overlapped>>

Receive(p) ==
    /\ Running
    /\ stage[p] = "running"
    /\ down[p] # {}
    /\ down' = [down EXCEPT ![p] = {}]
    /\ UNCHANGED <<loop, tables, backlog, sock, up, peer, nick, stage, overlapped>>

\* "exit" is typed.  What has arrived since select() stays unread, and close()
\* then resets the connection.
Exit(p) ==
    /\ Running
    /\ stage[p] = "running"
    /\ stage' = [stage EXCEPT ![p] = "gone"]
    /\ peer' = [peer EXCEPT ![p] = IF down[p] # {} THEN "reset" ELSE "fin"]
    /\ down' = [down EXCEPT ![p] = {}]
    /\ UNCHANGED <<loop, tables, backlog, sock, up, nick, overlapped>>

(***************************************************************************)
(* The server                                                              *)
(***************************************************************************)

\* The server is gone with its tables; the clients' recv() returns 0, and they
\* leave too.
Stop(how) ==
    /\ server' = how
    /\ accepting' = NoProc
    /\ read_fds' = {}
    /\ user_sock' = [n \in Names |-> Absent]
    /\ sock_user' = [s \in Sockets |-> NoName]
    /\ id_user' = <<>>
    /\ backlog' = <<>>
    /\ sock' = [p \in Procs |-> NoSock]
    /\ up' = [p \in Procs |-> <<>>]
    /\ peer' = [p \in Procs |-> "open"]
    /\ nick' = [p \in Procs |-> NoName]
    /\ stage' = [p \in Procs |-> "gone"]
    /\ down' = [p \in Procs |-> {}]
    /\ overlapped' = {}

Die == Stop("died")

\* "exit" is typed: the sockets are closed.
ServerExit == server = "select" /\ Stop("exited")

\* A send() to a process that has left provokes a reset, or reports the one
\* that came, and a later one kills the server with SIGPIPE.  The reset may
\* come too late for the next send to notice.
SendKills(p) == peer[p] = "broken"

SendTo(p, message) ==
    \/ /\ peer' = IF peer[p] = "open" THEN peer ELSE [peer EXCEPT ![p] = "broken"]
       /\ down' = IF peer[p] = "open" THEN [down EXCEPT ![p] = @ \cup {message}] ELSE down
    \/ peer[p] = "fin" /\ UNCHANGED <<peer, down>>

\* Mutant: FD_SET at 118 is missing.
NotWatched(s) == UNCHANGED read_fds

Watch(s) == read_fds' = read_fds \cup {s}

\* accept() returns the lowest free descriptor, and fails without one.
Accept ==
    LET free == Sockets \ {sock[p] : p \in Procs}
        p == Head(backlog)
    IN
    /\ server = "select"
    /\ backlog # <<>>
    /\ IF free = {} THEN Die
       ELSE /\ sock' = [sock EXCEPT ![p] = Min(free)]
            /\ Watch(Min(free))
            /\ backlog' = Tail(backlog)
            /\ accepting' = p
            /\ server' = "nickname"
            /\ UNCHANGED <<user_sock, sock_user, id_user, up, peer, clients, overlapped>>

\* Mutant: a name that is not connected counts as a new one.
IsConnected(name) == user_sock[name] \notin {Absent, Inactive}

IsKnown(name) == user_sock[name] # Absent

\* Mutant: a known name keeps its entry, line 128 is missing.
EnterOnce(name, s) == user_sock' = IF IsKnown(name) THEN user_sock ELSE [user_sock EXCEPT ![name] = s]

Enter(name, s) == user_sock' = [user_sock EXCEPT ![name] = s]

\* Mutant: line 129 is missing.
NameOnce(name, s) == sock_user' = IF IsKnown(name) THEN sock_user ELSE [sock_user EXCEPT ![s] = name]

NameSocket(name, s) == sock_user' = [sock_user EXCEPT ![s] = name]

\* The blocking recv at 124: nothing else is served until the process has sent
\* its nickname.  Commands that are received with the nickname
\* are behind its terminator, and lost.
ReceiveNickname(p) ==
    LET s == sock[p]
        name == nick[p]
    IN
    /\ server = "nickname"
    /\ p = accepting
    /\ up[p] # <<>>
    /\ Enter(name, s)
    /\ NameSocket(name, s)
    /\ id_user' = IF IsKnown(name) THEN id_user ELSE Append(id_user, name)
    /\ up' = [up EXCEPT ![p] = <<>>]
    /\ server' = "select"
    /\ accepting' = NoProc
    /\ overlapped' = overlapped \cup ({sock_user[r] : r \in read_fds \ {s}} \cap ({name} \ {Zero}))
    /\ UNCHANGED <<read_fds, backlog, sock, peer, clients>>

\* All that p has sent is received as one text.
Received(p) == server = "select" /\ sock[p] \in read_fds /\ up[p] # <<>>
Consume(p) == up' = [up EXCEPT ![p] = <<>>]

\* Mutant: the entry of the name keeps the descriptor.
EntryKept(name) == UNCHANGED user_sock

MakeInactive(name) == user_sock' = [user_sock EXCEPT ![name] = Inactive]

\* recv() returns 0, or fails on a connection that was reset.  What sock_user
\* keeps for a closed descriptor is not read before it is written again, and
\* left out.
HandleExit(p) ==
    /\ server = "select"
    /\ sock[p] \in read_fds
    /\ up[p] = <<>>
    /\ peer[p] # "open"
    /\ IF peer[p] = "reset" THEN Die
       ELSE /\ MakeInactive(sock_user[sock[p]])
            /\ read_fds' = read_fds \ {sock[p]}
            /\ sock' = [sock EXCEPT ![p] = NoSock]
            /\ peer' = [peer EXCEPT ![p] = "open"]
            /\ stage' = [stage EXCEPT ![p] = "none"]
            /\ nick' = [nick EXCEPT ![p] = NoName]
            /\ sock_user' = [sock_user EXCEPT ![sock[p]] = NoName]
            /\ overlapped' = overlapped \cap {sock_user[r] : r \in read_fds \ {sock[p]}}
            /\ UNCHANGED <<loop, id_user, backlog, up, down>>

HandleList(p) ==
    /\ Received(p)
    /\ up[p] = <<LIST>>
    /\ IF SendKills(p) THEN Die
       ELSE /\ SendTo(p, ListAnswer)
            /\ Consume(p)
            /\ UNCHANGED <<loop, tables, backlog, sock, nick, stage, overlapped>>

\* user_sock[name] makes an entry if there is none, for descriptor 0.
Lookup(name) == IF user_sock[name] = Absent THEN Stdin ELSE user_sock[name]

\* The text of MSG is all that comes after the number, further commands
\* included.  send() to standard input does nothing.
HandleMsg(p) ==
    LET k == Head(up[p]).to
        name == NameOf(k)
        curr_sock == Lookup(name)
        q == ProcAt(curr_sock)
        message == [by |-> nick[p], k |-> k, from |-> sock_user[sock[p]]]
    IN
    /\ Received(p)
    /\ Head(up[p]).cmd = "MSG"
    /\ k \in 0..Len(id_user)
    /\ IF curr_sock \in Sockets /\ SendKills(q) THEN Die
       ELSE /\ IF curr_sock \in Sockets THEN SendTo(q, message) ELSE UNCHANGED <<peer, down>>
            /\ user_sock' = [user_sock EXCEPT ![name] = curr_sock]
            /\ Consume(p)
            /\ UNCHANGED <<loop, read_fds, sock_user, id_user, backlog, sock, nick, stage, overlapped>>

Ignore(p) ==
    /\ Consume(p)
    /\ UNCHANGED <<loop, tables, backlog, sock, peer, clients, overlapped>>

\* A number nobody has: id_user[id] is read out of its bounds, which ends the
\* server or finds the name of nobody.
HandleWrongNumber(p) ==
    /\ Received(p)
    /\ Head(up[p]).cmd = "MSG"
    /\ Head(up[p]).to > Len(id_user)
    /\ Die \/ Ignore(p)

\* Two lines that are received together are neither LIST nor, if the first
\* has no number, MSG.
HandleUnknown(p) ==
    /\ Received(p)
    /\ Len(up[p]) > 1
    /\ Head(up[p]) \in {LIST, Incomplete}
    /\ Ignore(p)

\* A word that is no command does nothing.  For the number that is missing
\* strtok() returns the null pointer, which atoi() uses.
HandleIncomplete(p) ==
    /\ Received(p)
    /\ up[p] = <<Incomplete>>
    /\ Die \/ Ignore(p)

Handle(p) ==
    \/ ReceiveNickname(p)
    \/ HandleExit(p)
    \/ HandleList(p)
    \/ HandleMsg(p)
    \/ HandleWrongNumber(p)
    \/ HandleUnknown(p)
    \/ HandleIncomplete(p)

Next ==
    \/ \E p \in Procs : \/ Connect(p)
                        \/ SendNickname(p)
                        \/ \E c \in Commands : Type(p, c)
                        \/ Receive(p)
                        \/ Exit(p)
                        \/ Handle(p)
    \/ Accept
    \/ ServerExit

\* The scan reaches every descriptor that select() has reported, and a client
\* that has connected sends its nickname.  Nobody has to connect, type or exit.
Spec == /\ Init /\ [][Next]_vars
        /\ SF_vars(Accept)
        /\ \A p \in Procs : SF_vars(Handle(p)) /\ WF_vars(SendNickname(p))

(***************************************************************************)
(* Properties                                                              *)
(***************************************************************************)

TypeOK ==
    /\ server \in {"select", "nickname", "exited", "died"}
    /\ accepting \in Procs \cup {NoProc}
    /\ read_fds \subseteq Sockets
    /\ user_sock \in [Names -> Sockets \cup {Stdin, Inactive, Absent}]
    /\ sock_user \in [Sockets -> Nicks \cup {NoName}]
    /\ id_user \in Seq(Names)
    /\ backlog \in Seq(Procs)
    /\ sock \in [Procs -> Sockets \cup {NoSock}]
    /\ up \in [Procs -> Seq(Commands \cup {Nickname})]
    /\ peer \in [Procs -> {"open", "fin", "reset", "broken"}]
    /\ stage \in [Procs -> {"none", "connecting", "running", "gone"}]
    /\ nick \in [Procs -> Nicks \cup {NoName}]
    /\ down \in [Procs -> SUBSET Messages]
    /\ overlapped \subseteq Names

\* The two maps agree: the descriptor of a name is open, and is that of the
\* last connection with this name, whatever connections with the same name
\* came and went and whatever descriptors were given out again.
SocketsAgree ==
    \A n \in Names : user_sock[n] \in Sockets =>
        user_sock[n] \in read_fds /\ sock_user[user_sock[n]] = n

\* A message reaches a process with the name of the number that was typed,
\* and carries the name of the process that has sent it.
ReachesNamed ==
    \A p \in Procs : \A m \in down[p] \ {ListAnswer} :
        /\ nick[p] = NameOf(m.k)
        /\ m.from = m.by

\* The numbers LIST shows.
Listed == {k \in DOMAIN id_user : user_sock[id_user[k]] # Inactive}

\* What LIST shows is who is connected, for every name that has not had two
\* connections at a time since it was last gone; "0" may be missing.
LoneNamesListed ==
    \A n \in Names \ (overlapped \cup {Zero}) :
        (\E k \in Listed : id_user[k] = n)
            <=> (\E s \in read_fds \ {sock[p] : p \in {accepting} \cap Procs} : sock_user[s] = n)

\* A name has one number, the one it got first, however often it comes back;
\* every name that is connected has one, unless it is "0".
OneNumberEach ==
    /\ \A i, j \in DOMAIN id_user : id_user[i] = id_user[j] => i = j
    /\ \A n \in Names \ {Zero} : IsKnown(n) => \E k \in DOMAIN id_user : id_user[k] = n

\* What a client has typed is received as long as the server runs, although
\* the server waits for each nickname with all the other clients unserved.
TypedIsReceived ==
    \A p \in Procs : Len(Typed(p)) > 0 ~> ~Running \/ Len(Typed(p)) = 0
=============================================================================
