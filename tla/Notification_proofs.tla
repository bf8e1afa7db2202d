------------------------ MODULE Notification_proofs -------------------------
(***************************************************************************)
(* The select() loop of the notification server, for any processes, ids,   *)
(* descriptors and messages: descriptors are never confused, no receive of *)
(* the scan is empty, and what the processes see is SubscriberSessions.    *)
(***************************************************************************)
EXTENDS Notification, StoreForward_proofs, WellFoundedInduction

(***************************************************************************)
(* The invariant                                                           *)
(***************************************************************************)

\* A descriptor is one process's.
DescriptorOwned ==
    \A p, q \in Procs : sock[p] = sock[q] /\ sock[p] # NoSock => p = q

\* A connection waits once, and only until it is accepted.
BacklogOnce ==
    /\ \A i, j \in DOMAIN backlog : backlog[i] = backlog[j] => i = j
    /\ \A i \in DOMAIN backlog : sock[backlog[i]] = NoSock

StageOfConnection ==
    \A p \in Procs : /\ stage[p] = "none" => ~Attached(p)
                     /\ stage[p] = "connecting" => Attached(p)
                     /\ ~Attached(p) => up[p] = <<>>

\* Every open descriptor is watched, but for the one whose id is awaited.
Accepted ==
    /\ server \in {"select", "scan", "exited"} => accepting = NoProc
    /\ server = "id" => accepting # NoProc
    /\ accepting # NoProc => sock[accepting] \in Sockets \ read_fds
    /\ \A p \in Procs : sock[p] # NoSock => sock[p] \in read_fds \/ p = accepting

\* The id is the first thing a process sends, commands follow.
IdFirst ==
    \A p \in Procs : Attached(p) /\ sock[p] \notin read_fds =>
        \/ stage[p] = "connecting" /\ up[p] = <<>>
        \/ /\ stage[p] \in {"running", "gone"}
           /\ up[p] # <<>>
           /\ Head(up[p]) = IdMessage
           /\ Tail(up[p]) \in Seq(Commands)

CommandsAfter ==
    \A p \in Procs : sock[p] \in read_fds =>
        stage[p] \in {"running", "gone"} /\ up[p] \in Seq(Commands)

SessionOwned ==
    \A s \in read_fds : \E p \in Procs : sock[p] = s /\ client_ids[s] = IdOf[p]

\* The part of NoEmptyReceive about the scan.
ReportsHold ==
    /\ \A s \in tmp_fds \cap Sockets : s \in read_fds
    /\ \A p \in Procs : sock[p] \in tmp_fds \cap Sockets =>
          up[p] # <<>> \/ peer[p] # "open"
    /\ UdpFd \in tmp_fds => udp # <<>>
    /\ TcpFd \in tmp_fds => backlog # <<>>

\* The conjunction that is inductive.
NInv == /\ IInv
        /\ NTypeOK
        /\ DescriptorOwned
        /\ BacklogOnce
        /\ StageOfConnection
        /\ Accepted
        /\ IdFirst
        /\ CommandsAfter
        /\ SessionOwned
        /\ ReportsHold

(***************************************************************************)
(* Descriptors, queues and messages                                        *)
(***************************************************************************)

LEMMA LeastNatural ==
    ASSUME NEW S, S \subseteq Nat, S # {}
    PROVE  \E x \in S : \A y \in S : x <= y
<1>1. PICK x \in S : \A y \in S : ~ (<<y, x>> \in OpToRel(<, Nat))
  BY NatLessThanWellFounded, WFMin
<1>2. \A y \in S : ~ (y < x)
  BY <1>1 DEF OpToRel
<1> QED
  BY <1>2

LEMMA LeastIsElement ==
    ASSUME NEW S, S \subseteq Nat, S # {}
    PROVE  Min(S) \in S
BY LeastNatural DEF Min

\* The descriptors the server creates for itself are no client's.
LEMMA DescriptorKinds ==
    /\ UdpFd \notin Sockets /\ TcpFd \notin Sockets /\ UdpFd # TcpFd
    /\ NoSock \notin Sockets
    /\ Sockets \subseteq Nat
    /\ \A p \in Procs : p # NoProc /\ IdOf[p] \in Clients
BY NotificationAssumption DEF UdpFd, TcpFd

LEMMA ProcAtIsOwner ==
    ASSUME DescriptorOwned, NEW p \in Procs, sock[p] # NoSock
    PROVE  ProcAt(sock[p]) = p
BY DEF ProcAt, DescriptorOwned

\* The process at the other end of a watched descriptor.
LEMMA WatchedProc ==
    ASSUME NInv, NEW s \in read_fds
    PROVE  /\ s \in Sockets
           /\ ProcAt(s) \in Procs
           /\ sock[ProcAt(s)] = s
           /\ client_ids[s] = IdOf[ProcAt(s)]
<1>1. s \in Sockets /\ s # NoSock
  BY DescriptorKinds DEF NInv, IInv, TypeOK
<1>2. PICK p \in Procs : sock[p] = s /\ client_ids[s] = IdOf[p]
  BY DEF NInv, SessionOwned
<1>3. ProcAt(s) = p
  BY <1>1, <1>2, ProcAtIsOwner DEF NInv
<1> QED
  BY <1>1, <1>2, <1>3

LEMMA WaitingIsElement ==
    ASSUME NTypeOK, NEW p
    PROVE  Contains(backlog, p) <=> \E i \in DOMAIN backlog : backlog[i] = p
<1>1. backlog \in Seq(Procs)
  BY DEF NTypeOK
<1> QED
  BY <1>1 DEF Contains

LEMMA IdIsNoCommand == \A cmd \in Commands : cmd # IdMessage
<1> SUFFICES ASSUME NEW cmd \in Commands PROVE cmd # IdMessage
  OBVIOUS
<1>1. cmd.type \in {"subscribe", "unsubscribe"}
  BY DEF Commands
<1>2. IdMessage.type = "id"
  BY DEF IdMessage
<1> QED
  BY <1>1, <1>2

LEMMA NInitInv == NInit => NInv
<1> SUFFICES ASSUME NInit PROVE NInv
  OBVIOUS
<1>1. IInv
  BY InitIInv DEF NInit
<1>2. NTypeOK
  BY <1>1 DEF NInit, NTypeOK, IInv
<1>3. read_fds = {}
  BY DEF NInit, Init
<1>4. \A p \in Procs : ~Attached(p)
  BY DEF NInit, Attached, Contains
<1>5. DescriptorOwned /\ BacklogOnce /\ StageOfConnection
  BY <1>4 DEF NInit, DescriptorOwned, BacklogOnce, StageOfConnection
<1>6. Accepted /\ IdFirst /\ CommandsAfter
  BY <1>3, <1>4 DEF NInit, Accepted, IdFirst, CommandsAfter
<1>7. SessionOwned /\ ReportsHold
  BY <1>3 DEF NInit, SessionOwned, ReportsHold
<1> QED
  BY <1>1, <1>2, <1>5, <1>6, <1>7 DEF NInv

(***************************************************************************)
(* The subscriber's steps                                                  *)
(***************************************************************************)

LEMMA SubConnectStep ==
    ASSUME NInv, NEW p \in Procs, SubConnect(p)
    PROVE  NInv'
<1>1. /\ stage[p] = "none"
      /\ stage' = [stage EXCEPT ![p] = "connecting"]
      /\ backlog' = Append(backlog, p)
      /\ peer' = [peer EXCEPT ![p] = "open"]
      /\ UNCHANGED <<vars, read_fds, client_ids, server, tmp_fds, accepting, udp, sock, up, unread>>
  BY DEF SubConnect, loop, vars, tables
<1>2. IInv'
  BY <1>1, StutterStep DEF NInv
<1>3. /\ backlog \in Seq(Procs) /\ up[p] = <<>> /\ sock[p] = NoSock
      /\ ~Contains(backlog, p)
  BY <1>1 DEF NInv, NTypeOK, StageOfConnection, Attached
<1>4. NTypeOK'
  BY <1>1, <1>2 DEF NInv, NTypeOK, IInv, Commands
<1>5. \A q \in Procs : Contains(backlog', q) <=> Contains(backlog, q) \/ q = p
  BY <1>1, <1>3 DEF Contains
<1>6. /\ DOMAIN backlog' = 1..(Len(backlog) + 1) /\ DOMAIN backlog = 1..Len(backlog)
      /\ \A i \in 1..Len(backlog) : backlog'[i] = backlog[i]
      /\ backlog'[Len(backlog) + 1] = p
      /\ \A i \in 1..(Len(backlog) + 1) : i = Len(backlog) + 1 \/ i \in 1..Len(backlog)
  BY <1>1, <1>3
<1>7. BacklogOnce'
  <2>1. \A i \in DOMAIN backlog : backlog[i] # p
    BY <1>3 DEF Contains
  <2> QED
    BY <1>1, <1>3, <1>6, <2>1 DEF NInv, BacklogOnce
<1>8. StageOfConnection'
  BY <1>1, <1>3, <1>5 DEF NInv, NTypeOK, StageOfConnection, Attached
<1>9. DescriptorOwned' /\ Accepted' /\ SessionOwned'
  BY <1>1 DEF NInv, DescriptorOwned, Accepted, SessionOwned
<1>10. IdFirst'
  BY <1>1, <1>3, <1>5 DEF NInv, NTypeOK, IdFirst, Attached, Commands
<1>11. CommandsAfter'
  <2>1. NoSock \notin read_fds
    BY DescriptorKinds DEF NInv, IInv, TypeOK
  <2> QED
    BY <1>1, <1>3, <2>1 DEF NInv, NTypeOK, CommandsAfter, Commands
<1>12. ReportsHold'
  <2>1. backlog' # <<>>
    BY <1>1, <1>3
  <2> QED
    BY <1>1, <1>3, <2>1, DescriptorKinds DEF NInv, NTypeOK, ReportsHold
<1> QED
  BY <1>2, <1>4, <1>7, <1>8, <1>9, <1>10, <1>11, <1>12 DEF NInv

LEMMA SubSendIdStep ==
    ASSUME NInv, NEW p \in Procs, SubSendId(p)
    PROVE  NInv'
<1>1. /\ stage[p] = "connecting"
      /\ stage' = [stage EXCEPT ![p] = "running"]
      /\ up' = [up EXCEPT ![p] = <<IdMessage>>]
      /\ UNCHANGED <<vars, read_fds, client_ids, server, tmp_fds, accepting, udp, backlog, sock, peer, unread>>
  BY DEF SubSendId, loop, vars, tables
<1>2. IInv'
  BY <1>1, StutterStep DEF NInv
<1>3. Attached(p) /\ sock[p] \notin read_fds
  BY <1>1 DEF NInv, StageOfConnection, CommandsAfter
<1>4. NTypeOK'
  BY <1>1, <1>2 DEF NInv, NTypeOK, IInv, Commands
<1>5. \A q \in Procs : Attached(q)' <=> Attached(q)
  BY <1>1 DEF Attached
<1>6. BacklogOnce' /\ DescriptorOwned' /\ Accepted' /\ SessionOwned'
  BY <1>1 DEF NInv, BacklogOnce, DescriptorOwned, Accepted, SessionOwned
<1>7. StageOfConnection'
  BY <1>1, <1>3, <1>5 DEF NInv, NTypeOK, StageOfConnection
<1>8. IdFirst'
  <2>1. <<IdMessage>> # <<>> /\ Head(<<IdMessage>>) = IdMessage /\ Tail(<<IdMessage>>) \in Seq(Commands')
    OBVIOUS
  <2> QED
    BY <1>1, <1>3, <1>5, <2>1 DEF NInv, NTypeOK, IdFirst, Commands
<1>9. CommandsAfter'
  BY <1>1, <1>3 DEF NInv, NTypeOK, CommandsAfter, Commands
<1>10. ReportsHold'
  BY <1>1 DEF NInv, NTypeOK, ReportsHold
<1> QED
  BY <1>2, <1>4, <1>6, <1>7, <1>8, <1>9, <1>10 DEF NInv

LEMMA SubCommandStep ==
    ASSUME NInv, NEW p \in Procs, NEW cmd \in Commands, SubCommand(p, cmd)
    PROVE  NInv'
<1>1. /\ stage[p] = "running"
      /\ Attached(p)
      /\ up' = [up EXCEPT ![p] = Append(@, cmd)]
      /\ UNCHANGED <<vars, read_fds, client_ids, server, tmp_fds, accepting, udp, backlog, sock, peer, stage, unread>>
  BY DEF SubCommand, loop, procs, vars, tables
<1>2. IInv'
  BY <1>1, StutterStep DEF NInv
<1>3. /\ up \in [Procs -> Seq(Commands \cup {IdMessage})]
      /\ up[p] \in Seq(Commands \cup {IdMessage})
      /\ up'[p] = Append(up[p], cmd)
      /\ \A q \in Procs \ {p} : up'[q] = up[q]
  BY <1>1 DEF NInv, NTypeOK
<1>4. up'[p] # <<>> /\ up'[p] \in Seq(Commands \cup {IdMessage})
  BY <1>3
<1>5. NTypeOK'
  BY <1>1, <1>2, <1>3, <1>4 DEF NInv, NTypeOK, IInv, Commands
<1>6. \A q \in Procs : Attached(q)' <=> Attached(q)
  BY <1>1 DEF Attached
<1>7. BacklogOnce' /\ DescriptorOwned' /\ Accepted' /\ SessionOwned'
  BY <1>1 DEF NInv, BacklogOnce, DescriptorOwned, Accepted, SessionOwned
<1>8. StageOfConnection'
  BY <1>1, <1>3, <1>6 DEF NInv, StageOfConnection
<1>9. IdFirst'
  <2> SUFFICES ASSUME NEW q \in Procs, Attached(q), sock[q] \notin read_fds
               PROVE  \/ stage[q] = "connecting" /\ up'[q] = <<>>
                      \/ /\ stage[q] \in {"running", "gone"}
                         /\ up'[q] # <<>>
                         /\ Head(up'[q]) = IdMessage
                         /\ Tail(up'[q]) \in Seq(Commands)
    BY <1>1, <1>6 DEF IdFirst, Commands
  <2>1. CASE q # p
    BY <2>1, <1>3 DEF NInv, IdFirst
  <2>2. CASE q = p
    <3>1. /\ up[p] # <<>>
          /\ Head(up[p]) = IdMessage
          /\ Tail(up[p]) \in Seq(Commands)
      BY <2>2, <1>1 DEF NInv, IdFirst
    <3>2. Head(Append(up[p], cmd)) = Head(up[p]) /\ Tail(Append(up[p], cmd)) = Append(Tail(up[p]), cmd)
      BY <3>1, <1>3
    <3> QED
      BY <2>2, <3>1, <3>2, <1>1, <1>3, <1>4
  <2> QED
    BY <2>1, <2>2
<1>10. CommandsAfter'
  <2>1. sock[p] \in read_fds => up'[p] \in Seq(Commands)
    BY <1>3 DEF NInv, CommandsAfter
  <2> QED
    BY <1>1, <1>3, <2>1 DEF NInv, CommandsAfter, Commands
<1>11. ReportsHold'
  BY <1>1, <1>3, <1>4 DEF NInv, ReportsHold
<1> QED
  BY <1>2, <1>5, <1>7, <1>8, <1>9, <1>10, <1>11 DEF NInv

\* Steps that neither open nor close a connection nor send or receive on one
\* to the server.
LEMMA SubQuietStep ==
    ASSUME NInv, UNCHANGED <<vars, loop, udp, backlog, sock, up>>,
           stage' \in [Procs -> {"none", "connecting", "running", "gone"}],
           peer' \in [Procs -> {"open", "fin", "reset", "broken"}],
           unread' \in [Procs -> BOOLEAN],
           \A p \in Procs : peer[p] # "open" => peer'[p] # "open",
           \A p \in Procs : \/ stage'[p] = stage[p]
                            \/ stage[p] = "running" /\ stage'[p] = "gone" /\ Attached(p)
                            \/ stage[p] = "running" /\ stage'[p] = "none" /\ ~Attached(p)
    PROVE  NInv'
<1>1. UNCHANGED <<read_fds, client_ids, server, tmp_fds, accepting, udp, backlog, sock, up>>
  BY DEF vars, tables, loop
<1>2. IInv'
  BY StutterStep DEF NInv
<1>3. NTypeOK'
  BY <1>1, <1>2 DEF NInv, NTypeOK, IInv, Commands
<1>4. \A q \in Procs : Attached(q)' <=> Attached(q)
  BY <1>1 DEF Attached
<1>5. BacklogOnce' /\ DescriptorOwned' /\ Accepted' /\ SessionOwned' /\ ReportsHold'
  BY <1>1 DEF NInv, BacklogOnce, DescriptorOwned, Accepted, SessionOwned, ReportsHold
<1>6. StageOfConnection'
  BY <1>1, <1>4 DEF NInv, StageOfConnection
<1>7. \A q \in Procs : sock[q] \in read_fds => Attached(q)
  BY DescriptorKinds DEF NInv, IInv, TypeOK, Attached
<1>8. IdFirst' /\ CommandsAfter'
  BY <1>1, <1>4, <1>7 DEF NInv, IdFirst, CommandsAfter, Commands
<1> QED
  BY <1>2, <1>3, <1>5, <1>6, <1>8 DEF NInv

LEMMA SubReceiveStep ==
    ASSUME NInv, NEW p \in Procs, SubReceive(p)
    PROVE  NInv'
<1>1. UNCHANGED <<vars, loop, udp, backlog, sock, up, peer, stage>>
  BY DEF SubReceive, kernel
<1>2. unread' \in [Procs -> BOOLEAN]
  BY DEF SubReceive, NInv, NTypeOK
<1> QED
  BY <1>1, <1>2, SubQuietStep DEF NInv, NTypeOK

LEMMA SubExitStep ==
    ASSUME NInv, NEW p \in Procs, SubExit(p)
    PROVE  NInv'
<1>1. /\ UNCHANGED <<vars, loop, udp, backlog, sock, up>>
      /\ stage[p] = "running" /\ Attached(p)
      /\ stage' = [stage EXCEPT ![p] = "gone"]
      /\ peer' = [peer EXCEPT ![p] = IF unread[p] THEN "reset" ELSE "fin"]
      /\ unread' = [unread EXCEPT ![p] = FALSE]
  BY DEF SubExit
<1>2. /\ stage' \in [Procs -> {"none", "connecting", "running", "gone"}]
      /\ peer' \in [Procs -> {"open", "fin", "reset", "broken"}]
      /\ unread' \in [Procs -> BOOLEAN]
      /\ \A q \in Procs : peer[q] # "open" => peer'[q] # "open"
      /\ \A q \in Procs : stage'[q] = stage[q] \/ (q = p /\ stage'[q] = "gone")
  BY <1>1 DEF NInv, NTypeOK
<1> QED
  BY <1>1, <1>2, SubQuietStep

LEMMA SubEofStep ==
    ASSUME NInv, NEW p \in Procs, SubEof(p)
    PROVE  NInv'
<1>1. /\ UNCHANGED <<vars, loop, udp, backlog, sock, up, peer, unread>>
      /\ stage[p] = "running" /\ ~Attached(p)
      /\ stage' = [stage EXCEPT ![p] = "none"]
  BY DEF SubEof, kernel
<1>2. /\ stage' \in [Procs -> {"none", "connecting", "running", "gone"}]
      /\ \A q \in Procs : stage'[q] = stage[q] \/ (q = p /\ stage'[q] = "none")
  BY <1>1 DEF NInv, NTypeOK
<1> QED
  BY <1>1, <1>2, SubQuietStep DEF NInv, NTypeOK

LEMMA UdpArrivesStep ==
    ASSUME NInv, NEW t \in Topics, UdpArrives(t)
    PROVE  NInv'
<1>1. /\ udp' = Append(udp, t)
      /\ UNCHANGED <<vars, read_fds, client_ids, server, tmp_fds, accepting, backlog, sock, up, peer, stage, unread>>
  BY DEF UdpArrives, vars, tables, loop, procs
<1>2. IInv'
  BY <1>1, StutterStep DEF NInv
<1>3. udp \in Seq(Topics)
  BY DEF NInv, NTypeOK
<1>4. udp' \in Seq(Topics) /\ udp' # <<>>
  BY <1>1, <1>3
<1>5. NTypeOK'
  BY <1>1, <1>2, <1>4 DEF NInv, NTypeOK, IInv, Commands
<1>6. \A q \in Procs : Attached(q)' <=> Attached(q)
  BY <1>1 DEF Attached
<1>7. BacklogOnce' /\ DescriptorOwned' /\ Accepted' /\ SessionOwned'
  BY <1>1 DEF NInv, BacklogOnce, DescriptorOwned, Accepted, SessionOwned
<1>8. StageOfConnection' /\ IdFirst' /\ CommandsAfter'
  BY <1>1, <1>6 DEF NInv, StageOfConnection, IdFirst, CommandsAfter, Commands
<1>9. ReportsHold'
  BY <1>1, <1>4 DEF NInv, ReportsHold
<1> QED
  BY <1>2, <1>5, <1>7, <1>8, <1>9 DEF NInv

(***************************************************************************)
(* The server's steps                                                      *)
(***************************************************************************)

\* A step of the loop alone.
LEMMA LoopStep ==
    ASSUME NInv, UNCHANGED <<vars, accepting, kernel, procs>>,
           server' \in {"select", "scan", "exited", "died"},
           server' # "died" => accepting = NoProc,
           tmp_fds' \subseteq {UdpFd, TcpFd} \cup Sockets, ReportsHold'
    PROVE  NInv'
<1>1. UNCHANGED <<read_fds, client_ids, accepting, udp, backlog, sock, up, peer, stage, unread>>
  BY DEF vars, tables, kernel, procs
<1>2. IInv'
  BY StutterStep DEF NInv
<1>3. NTypeOK'
  BY <1>1, <1>2 DEF NInv, NTypeOK, IInv, Commands
<1>4. \A q \in Procs : Attached(q)' <=> Attached(q)
  BY <1>1 DEF Attached
<1>5. BacklogOnce' /\ DescriptorOwned' /\ Accepted' /\ SessionOwned'
  BY <1>1 DEF NInv, BacklogOnce, DescriptorOwned, Accepted, SessionOwned
<1>6. StageOfConnection' /\ IdFirst' /\ CommandsAfter'
  BY <1>1, <1>4 DEF NInv, StageOfConnection, IdFirst, CommandsAfter, Commands
<1> QED
  BY <1>2, <1>3, <1>5, <1>6 DEF NInv

\* What select() reports is so, and only watched descriptors are reported.
LEMMA SelectStep ==
    ASSUME NInv, Select
    PROVE  NInv'
<1>1. /\ server = "select" /\ server' = "scan" /\ tmp_fds' = Ready
      /\ UNCHANGED <<vars, read_fds, accepting, kernel, procs, udp, backlog, sock, up, peer>>
  BY DEF Select, vars, tables, kernel
<1>2. accepting = NoProc
  BY <1>1 DEF NInv, Accepted
<1>3. read_fds \subseteq Sockets
  BY DEF NInv, IInv, TypeOK
<1>4. Ready \subseteq {UdpFd, TcpFd} \cup Sockets
  BY <1>3 DEF Ready
<1>5. ReportsHold'
  <2>1. \A s \in Ready \cap Sockets : s \in read_fds
    BY DescriptorKinds DEF Ready
  <2>2. \A p \in Procs : sock[p] \in Ready \cap Sockets => up[p] # <<>> \/ peer[p] # "open"
    <3> SUFFICES ASSUME NEW p \in Procs, sock[p] \in Ready \cap Sockets
                 PROVE  up[p] # <<>> \/ peer[p] # "open"
      OBVIOUS
    <3>1. PICK q \in Procs : sock[p] = sock[q] /\ (up[q] # <<>> \/ peer[q] # "open")
      BY DescriptorKinds DEF Ready
    <3> QED
      BY <3>1, DescriptorKinds DEF NInv, DescriptorOwned
  <2>3. UdpFd \in Ready => udp # <<>>
    BY <1>3, DescriptorKinds DEF Ready
  <2>4. TcpFd \in Ready => backlog # <<>>
    BY <1>3, DescriptorKinds DEF Ready
  <2> QED
    BY <1>1, <2>1, <2>2, <2>3, <2>4 DEF ReportsHold
<1> QED
  BY <1>1, <1>2, <1>4, <1>5, LoopStep

LEMMA ServerExitStep ==
    ASSUME NInv, ServerExit
    PROVE  NInv'
<1>1. /\ server = "select" /\ server' = "exited"
      /\ UNCHANGED <<vars, tmp_fds, accepting, kernel, procs, read_fds, udp, backlog, sock, up, peer>>
  BY DEF ServerExit, vars, tables, kernel
<1>2. accepting = NoProc /\ ReportsHold'
  BY <1>1 DEF NInv, Accepted, ReportsHold
<1> QED
  BY <1>1, <1>2, LoopStep DEF NInv, NTypeOK

LEMMA DieStep ==
    ASSUME NInv, Die
    PROVE  NInv'
<1>1. /\ server' = "died"
      /\ UNCHANGED <<vars, tmp_fds, accepting, kernel, procs, read_fds, udp, backlog, sock, up, peer>>
  BY DEF Die, vars, tables, kernel
<1>2. ReportsHold'
  BY <1>1 DEF NInv, ReportsHold
<1> QED
  BY <1>1, <1>2, LoopStep DEF NInv, NTypeOK

\* A send leaves a connection that is not open as unusable as it was.
LEMMA SendToKeepsClosed ==
    ASSUME NInv, NEW ps, SendTo(ps)
    PROVE  /\ peer' \in [Procs -> {"open", "fin", "reset", "broken"}]
           /\ unread' \in [Procs -> BOOLEAN]
           /\ \A p \in Procs : peer[p] # "open" => peer'[p] # "open"
<1>1. PICK late \in SUBSET {p \in ps : peer[p] = "fin"} :
        /\ peer' = [p \in Procs |-> IF p \in ps \ late /\ peer[p] # "open"
                                    THEN "broken" ELSE peer[p]]
        /\ unread' = [p \in Procs |-> unread[p] \/ (p \in ps /\ peer[p] = "open")]
  BY DEF SendTo
<1>2. peer \in [Procs -> {"open", "fin", "reset", "broken"}] /\ unread \in [Procs -> BOOLEAN]
  BY DEF NInv, NTypeOK
<1>3. peer' \in [Procs -> {"open", "fin", "reset", "broken"}]
  BY <1>1, <1>2
<1>4. unread' \in [Procs -> BOOLEAN]
  BY <1>1, <1>2
<1> QED
  BY <1>1, <1>3, <1>4

LEMMA HandleUdpStep ==
    ASSUME NInv, HandleUdp
    PROVE  NInv'
<1> DEFINE t == Head(udp)
<1>1. Scanning(UdpFd) /\ UdpFd \in tmp_fds /\ server = "scan"
  BY DEF HandleUdp, Scanning
<1>2. udp # <<>> /\ udp \in Seq(Topics)
  BY <1>1 DEF NInv, ReportsHold, NTypeOK
<1>3. t \in Topics /\ Tail(udp) \in Seq(Topics)
  BY <1>2
<1>4. CASE \E p \in UdpTargets(t) : SendKills(p, 1)
  <2>1. Die
    BY <1>4 DEF HandleUdp
  <2> QED
    BY <2>1, DieStep
<1>5. CASE ~ \E p \in UdpTargets(t) : SendKills(p, 1)
  <2>1. /\ PublishUdp(t)
        /\ SendTo(UdpTargets(t))
        /\ udp' = Tail(udp)
        /\ Resume(tmp_fds \ {UdpFd})
        /\ UNCHANGED <<accepting, backlog, sock, up, stage>>
    BY <1>5 DEF HandleUdp
  <2> HIDE DEF t
  <2>2. UNCHANGED <<read_fds, client_ids>>
    BY <2>1 DEF PublishUdp, tables
  <2>3. IInv'
    BY <1>3, <2>1, PublishStep DEF NInv
  <2>4. tmp_fds' = tmp_fds \ {UdpFd} /\ server' \in {"select", "scan"}
    BY <2>1 DEF Resume
  <2>5. /\ peer' \in [Procs -> {"open", "fin", "reset", "broken"}]
        /\ unread' \in [Procs -> BOOLEAN]
        /\ \A p \in Procs : peer[p] # "open" => peer'[p] # "open"
    BY <2>1, SendToKeepsClosed
  <2>6. NTypeOK'
    BY <1>3, <2>1, <2>3, <2>4, <2>5 DEF NInv, NTypeOK, IInv, Commands
  <2>7. \A q \in Procs : Attached(q)' <=> Attached(q)
    BY <2>1 DEF Attached
  <2>8. BacklogOnce' /\ DescriptorOwned' /\ SessionOwned'
    BY <2>1, <2>2 DEF NInv, BacklogOnce, DescriptorOwned, SessionOwned
  <2>9. Accepted'
    BY <1>1, <2>1, <2>2, <2>4 DEF NInv, Accepted
  <2>10. StageOfConnection' /\ IdFirst' /\ CommandsAfter'
    BY <2>1, <2>2, <2>7 DEF NInv, StageOfConnection, IdFirst, CommandsAfter, Commands
  <2>11. ReportsHold'
    BY <2>1, <2>2, <2>4, <2>5 DEF NInv, ReportsHold
  <2> QED
    BY <2>3, <2>6, <2>8, <2>9, <2>10, <2>11 DEF NInv
<1> QED
  BY <1>4, <1>5

\* accept() gives out a descriptor that nobody has and no report is about.
LEMMA HandleAcceptStep ==
    ASSUME NInv, HandleAccept
    PROVE  NInv'
<1> DEFINE p == Head(backlog)
           free == Sockets \ {sock[q] : q \in Procs}
           s == Min(free)
<1>1. TcpFd \in tmp_fds /\ server = "scan"
  BY DEF HandleAccept, Scanning
<1>2. backlog # <<>> /\ backlog \in Seq(Procs)
  BY <1>1 DEF NInv, ReportsHold, NTypeOK
<1>3. p \in Procs /\ Tail(backlog) \in Seq(Procs)
  BY <1>2
<1>4. CASE free = {}
  <2>1. Die
    BY <1>4 DEF HandleAccept
  <2> QED
    BY <2>1, DieStep
<1>5. CASE free # {}
  <2>1. /\ sock' = [sock EXCEPT ![p] = s]
        /\ backlog' = Tail(backlog)
        /\ accepting' = p
        /\ server' = "id"
        /\ tmp_fds' = tmp_fds \ {TcpFd}
        /\ UNCHANGED <<vars, read_fds, client_ids, udp, up, peer, stage, unread>>
    BY <1>5 DEF HandleAccept, vars, tables, procs
  <2>2. s \in free
    <3>1. free \subseteq Nat
      BY DescriptorKinds
    <3> HIDE DEF free
    <3> QED
      BY <3>1, <1>5, LeastIsElement
  <2>3. s \in Sockets /\ s # NoSock /\ \A q \in Procs : sock[q] # s
    BY <2>2, DescriptorKinds
  <2>4. s \notin read_fds
    BY <2>3 DEF NInv, SessionOwned
  <2>5. /\ DOMAIN backlog = 1..Len(backlog)
        /\ Len(backlog) \in Nat /\ Len(backlog) # 0
        /\ DOMAIN Tail(backlog) = 1..(Len(backlog) - 1)
        /\ \A i \in 1..(Len(backlog) - 1) : Tail(backlog)[i] = backlog[i + 1]
        /\ p = backlog[1]
    BY <1>2
  <2> HIDE DEF p, s, free
  <2>6. \A i \in 1..(Len(backlog) - 1) : i \in DOMAIN backlog /\ i + 1 \in DOMAIN backlog /\ i + 1 # 1
    BY <2>5
  <2>7. 1 \in DOMAIN backlog
    BY <2>5
  <2>8. \A q \in Procs : (\E i \in DOMAIN backlog' : backlog'[i] = q) <=>
                          q # p /\ \E i \in DOMAIN backlog : backlog[i] = q
    <3> SUFFICES ASSUME NEW q \in Procs
                 PROVE  (\E i \in DOMAIN backlog' : backlog'[i] = q) <=>
                          q # p /\ \E i \in DOMAIN backlog : backlog[i] = q
      OBVIOUS
    <3>1. ASSUME NEW i \in DOMAIN backlog', backlog'[i] = q
          PROVE  q # p /\ \E j \in DOMAIN backlog : backlog[j] = q
      <4>1. i \in 1..(Len(backlog) - 1) /\ backlog[i + 1] = q
        BY <3>1, <2>1, <2>5
      <4>2. i + 1 \in DOMAIN backlog /\ i + 1 # 1
        BY <4>1, <2>6
      <4> QED
        BY <4>1, <4>2, <2>5, <2>7 DEF NInv, BacklogOnce
    <3>2. ASSUME NEW i \in DOMAIN backlog, backlog[i] = q, q # p
          PROVE  \E j \in DOMAIN backlog' : backlog'[j] = q
      <4>1. i - 1 \in 1..(Len(backlog) - 1) /\ (i - 1) + 1 = i
        BY <3>2, <2>5
      <4> QED
        BY <4>1, <3>2, <2>1, <2>5
    <3> QED
      BY <3>1, <3>2
  <2>9. IInv'
    BY <2>1, StutterStep DEF NInv
  <2>10. NTypeOK'
    BY <1>3, <2>1, <2>3, <2>9 DEF NInv, NTypeOK, IInv, Commands
  <2>11. \A q \in Procs : /\ Attached(q) <=> sock[q] # NoSock \/ \E i \in DOMAIN backlog : backlog[i] = q
                          /\ Attached(q)' <=> sock'[q] # NoSock \/ \E i \in DOMAIN backlog' : backlog'[i] = q
    <3>1. DOMAIN backlog' = 1..Len(backlog')
      BY <1>3, <2>1
    <3> QED
      BY <2>5, <3>1 DEF Attached, Contains
  <2>12. /\ sock'[p] = s
         /\ \A q \in Procs \ {p} : sock'[q] = sock[q]
    BY <1>3, <2>1 DEF NInv, NTypeOK
  <2>13. \A q \in Procs : Attached(q)' <=> Attached(q)
    BY <2>3, <2>5, <2>7, <2>8, <2>11, <2>12
  <2>14. sock[p] = NoSock
    BY <2>5, <2>7 DEF NInv, BacklogOnce
  <2>15. DescriptorOwned'
    BY <1>3, <2>3, <2>12 DEF NInv, DescriptorOwned
  <2>16. BacklogOnce'
    <3>1. \A i, j \in DOMAIN backlog' : backlog'[i] = backlog'[j] => i = j
      <4> SUFFICES ASSUME NEW i \in DOMAIN backlog', NEW j \in DOMAIN backlog',
                          backlog'[i] = backlog'[j]
                   PROVE  i = j
        OBVIOUS
      <4>1. i \in 1..(Len(backlog) - 1) /\ j \in 1..(Len(backlog) - 1)
        BY <2>1, <2>5
      <4>2. backlog[i + 1] = backlog[j + 1]
        BY <4>1, <2>1, <2>5
      <4>3. i + 1 = j + 1
        BY <4>1, <4>2, <2>6 DEF NInv, BacklogOnce
      <4> QED
        BY <4>1, <4>3
    <3>2. \A i \in DOMAIN backlog' : sock'[backlog'[i]] = NoSock
      <4> SUFFICES ASSUME NEW i \in DOMAIN backlog' PROVE sock'[backlog'[i]] = NoSock
        OBVIOUS
      <4>1. i \in 1..(Len(backlog) - 1) /\ backlog'[i] = backlog[i + 1] /\ i + 1 \in DOMAIN backlog
        BY <2>1, <2>5, <2>6
      <4>2. backlog'[i] \in Procs
        BY <1>3, <2>1
      <4>3. backlog'[i] # p
        BY <4>2, <2>8
      <4> QED
        BY <4>1, <4>2, <4>3, <2>12 DEF NInv, BacklogOnce
    <3> QED
      BY <3>1, <3>2 DEF BacklogOnce
  <2>17. StageOfConnection'
    BY <2>1, <2>13 DEF NInv, StageOfConnection
  <2>18. Accepted'
    <3>1. accepting = NoProc /\ p # NoProc
      BY <1>1, <1>3, DescriptorKinds DEF NInv, Accepted
    <3> QED
      BY <3>1, <2>1, <2>3, <2>4, <2>12, DescriptorKinds DEF NInv, Accepted
  <2>19. NoSock \notin read_fds
    BY DescriptorKinds DEF NInv, IInv, TypeOK
  <2>20. IdFirst'
    BY <2>1, <2>4, <2>12, <2>13, <2>14, <2>19 DEF NInv, IdFirst, Commands
  <2>21. CommandsAfter'
    BY <2>1, <2>4, <2>12 DEF NInv, CommandsAfter, Commands
  <2>22. SessionOwned'
    BY <2>1, <2>12, <2>14, <2>19 DEF NInv, SessionOwned
  <2>23. ReportsHold'
    <3>1. s \notin tmp_fds
      BY <2>3, <2>4 DEF NInv, ReportsHold
    <3> QED
      BY <3>1, <2>1, <2>12 DEF NInv, ReportsHold
  <2> QED
    BY <2>9, <2>10, <2>15, <2>16, <2>17, <2>18, <2>20, <2>21, <2>22, <2>23 DEF NInv
<1> QED
  BY <1>4, <1>5

\* Whose id is received: an accepted process that is not yet watched.
LEMMA IdReceivedFrom ==
    ASSUME NInv, NEW p \in Procs, IdReceived(p)
    PROVE  /\ p = accepting /\ Attached(p)
           /\ sock[p] \in Sockets \ read_fds /\ sock[p] # NoSock
           /\ stage[p] \in {"running", "gone"}
           /\ Head(up[p]) = IdMessage /\ Tail(up[p]) \in Seq(Commands)
           /\ \A q \in Procs : sock[q] = sock[p] => q = p
<1>1. server = "id" /\ p = accepting /\ up[p] # <<>>
  BY DEF IdReceived
<1>2. sock[p] \in Sockets \ read_fds /\ sock[p] # NoSock
  BY <1>1, DescriptorKinds DEF NInv, Accepted
<1>3. Attached(p)
  BY <1>2 DEF Attached
<1> QED
  BY <1>1, <1>2, <1>3 DEF NInv, IdFirst, DescriptorOwned

\* The id is taken up: the descriptor is watched from now on.
LEMMA IdTakenUp ==
    ASSUME NInv, NEW p \in Procs, IdReceived(p), IInv',
           Register(IdOf[p], sock[p]), ServeId(p), UNCHANGED <<sock, stage>>,
           peer' \in [Procs -> {"open", "fin", "reset", "broken"}],
           unread' \in [Procs -> BOOLEAN],
           \A q \in Procs : peer[q] # "open" => peer'[q] # "open"
    PROVE  NInv'
<1>1. /\ p = accepting /\ Attached(p)
      /\ sock[p] \in Sockets \ read_fds /\ sock[p] # NoSock
      /\ stage[p] \in {"running", "gone"}
      /\ \A q \in Procs : sock[q] = sock[p] => q = p
  BY IdReceivedFrom
<1>2. /\ up' = [up EXCEPT ![p] = <<>>]
      /\ accepting' = NoProc
      /\ tmp_fds' = tmp_fds
      /\ server' \in {"select", "scan"}
      /\ UNCHANGED <<udp, backlog>>
  BY DEF ServeId, Resume
<1>3. /\ read_fds' = read_fds \cup {sock[p]}
      /\ client_ids' = [client_ids EXCEPT ![sock[p]] = IdOf[p]]
      /\ client_ids \in [Sockets -> Clients \cup {Absent}]
      /\ read_fds \subseteq Sockets
  BY DEF Register, NInv, IInv, TypeOK
<1>4. /\ up \in [Procs -> Seq(Commands \cup {IdMessage})]
      /\ up'[p] = <<>>
      /\ \A q \in Procs \ {p} : up'[q] = up[q]
  BY <1>2 DEF NInv, NTypeOK
<1>5. up' \in [Procs -> Seq(Commands \cup {IdMessage})]
  <2>1. <<>> \in Seq(Commands \cup {IdMessage})
    OBVIOUS
  <2> QED
    BY <1>2, <1>4, <2>1
<1>6. NTypeOK'
  BY <1>2, <1>5 DEF NInv, NTypeOK, IInv, Commands
<1>7. \A q \in Procs : Attached(q)' <=> Attached(q)
  BY <1>2 DEF Attached
<1>8. BacklogOnce' /\ DescriptorOwned'
  BY <1>2 DEF NInv, BacklogOnce, DescriptorOwned
<1>9. Accepted'
  BY <1>1, <1>2, <1>3 DEF NInv, Accepted
<1>10. StageOfConnection'
  BY <1>1, <1>4, <1>7 DEF NInv, StageOfConnection
<1>11. IdFirst'
  BY <1>3, <1>4, <1>7 DEF NInv, IdFirst, Commands
<1>12. CommandsAfter'
  <2>1. <<>> \in Seq(Commands')
    OBVIOUS
  <2> QED
    BY <1>1, <1>3, <1>4, <2>1 DEF NInv, CommandsAfter, Commands
<1>13. SessionOwned'
  <2>1. client_ids'[sock[p]] = IdOf[p]
    BY <1>1, <1>3
  <2>2. \A s \in read_fds : client_ids'[s] = client_ids[s]
    BY <1>1, <1>3
  <2> QED
    BY <1>3, <2>1, <2>2 DEF NInv, SessionOwned
<1>14. ReportsHold'
  <2>1. sock[p] \notin tmp_fds
    BY <1>1 DEF NInv, ReportsHold
  <2> QED
    BY <1>2, <1>3, <1>4, <2>1 DEF NInv, ReportsHold
<1> QED
  BY <1>6, <1>8, <1>9, <1>10, <1>11, <1>12, <1>13, <1>14 DEF NInv

LEMMA HandleNewIdStep ==
    ASSUME NInv, NEW p \in Procs, HandleNewId(p)
    PROVE  NInv'
<1>1. /\ IdReceived(p) /\ ConnectNew(IdOf[p], sock[p]) /\ ServeId(p)
      /\ UNCHANGED <<sock, peer, stage, unread>>
  BY DEF HandleNewId, procs
<1>2. IdOf[p] \in Clients /\ sock[p] \in Sockets
  BY <1>1, IdReceivedFrom, DescriptorKinds
<1>3. IInv'
  BY <1>1, <1>2, ConnectNewStep DEF NInv
<1>4. Register(IdOf[p], sock[p])
  BY <1>1 DEF ConnectNew
<1> QED
  BY <1>1, <1>3, <1>4, IdTakenUp DEF NInv, NTypeOK

LEMMA HandleKnownIdStep ==
    ASSUME NInv, NEW p \in Procs, HandleKnownId(p)
    PROVE  NInv'
<1> DEFINE ps == IF Cardinality(ResentTo(IdOf[p])) > 0 THEN {p} ELSE {}
<1>1. /\ IdReceived(p) /\ Reconnect(IdOf[p], sock[p]) /\ ServeId(p)
      /\ SendTo(ps)
      /\ UNCHANGED <<sock, stage>>
  BY DEF HandleKnownId
<1>2. IdOf[p] \in Clients /\ sock[p] \in Sockets
  BY <1>1, IdReceivedFrom, DescriptorKinds
<1>3. IInv'
  BY <1>1, <1>2, ReconnectStep DEF NInv
<1>4. Register(IdOf[p], sock[p])
  BY <1>1 DEF Reconnect
<1> HIDE DEF ps
<1>5. /\ peer' \in [Procs -> {"open", "fin", "reset", "broken"}]
      /\ unread' \in [Procs -> BOOLEAN]
      /\ \A q \in Procs : peer[q] # "open" => peer'[q] # "open"
  BY <1>1, SendToKeepsClosed
<1> QED
  BY <1>1, <1>3, <1>4, <1>5, IdTakenUp

\* close() of the server's end of a connection that is not waiting.
LEMMA Closing ==
    ASSUME NInv, NEW p \in Procs, sock[p] # NoSock, stage[p] \in {"running", "gone"},
           CloseConnection(p)
    PROVE  /\ sock' \in [Procs -> Sockets \cup {NoSock}]
           /\ stage' \in [Procs -> {"none", "connecting", "running", "gone"}]
           /\ peer' \in [Procs -> {"open", "fin", "reset", "broken"}]
           /\ sock'[p] = NoSock /\ stage'[p] \in {"none", "running"}
           /\ \A q \in Procs \ {p} : /\ sock'[q] = sock[q]
                                     /\ stage'[q] = stage[q]
                                     /\ peer'[q] = peer[q]
           /\ \A i \in DOMAIN backlog : backlog[i] # p
BY DEF CloseConnection, NInv, NTypeOK, BacklogOnce

\* A duplicate is turned away: nothing is left of its connection.
LEMMA HandleDuplicateIdStep ==
    ASSUME NInv, NEW p \in Procs, HandleDuplicateId(p)
    PROVE  NInv'
<1>1. /\ IdReceived(p) /\ CloseConnection(p) /\ ServeId(p)
      /\ UNCHANGED <<vars, unread>>
  BY DEF HandleDuplicateId, ConnectDuplicate
<1>2. UNCHANGED <<read_fds, client_ids>>
  BY <1>1 DEF vars, tables
<1>3. /\ p = accepting
      /\ sock[p] \in Sockets \ read_fds /\ sock[p] # NoSock
      /\ stage[p] \in {"running", "gone"}
  BY <1>1, IdReceivedFrom
<1>4. /\ up' = [up EXCEPT ![p] = <<>>]
      /\ accepting' = NoProc
      /\ tmp_fds' = tmp_fds
      /\ server' \in {"select", "scan"}
      /\ UNCHANGED <<udp, backlog>>
  BY <1>1 DEF ServeId, Resume
<1>5. /\ sock' \in [Procs -> Sockets \cup {NoSock}]
      /\ stage' \in [Procs -> {"none", "connecting", "running", "gone"}]
      /\ peer' \in [Procs -> {"open", "fin", "reset", "broken"}]
      /\ sock'[p] = NoSock /\ stage'[p] \in {"none", "running"}
      /\ \A q \in Procs \ {p} : sock'[q] = sock[q] /\ stage'[q] = stage[q] /\ peer'[q] = peer[q]
      /\ \A i \in DOMAIN backlog : backlog[i] # p
  BY <1>1, <1>3, Closing
<1>6. /\ up \in [Procs -> Seq(Commands \cup {IdMessage})]
      /\ up'[p] = <<>>
      /\ \A q \in Procs \ {p} : up'[q] = up[q]
  BY <1>4 DEF NInv, NTypeOK
<1>7. up' \in [Procs -> Seq(Commands \cup {IdMessage})]
  <2>1. <<>> \in Seq(Commands \cup {IdMessage})
    OBVIOUS
  <2> QED
    BY <1>4, <1>6, <2>1
<1>8. IInv'
  BY <1>1, StutterStep DEF NInv
<1>9. NTypeOK'
  BY <1>1, <1>4, <1>5, <1>7, <1>8 DEF NInv, NTypeOK, IInv, Commands
<1>10. ~Attached(p)' /\ \A q \in Procs \ {p} : Attached(q)' <=> Attached(q)
  <2>1. ~Contains(backlog, p)
    BY <1>5, WaitingIsElement DEF NInv
  <2> QED
    BY <1>4, <1>5, <2>1 DEF Attached
<1>11. DescriptorOwned'
  BY <1>5 DEF NInv, DescriptorOwned
<1>12. BacklogOnce'
  <2>1. \A i \in DOMAIN backlog : backlog[i] \in Procs
    BY DEF NInv, NTypeOK
  <2> QED
    BY <1>4, <1>5, <2>1 DEF NInv, BacklogOnce
<1>13. StageOfConnection'
  BY <1>5, <1>6, <1>10 DEF NInv, StageOfConnection
<1>14. Accepted'
  BY <1>2, <1>3, <1>4, <1>5 DEF NInv, Accepted
<1>15. IdFirst'
  BY <1>2, <1>5, <1>6, <1>10 DEF NInv, IdFirst, Commands
<1>16. NoSock \notin read_fds
  BY DescriptorKinds DEF NInv, IInv, TypeOK
<1>17. CommandsAfter'
  BY <1>2, <1>5, <1>6, <1>16 DEF NInv, CommandsAfter, Commands
<1>18. SessionOwned'
  BY <1>2, <1>3, <1>5 DEF NInv, SessionOwned
<1>19. ReportsHold'
  BY <1>2, <1>4, <1>5, <1>6, DescriptorKinds DEF NInv, ReportsHold
<1> QED
  BY <1>8, <1>9, <1>11, <1>12, <1>13, <1>14, <1>15, <1>17, <1>18, <1>19 DEF NInv

\* Whose input the scan finds on descriptor s.
LEMMA Scanned ==
    ASSUME NInv, NEW s \in Sockets, Scanning(s)
    PROVE  /\ server = "scan" /\ accepting = NoProc /\ s \in tmp_fds /\ s \in read_fds
           /\ ProcAt(s) \in Procs /\ sock[ProcAt(s)] = s /\ s # NoSock
           /\ client_ids[s] = IdOf[ProcAt(s)]
           /\ stage[ProcAt(s)] \in {"running", "gone"}
           /\ up[ProcAt(s)] \in Seq(Commands)
           /\ \A q \in Procs : sock[q] = s => q = ProcAt(s)
<1>1. server = "scan" /\ s \in tmp_fds
  BY DEF Scanning
<1>2. s \in read_fds /\ accepting = NoProc /\ s # NoSock
  BY <1>1, DescriptorKinds DEF NInv, ReportsHold, Accepted
<1>3. ProcAt(s) \in Procs /\ sock[ProcAt(s)] = s /\ client_ids[s] = IdOf[ProcAt(s)]
  BY <1>2, WatchedProc
<1> QED
  BY <1>1, <1>2, <1>3 DEF NInv, CommandsAfter, DescriptorOwned

LEMMA HandleCommandStep ==
    ASSUME NInv, NEW s \in Sockets, HandleCommand(s)
    PROVE  NInv'
<1> DEFINE p == ProcAt(s)
           cmd == CommandRead(p)
<1>1. /\ Scanning(s)
      /\ up[p] # <<>>
      /\ IF cmd.type = "subscribe" THEN Subscribe(s, cmd.topic, cmd.sf)
                                   ELSE Unsubscribe(s, cmd.topic)
      /\ up' = [up EXCEPT ![p] = <<>>]
      /\ Resume(tmp_fds \ {s})
      /\ UNCHANGED <<accepting, udp, backlog, sock, peer, stage, unread>>
  BY DEF HandleCommand, procs
<1>2. /\ server = "scan" /\ accepting = NoProc /\ s \in read_fds
      /\ p \in Procs /\ sock[p] = s /\ s # NoSock
      /\ stage[p] \in {"running", "gone"}
      /\ up[p] \in Seq(Commands)
      /\ \A q \in Procs : sock[q] = s => q = p
  BY <1>1, Scanned
<1>3. cmd \in Commands
  BY <1>1, <1>2 DEF CommandRead
<1> HIDE DEF p, cmd
<1>4. IInv' /\ UNCHANGED <<read_fds, client_ids>>
  <2>1. CASE cmd.type = "subscribe"
    <3>1. cmd.topic \in Topics /\ cmd.sf \in {0, 1}
      BY <1>3, <2>1, NotificationAssumption DEF Commands
    <3> QED
      BY <1>1, <2>1, <3>1, SubscribeStep DEF NInv, Subscribe, tables
  <2>2. CASE cmd.type # "subscribe"
    <3>1. cmd.topic \in Topics
      BY <1>3 DEF Commands
    <3> QED
      BY <1>1, <2>2, <3>1, UnsubscribeStep DEF NInv, Unsubscribe, tables
  <2> QED
    BY <2>1, <2>2
<1>5. tmp_fds' = tmp_fds \ {s} /\ server' \in {"select", "scan"}
  BY <1>1 DEF Resume
<1>6. /\ up \in [Procs -> Seq(Commands \cup {IdMessage})]
      /\ up'[p] = <<>>
      /\ \A q \in Procs \ {p} : up'[q] = up[q]
  BY <1>1, <1>2 DEF NInv, NTypeOK
<1>7. up' \in [Procs -> Seq(Commands \cup {IdMessage})]
  <2>1. <<>> \in Seq(Commands \cup {IdMessage})
    OBVIOUS
  <2> QED
    BY <1>1, <1>6, <2>1
<1>8. NTypeOK'
  BY <1>1, <1>4, <1>5, <1>7 DEF NInv, NTypeOK, IInv, Commands
<1>9. \A q \in Procs : Attached(q)' <=> Attached(q)
  BY <1>1 DEF Attached
<1>10. BacklogOnce' /\ DescriptorOwned' /\ SessionOwned'
  BY <1>1, <1>4 DEF NInv, BacklogOnce, DescriptorOwned, SessionOwned
<1>11. Accepted'
  BY <1>1, <1>2, <1>4, <1>5 DEF NInv, Accepted
<1>12. StageOfConnection'
  BY <1>1, <1>6, <1>9 DEF NInv, StageOfConnection
<1>13. IdFirst'
  BY <1>1, <1>2, <1>4, <1>6, <1>9 DEF NInv, IdFirst, Commands
<1>14. CommandsAfter'
  <2>1. <<>> \in Seq(Commands')
    OBVIOUS
  <2> QED
    BY <1>1, <1>4, <1>6, <2>1 DEF NInv, CommandsAfter, Commands
<1>15. ReportsHold'
  BY <1>1, <1>2, <1>4, <1>5, <1>6 DEF NInv, ReportsHold
<1> QED
  BY <1>4, <1>8, <1>10, <1>11, <1>12, <1>13, <1>14, <1>15 DEF NInv

LEMMA HandleEofStep ==
    ASSUME NInv, NEW s \in Sockets, HandleEof(s)
    PROVE  NInv'
<1> DEFINE p == ProcAt(s)
<1>1. Scanning(s) /\ up[p] = <<>>
  BY DEF HandleEof
<1>2. /\ server = "scan" /\ accepting = NoProc /\ s \in read_fds
      /\ p \in Procs /\ sock[p] = s /\ s # NoSock
      /\ stage[p] \in {"running", "gone"}
      /\ \A q \in Procs : sock[q] = s => q = p
  BY <1>1, Scanned
<1>3. CASE peer[p] = "reset"
  <2>1. Die
    BY <1>3 DEF HandleEof
  <2> QED
    BY <2>1, DieStep
<1>4. CASE peer[p] # "reset"
  <2>1. /\ Disconnect(s)
        /\ CloseConnection(p)
        /\ Resume(tmp_fds \ {s})
        /\ UNCHANGED <<accepting, udp, backlog, up, unread>>
    BY <1>4 DEF HandleEof
  <2> HIDE DEF p
  <2>2. IInv'
    BY <2>1, DisconnectStep DEF NInv
  <2>3. read_fds' = read_fds \ {s} /\ client_ids' = client_ids
    BY <2>1 DEF Disconnect
  <2>4. tmp_fds' = tmp_fds \ {s} /\ server' \in {"select", "scan"}
    BY <2>1 DEF Resume
  <2>5. /\ sock' \in [Procs -> Sockets \cup {NoSock}]
        /\ stage' \in [Procs -> {"none", "connecting", "running", "gone"}]
        /\ peer' \in [Procs -> {"open", "fin", "reset", "broken"}]
        /\ sock'[p] = NoSock /\ stage'[p] \in {"none", "running"}
        /\ \A q \in Procs \ {p} : sock'[q] = sock[q] /\ stage'[q] = stage[q] /\ peer'[q] = peer[q]
        /\ \A i \in DOMAIN backlog : backlog[i] # p
    BY <1>2, <2>1, Closing
  <2>6. NTypeOK'
    BY <2>1, <2>2, <2>4, <2>5 DEF NInv, NTypeOK, IInv, Commands
  <2>7. \A q \in Procs : IF q = p THEN ~Attached(q)' ELSE Attached(q)' <=> Attached(q)
    <3>1. ~Contains(backlog, p)
      BY <2>5, WaitingIsElement DEF NInv
    <3> QED
      BY <2>1, <2>5, <3>1 DEF Attached
  <2>8. DescriptorOwned'
    BY <2>5 DEF NInv, DescriptorOwned
  <2>9. BacklogOnce'
    <3>1. \A i \in DOMAIN backlog : backlog[i] \in Procs
      BY DEF NInv, NTypeOK
    <3> QED
      BY <2>1, <2>5, <3>1 DEF NInv, BacklogOnce
  <2>10. StageOfConnection'
    BY <1>1, <2>1, <2>5, <2>7 DEF p, NInv, StageOfConnection
  <2>11. Accepted'
    BY <1>2, <2>1, <2>3, <2>4, <2>5 DEF NInv, Accepted
  <2>12. IdFirst'
    BY <1>2, <2>1, <2>3, <2>5, <2>7 DEF NInv, IdFirst, Commands
  <2>13. NoSock \notin read_fds
    BY DescriptorKinds DEF NInv, IInv, TypeOK
  <2>14. CommandsAfter'
    BY <1>2, <2>1, <2>3, <2>5, <2>13 DEF NInv, CommandsAfter, Commands
  <2>15. SessionOwned'
    BY <1>2, <2>3, <2>5 DEF NInv, SessionOwned
  <2>16. ReportsHold'
    BY <1>2, <2>1, <2>3, <2>4, <2>5, DescriptorKinds DEF NInv, ReportsHold
  <2> QED
    BY <2>2, <2>6, <2>8, <2>9, <2>10, <2>11, <2>12, <2>14, <2>15, <2>16 DEF NInv
<1> QED
  BY <1>3, <1>4

LEMMA NStutterStep ==
    ASSUME NInv, UNCHANGED nvars
    PROVE  NInv'
<1>1. UNCHANGED <<vars, loop, udp, backlog, sock, up, peer, stage, unread>>
  BY DEF nvars, kernel, procs
<1> QED
  BY <1>1, SubQuietStep DEF NInv, NTypeOK

LEMMA NNextInv ==
    ASSUME NInv, [NNext]_nvars
    PROVE  NInv'
<1>1. CASE Select
  BY <1>1, SelectStep
<1>2. CASE HandleUdp
  BY <1>2, HandleUdpStep
<1>3. CASE HandleAccept
  BY <1>3, HandleAcceptStep
<1>4. ASSUME NEW p \in Procs, HandleNewId(p) PROVE NInv'
  BY <1>4, HandleNewIdStep
<1>5. ASSUME NEW p \in Procs, HandleKnownId(p) PROVE NInv'
  BY <1>5, HandleKnownIdStep
<1>6. ASSUME NEW p \in Procs, HandleDuplicateId(p) PROVE NInv'
  BY <1>6, HandleDuplicateIdStep
<1>7. ASSUME NEW p \in Procs, DieResending(p) PROVE NInv'
  BY <1>7, DieStep DEF DieResending
<1>8. ASSUME NEW s \in Sockets, HandleCommand(s) PROVE NInv'
  BY <1>8, HandleCommandStep
<1>9. ASSUME NEW s \in Sockets, HandleEof(s) PROVE NInv'
  BY <1>9, HandleEofStep
<1>10. CASE ServerExit
  BY <1>10, ServerExitStep
<1>11. ASSUME NEW p \in Procs, SubConnect(p) PROVE NInv'
  BY <1>11, SubConnectStep
<1>12. ASSUME NEW p \in Procs, SubSendId(p) PROVE NInv'
  BY <1>12, SubSendIdStep
<1>13. ASSUME NEW p \in Procs, NEW cmd \in Commands, SubCommand(p, cmd) PROVE NInv'
  BY <1>13, SubCommandStep
<1>14. ASSUME NEW p \in Procs, SubReceive(p) \/ SubExit(p) \/ SubEof(p) PROVE NInv'
  BY <1>14, SubReceiveStep, SubExitStep, SubEofStep
<1>15. ASSUME NEW t \in Topics, UdpArrives(t) PROVE NInv'
  BY <1>15, UdpArrivesStep
<1>16. CASE UNCHANGED nvars
  BY <1>16, NStutterStep
<1> QED
  BY <1>1, <1>2, <1>3, <1>4, <1>5, <1>6, <1>7, <1>8, <1>9, <1>10, <1>11, <1>12,
     <1>13, <1>14, <1>15, <1>16 DEF NNext, ServerStep

\* NInv is an inductive invariant of the server and its subscribers.
THEOREM NotificationInvariant == NSpec => []NInv
<1>1. NInit => NInv
  BY NInitInv
<1>2. NInv /\ [NNext]_nvars => NInv'
  BY NNextInv
<1> QED
  BY <1>1, <1>2, PTL DEF NSpec

(***************************************************************************)
(* What the invariant gives                                                *)
(***************************************************************************)

\* The loop's, the kernel's and the processes' state always has its type, and
\* so have the tables, although only handlers of the loop touch them.
THEOREM NotificationTypes == NSpec => []NTypeOK
<1>1. NInv => NTypeOK
  BY DEF NInv
<1> QED
  BY <1>1, NotificationInvariant, PTL

\* Closing and reusing descriptors never puts a process under another's id.
THEOREM SessionsOfProcesses == NSpec => []SessionOfProcess
<1>1. NInv => SessionOfProcess
  <2> SUFFICES ASSUME NInv, NEW s \in read_fds
               PROVE  \E p \in Procs : /\ sock[p] = s
                                       /\ client_ids[s] = IdOf[p]
                                       /\ \A q \in Procs \ {p} : sock[q] # s
    BY DEF SessionOfProcess
  <2>1. s # NoSock
    BY DescriptorKinds DEF NInv, IInv, TypeOK
  <2>2. PICK p \in Procs : sock[p] = s /\ client_ids[s] = IdOf[p]
    BY DEF NInv, SessionOwned
  <2> QED
    BY <2>1, <2>2 DEF NInv, DescriptorOwned
<1> QED
  BY <1>1, NotificationInvariant, PTL

\* The scan never blocks: each report of select() is still true when its
\* descriptor is reached, and the one recv outside the scan waits for a
\* process that sends its id next.
THEOREM ReceivesNeverEmpty == NSpec => []NoEmptyReceive
<1>1. NInv => NoEmptyReceive
  <2> SUFFICES ASSUME NInv PROVE NoEmptyReceive
    OBVIOUS
  <2>1. ASSUME NEW s \in tmp_fds \cap Sockets
        PROVE  s \in read_fds /\ (up[ProcAt(s)] # <<>> \/ peer[ProcAt(s)] # "open")
    <3>1. s \in read_fds
      BY DEF NInv, ReportsHold
    <3>2. ProcAt(s) \in Procs /\ sock[ProcAt(s)] = s
      BY <3>1, WatchedProc
    <3> QED
      BY <3>1, <3>2 DEF NInv, ReportsHold
  <2>2. server = "id" => \/ stage[accepting] = "connecting"
                         \/ up[accepting] # <<>> /\ Head(up[accepting]) = IdMessage
    <3> SUFFICES ASSUME server = "id"
                 PROVE  \/ stage[accepting] = "connecting"
                        \/ up[accepting] # <<>> /\ Head(up[accepting]) = IdMessage
      OBVIOUS
    <3>1. accepting \in Procs /\ sock[accepting] \in Sockets \ read_fds
      BY DEF NInv, Accepted, NTypeOK
    <3>2. Attached(accepting)
      BY <3>1, DescriptorKinds DEF Attached
    <3> QED
      BY <3>1, <3>2 DEF NInv, IdFirst
  <2> QED
    BY <2>1, <2>2 DEF NoEmptyReceive, NInv, ReportsHold
<1> QED
  BY <1>1, NotificationInvariant, PTL

(***************************************************************************)
(* The server keeps the promise of SubscriberSessions                      *)
(***************************************************************************)

\* An id that is connected is held by the process started with it.
LEMMA HolderOwns ==
    ASSUME NInv, NEW c \in Clients, client_sockfds[c] \in Sockets
    PROVE  /\ Holders[c] \in Procs
           /\ sock[Holders[c]] = client_sockfds[c]
           /\ sock[Holders[c]] \in read_fds
           /\ IdOf[Holders[c]] = c
<1>1. client_sockfds[c] \in read_fds /\ client_ids[client_sockfds[c]] = c
  BY DEF NInv, IInv, SocketTablesAgree
<1>2. Holders[c] = ProcAt(client_sockfds[c])
  BY DEF Holders
<1> QED
  BY <1>1, <1>2, WatchedProc

LEMMA NobodyHolds ==
    ASSUME NEW c \in Clients, client_sockfds[c] \notin Sockets
    PROVE  Holders[c] = NoProc
BY DEF Holders

\* Whoever is at the other end of the entry's descriptor is the next holder.
LEMMA NextHolder ==
    ASSUME NInv', NEW c \in Clients, NEW p \in Procs, NEW s \in Sockets,
           client_sockfds'[c] = s, sock'[p] = s
    PROVE  Holders'[c] = p
<1>1. s # NoSock
  BY DescriptorKinds
<1>2. \A q \in Procs : sock'[q] = s <=> q = p
  BY <1>1 DEF NInv, DescriptorOwned
<1>3. Holders'[c] = CHOOSE q \in Procs : sock'[q] = s
  BY DEF Holders, ProcAt
<1> QED
  BY <1>2, <1>3

LEMMA NobodyHoldsNext ==
    ASSUME NEW c \in Clients, client_sockfds'[c] \notin Sockets
    PROVE  Holders'[c] = NoProc
BY DEF Holders

\* An id whose entry and whose watched descriptor stay keeps its holder.
LEMMA HolderKept ==
    ASSUME NInv, NInv', NEW c \in Clients, client_sockfds'[c] = client_sockfds[c],
           \A p \in Procs : sock[p] \in read_fds /\ IdOf[p] = c => sock'[p] = sock[p]
    PROVE  Holders'[c] = Holders[c]
<1>1. CASE client_sockfds[c] \in Sockets
  BY <1>1, HolderOwns, NextHolder
<1>2. CASE client_sockfds[c] \notin Sockets
  BY <1>2, NobodyHolds, NobodyHoldsNext
<1> QED
  BY <1>1, <1>2

\* The commands on their way, when the id is the first of what was sent and
\* when it is not among it.
LEMMA CommandsBehindId ==
    ASSUME NEW p \in Procs, up[p] # <<>>, Head(up[p]) = IdMessage
    PROVE  CommandsSent(p) = Tail(up[p])
BY DEF CommandsSent

LEMMA CommandsAlone ==
    ASSUME NEW p \in Procs, up[p] \in Seq(Commands)
    PROVE  CommandsSent(p) = up[p]
<1>1. CASE up[p] = <<>>
  BY <1>1 DEF CommandsSent
<1>2. CASE up[p] # <<>>
  <2>1. Head(up[p]) \in Commands
    BY <1>2
  <2> QED
    BY <2>1, IdIsNoCommand DEF CommandsSent
<1> QED
  BY <1>1, <1>2

LEMMA CommandsSentType ==
    ASSUME NInv, NEW p \in Procs
    PROVE  CommandsSent(p) \in Seq(Commands)
<1>1. CASE ~Attached(p)
  <2>1. up[p] = <<>>
    BY <1>1 DEF NInv, StageOfConnection
  <2> QED
    BY <2>1 DEF CommandsSent
<1>2. CASE Attached(p) /\ sock[p] \in read_fds
  BY <1>2, CommandsAlone DEF NInv, CommandsAfter
<1>3. CASE Attached(p) /\ sock[p] \notin read_fds
  <2>1. \/ up[p] = <<>>
        \/ up[p] # <<>> /\ Head(up[p]) = IdMessage /\ Tail(up[p]) \in Seq(Commands)
    BY <1>3 DEF NInv, IdFirst
  <2>2. CASE up[p] = <<>>
    BY <2>2 DEF CommandsSent
  <2> QED
    BY <2>1, <2>2, CommandsBehindId
<1> QED
  BY <1>1, <1>2, <1>3

\* What a receive that takes everything leaves is a remainder.
LEMMA NothingRemains ==
    ASSUME NEW q \in Seq(Commands)
    PROVE  <<>> \in Sessions!Remainders(q)
<1>1. Len(q) \in Nat /\ Len(q) + 1 \in 1..(Len(q) + 1)
  OBVIOUS
<1>2. SubSeq(q, Len(q) + 1, Len(q)) = <<>>
  BY <1>1
<1> QED
  BY <1>1, <1>2 DEF Sessions!Remainders

Sent == [p \in Procs |-> CommandsSent(p)]

sessionVars == <<Holders, client_topics, saved_ids, Sent>>

\* A step that moves no entry, closes no watched descriptor and sends or
\* takes no command is none of the abstract specification's.
LEMMA HiddenStep ==
    ASSUME NInv, NInv', UNCHANGED <<client_sockfds, client_topics, saved_ids>>,
           \A p \in Procs : sock[p] \in read_fds => sock'[p] = sock[p],
           \A p \in Procs : CommandsSent(p)' = CommandsSent(p)
    PROVE  UNCHANGED sessionVars
<1>1. \A c \in Clients : Holders'[c] = Holders[c]
  BY HolderKept
<1>2. Holders' = Holders
  BY <1>1 DEF Holders
<1>3. Sent' = Sent
  BY DEF Sent
<1> QED
  BY <1>2, <1>3 DEF sessionVars

LEMMA VarsAreTables ==
    ASSUME UNCHANGED vars
    PROVE  UNCHANGED <<client_sockfds, client_topics, saved_ids, read_fds>>
BY DEF vars, tables, subscriptions

LEMMA SendIdHidden ==
    ASSUME NInv, NInv', NEW p \in Procs, SubSendId(p)
    PROVE  UNCHANGED sessionVars
<1>1. /\ stage[p] = "connecting"
      /\ up' = [up EXCEPT ![p] = <<IdMessage>>]
      /\ UNCHANGED <<vars, sock>>
  BY DEF SubSendId
<1>2. up[p] = <<>>
  BY <1>1 DEF NInv, StageOfConnection, CommandsAfter, IdFirst
<1>3. up'[p] = <<IdMessage>> /\ \A q \in Procs \ {p} : up'[q] = up[q]
  BY <1>1 DEF NInv, NTypeOK
<1>4. <<IdMessage>> # <<>> /\ Head(<<IdMessage>>) = IdMessage /\ Tail(<<IdMessage>>) = <<>>
  OBVIOUS
<1>5. \A q \in Procs : CommandsSent(q)' = CommandsSent(q)
  BY <1>2, <1>3, <1>4 DEF CommandsSent, IdMessage
<1> QED
  BY <1>1, <1>5, VarsAreTables, HiddenStep

LEMMA CommandIsSend ==
    ASSUME NInv, NInv', NEW p \in Procs, NEW cmd \in Commands, SubCommand(p, cmd)
    PROVE  Sessions!Send(p, cmd)
<1>1. /\ Attached(p) /\ stage[p] = "running"
      /\ up' = [up EXCEPT ![p] = Append(@, cmd)]
      /\ UNCHANGED <<vars, sock>>
  BY DEF SubCommand
<1>2. /\ up \in [Procs -> Seq(Commands \cup {IdMessage})]
      /\ up'[p] = Append(up[p], cmd)
      /\ \A q \in Procs \ {p} : up'[q] = up[q]
  BY <1>1 DEF NInv, NTypeOK
<1>3. \A q \in Procs \ {p} : CommandsSent(q)' = CommandsSent(q)
  BY <1>2 DEF CommandsSent, IdMessage
<1>4. CommandsSent(p)' = Append(CommandsSent(p), cmd)
  <2>1. CASE sock[p] \in read_fds
    <3>1. up[p] \in Seq(Commands)
      BY <2>1 DEF NInv, CommandsAfter
    <3>2. up'[p] \in Seq(Commands) /\ up'[p] # <<>> /\ Head(up'[p]) \in Commands
      BY <3>1, <1>2
    <3>3. CommandsSent(p)' = up'[p]
      BY <3>2, IdIsNoCommand DEF CommandsSent, IdMessage
    <3> QED
      BY <3>1, <3>3, <1>2, CommandsAlone
  <2>2. CASE sock[p] \notin read_fds
    <3>1. up[p] # <<>> /\ Head(up[p]) = IdMessage
      BY <2>2, <1>1 DEF NInv, IdFirst
    <3>2. /\ Append(up[p], cmd) # <<>>
          /\ Head(Append(up[p], cmd)) = Head(up[p])
          /\ Tail(Append(up[p], cmd)) = Append(Tail(up[p]), cmd)
      BY <3>1, <1>2
    <3> QED
      BY <3>1, <3>2, <1>2 DEF CommandsSent, IdMessage
  <2> QED
    BY <2>1, <2>2
<1>5. Sent' = [Sent EXCEPT ![p] = Append(@, cmd)]
  BY <1>3, <1>4 DEF Sent
<1>6. \A c \in Clients : Holders'[c] = Holders[c]
  BY <1>1, VarsAreTables, HolderKept
<1>7. Holders' = Holders
  BY <1>6 DEF Holders
<1> QED
  BY <1>1, <1>5, <1>7, VarsAreTables DEF Sent, Sessions!Send

\* Taking up an id attaches the process that sent it.
LEMMA TakingUpIsAttach ==
    ASSUME NInv, NInv', NEW p \in Procs, IdReceived(p), ServeId(p),
           client_sockfds[IdOf[p]] \notin Sockets, Register(IdOf[p], sock[p]),
           UNCHANGED <<sock, client_topics, saved_ids>>
    PROVE  Sessions!Attach(p)
<1> DEFINE id == IdOf[p]
<1>1. sock[p] \in Sockets \ read_fds /\ id \in Clients /\ Head(up[p]) = IdMessage
  BY IdReceivedFrom, DescriptorKinds
<1>2. /\ client_sockfds'[id] = sock[p]
      /\ \A c \in Clients \ {id} : client_sockfds'[c] = client_sockfds[c]
  BY <1>1 DEF Register, NInv, IInv, TypeOK
<1>3. /\ up'[p] = <<>>
      /\ \A q \in Procs \ {p} : up'[q] = up[q]
  BY DEF ServeId, NInv, NTypeOK
<1> HIDE DEF id
<1>4. Holders[id] = NoProc
  BY <1>1, NobodyHolds DEF id
<1>5. Holders'[id] = p
  BY <1>1, <1>2, NextHolder
<1>6. \A c \in Clients \ {id} : Holders'[c] = Holders[c]
  BY <1>2, HolderKept
<1>7. Holders' = [Holders EXCEPT ![id] = p]
  BY <1>1, <1>5, <1>6 DEF Holders
<1>8. Sent' = [Sent EXCEPT ![p] = <<>>]
  <2>1. CommandsSent(p)' = <<>>
    BY <1>3 DEF CommandsSent
  <2>2. \A q \in Procs \ {p} : CommandsSent(q)' = CommandsSent(q)
    BY <1>3 DEF CommandsSent, IdMessage
  <2> QED
    BY <2>1, <2>2 DEF Sent
<1>9. <<>> \in Sessions!Remainders(Sent[p])
  BY CommandsSentType, NothingRemains DEF Sent
<1>10. \E rest \in Sessions!Remainders(Sent[p]) : Sent' = [Sent EXCEPT ![p] = rest]
  BY <1>8, <1>9
<1> QED
  BY <1>4, <1>7, <1>10 DEF Sent, Sessions!Attach, id

LEMMA NewIdIsAttach ==
    ASSUME NInv, NInv', NEW p \in Procs, HandleNewId(p)
    PROVE  Sessions!Attach(p)
<1>1. /\ IdReceived(p) /\ ServeId(p)
      /\ client_sockfds[IdOf[p]] = Absent /\ Register(IdOf[p], sock[p])
      /\ UNCHANGED <<sock, client_topics, saved_ids>>
  BY DEF HandleNewId, ConnectNew, subscriptions
<1>2. Absent \notin Sockets
  BY StoreForwardAssumption
<1> QED
  BY <1>1, <1>2, TakingUpIsAttach

LEMMA KnownIdIsAttach ==
    ASSUME NInv, NInv', NEW p \in Procs, HandleKnownId(p)
    PROVE  Sessions!Attach(p)
<1>1. /\ IdReceived(p) /\ ServeId(p)
      /\ client_sockfds[IdOf[p]] = Closed /\ Register(IdOf[p], sock[p])
      /\ UNCHANGED <<sock, client_topics, saved_ids>>
  BY DEF HandleKnownId, Reconnect, subscriptions
<1>2. Closed \notin Sockets
  BY StoreForwardAssumption
<1> QED
  BY <1>1, <1>2, TakingUpIsAttach

\* Turning a duplicate away drops what it has sent, and leaves the holder.
LEMMA DuplicateIsDrop ==
    ASSUME NInv, NInv', NEW p \in Procs, HandleDuplicateId(p)
    PROVE  Sessions!Drop(p)
<1>1. IdReceived(p) /\ ServeId(p) /\ CloseConnection(p) /\ UNCHANGED vars
  BY DEF HandleDuplicateId, ConnectDuplicate
<1>2. sock[p] \notin read_fds /\ IdOf[p] \in Clients
  BY <1>1, IdReceivedFrom, DescriptorKinds
<1>3. /\ up'[p] = <<>>
      /\ \A q \in Procs \ {p} : up'[q] = up[q] /\ sock'[q] = sock[q]
  BY <1>1 DEF ServeId, CloseConnection, NInv, NTypeOK
<1>4. Holders[IdOf[p]] # p
  BY <1>2, HolderOwns, NobodyHolds, DescriptorKinds
<1>5. \A c \in Clients : Holders'[c] = Holders[c]
  BY <1>1, <1>2, <1>3, VarsAreTables, HolderKept
<1>6. Holders' = Holders
  BY <1>5 DEF Holders
<1>7. Sent' = [Sent EXCEPT ![p] = <<>>]
  <2>1. CommandsSent(p)' = <<>>
    BY <1>3 DEF CommandsSent
  <2>2. \A q \in Procs \ {p} : CommandsSent(q)' = CommandsSent(q)
    BY <1>3 DEF CommandsSent, IdMessage
  <2> QED
    BY <2>1, <2>2 DEF Sent
<1> QED
  BY <1>1, <1>4, <1>6, <1>7, VarsAreTables DEF Sent, Sessions!Drop

\* The process a watched descriptor belongs to holds the id served on it.
LEMMA ServedHolder ==
    ASSUME NInv, NEW s \in read_fds
    PROVE  /\ client_ids[s] = IdOf[ProcAt(s)]
           /\ client_sockfds[IdOf[ProcAt(s)]] = s
           /\ IdOf[ProcAt(s)] \in Clients
           /\ Holders[IdOf[ProcAt(s)]] = ProcAt(s)
<1>1. client_ids[s] = IdOf[ProcAt(s)] /\ s \in Sockets
  BY WatchedProc
<1>2. client_sockfds[client_ids[s]] = s /\ client_ids[s] \in Clients
  BY DEF NInv, IInv, SocketTablesAgree
<1> QED
  BY <1>1, <1>2 DEF Holders

LEMMA CommandIsApply ==
    ASSUME NInv, NInv', NEW s \in Sockets, HandleCommand(s)
    PROVE  \E p \in Procs : Sessions!Apply(p)
<1>1. PICK p \in Procs : p = ProcAt(s)
  BY Scanned DEF HandleCommand
<1> DEFINE cmd == Head(up[p])
           id == IdOf[p]
<1>2. /\ Scanning(s)
      /\ up[p] # <<>>
      /\ IF cmd.type = "subscribe" THEN Subscribe(s, cmd.topic, cmd.sf)
                                   ELSE Unsubscribe(s, cmd.topic)
      /\ up' = [up EXCEPT ![p] = <<>>]
      /\ UNCHANGED sock
  BY <1>1 DEF HandleCommand, CommandRead
<1>3. up[p] \in Seq(Commands) /\ s \in read_fds
  BY <1>1, <1>2, Scanned
<1>4. client_ids[s] = id /\ Holders[id] = p
  BY <1>1, <1>3, ServedHolder
<1>5. cmd \in Commands
  BY <1>2, <1>3
<1>6. CommandsSent(p) = up[p]
  BY <1>3, CommandsAlone
<1>7. /\ up'[p] = <<>>
      /\ \A q \in Procs \ {p} : up'[q] = up[q]
  BY <1>2 DEF NInv, NTypeOK
<1>8. UNCHANGED client_sockfds
  BY <1>2 DEF Subscribe, Unsubscribe, tables
<1>9. Holders' = Holders
  <2>1. \A c \in Clients : Holders'[c] = Holders[c]
    BY <1>2, <1>8, HolderKept
  <2> QED
    BY <2>1 DEF Holders
<1>10. Sent' = [Sent EXCEPT ![p] = <<>>]
  <2>1. CommandsSent(p)' = <<>>
    BY <1>7 DEF CommandsSent
  <2>2. \A q \in Procs \ {p} : CommandsSent(q)' = CommandsSent(q)
    BY <1>7 DEF CommandsSent, IdMessage
  <2> QED
    BY <2>1, <2>2 DEF Sent
<1>11. \E rest \in Sessions!Remainders(Tail(Sent[p])) : Sent' = [Sent EXCEPT ![p] = rest]
  <2>1. Tail(Sent[p]) \in Seq(Commands)
    BY <1>2, <1>3, <1>6 DEF Sent
  <2> QED
    BY <2>1, <1>10, NothingRemains
<1>12. Head(Sent[p]) = cmd /\ Sent[p] # <<>>
  BY <1>2, <1>6 DEF Sent
<1> HIDE DEF cmd, id
<1>13. \/ /\ cmd.type = "subscribe"
          /\ client_topics' = [client_topics EXCEPT ![id] = @ \cup {cmd.topic}]
          /\ saved_ids' = [saved_ids EXCEPT ![id] = IF cmd.sf = 1
                                                    THEN @ \cup {cmd.topic}
                                                    ELSE @ \ {cmd.topic}]
       \/ /\ cmd.type = "unsubscribe"
          /\ client_topics' = [client_topics EXCEPT ![id] = @ \ {cmd.topic}]
          /\ saved_ids' = [saved_ids EXCEPT ![id] = @ \ {cmd.topic}]
  <2>1. cmd.type \in {"subscribe", "unsubscribe"}
    BY <1>5 DEF Commands
  <2> QED
    BY <2>1, <1>2, <1>4 DEF Subscribe, Unsubscribe
<1>14. Sessions!Apply(p)
  BY <1>4, <1>9, <1>11, <1>12, <1>13 DEF Sent, Sessions!Apply, id
<1> QED
  BY <1>14

LEMMA EofIsDetach ==
    ASSUME NInv, NInv', NEW s \in Sockets, HandleEof(s)
    PROVE  (\E p \in Procs : Sessions!Detach(p)) \/ UNCHANGED sessionVars
<1>1. PICK p \in Procs : p = ProcAt(s)
  BY Scanned DEF HandleEof
<1>2. Scanning(s) /\ up[p] = <<>>
  BY <1>1 DEF HandleEof
<1>3. s \in read_fds /\ sock[p] = s
  BY <1>1, <1>2, Scanned
<1> DEFINE id == IdOf[p]
<1>4. client_ids[s] = id /\ Holders[id] = p /\ id \in Clients /\ client_sockfds[id] = s
  BY <1>1, <1>3, ServedHolder
<1>5. CASE peer[p] = "reset"
  <2>1. UNCHANGED <<vars, sock, up>>
    BY <1>1, <1>5 DEF HandleEof, Die, kernel
  <2>2. \A q \in Procs : CommandsSent(q)' = CommandsSent(q)
    BY <2>1 DEF CommandsSent
  <2> QED
    BY <2>1, <2>2, VarsAreTables, HiddenStep
<1>6. CASE peer[p] # "reset"
  <2>1. Disconnect(s) /\ CloseConnection(p) /\ UNCHANGED up
    BY <1>1, <1>6 DEF HandleEof
  <2>2. /\ client_sockfds' = [client_sockfds EXCEPT ![id] = Closed]
        /\ UNCHANGED <<client_topics, saved_ids>>
    BY <1>4, <2>1 DEF Disconnect, subscriptions
  <2> HIDE DEF id
  <2>3. /\ client_sockfds'[id] = Closed
        /\ \A c \in Clients \ {id} : client_sockfds'[c] = client_sockfds[c]
    BY <1>4, <2>2 DEF NInv, IInv, TypeOK
  <2>4. \A q \in Procs \ {p} : sock'[q] = sock[q]
    BY <2>1 DEF CloseConnection, NInv, NTypeOK
  <2>5. Holders'[id] = NoProc
    BY <1>4, <2>3, NobodyHoldsNext, StoreForwardAssumption
  <2>6. \A c \in Clients \ {id} : Holders'[c] = Holders[c]
    BY <2>3, <2>4, HolderKept DEF id
  <2>7. Holders' = [Holders EXCEPT ![id] = NoProc]
    BY <1>4, <2>5, <2>6 DEF Holders
  <2>8. Sent' = [Sent EXCEPT ![p] = <<>>]
    <3>1. CommandsSent(p) = <<>>
      BY <1>2 DEF CommandsSent
    <3>2. \A q \in Procs : CommandsSent(q)' = CommandsSent(q)
      BY <2>1 DEF CommandsSent
    <3> QED
      BY <3>1, <3>2 DEF Sent
  <2>9. Sessions!Detach(p)
    BY <1>4, <2>2, <2>7, <2>8 DEF Sent, Sessions!Detach, id
  <2> QED
    BY <2>9
<1> QED
  BY <1>5, <1>6

\* The other steps neither send nor take a command, nor touch an id.
LEMMA OtherStepsHidden ==
    ASSUME NInv, NInv', UNCHANGED <<client_sockfds, client_topics, saved_ids, up>>,
           \A p \in Procs : sock[p] \in read_fds => sock'[p] = sock[p]
    PROVE  UNCHANGED sessionVars
<1>1. \A q \in Procs : CommandsSent(q)' = CommandsSent(q)
  BY DEF CommandsSent
<1> QED
  BY <1>1, HiddenStep

LEMMA AcceptHidden ==
    ASSUME NInv, NInv', HandleAccept
    PROVE  UNCHANGED sessionVars
<1>1. TcpFd \in tmp_fds /\ UNCHANGED <<vars, up>>
  BY DEF HandleAccept, Scanning, Die, kernel
<1>2. backlog # <<>> /\ backlog \in Seq(Procs)
  BY <1>1 DEF NInv, ReportsHold, NTypeOK
<1>3. sock[Head(backlog)] = NoSock
  BY <1>2 DEF NInv, BacklogOnce
<1>4. NoSock \notin read_fds
  BY DescriptorKinds DEF NInv, IInv, TypeOK
<1>5. \A p \in Procs : sock[p] \in read_fds => sock'[p] = sock[p]
  BY <1>3, <1>4 DEF HandleAccept, Die, kernel, NInv, NTypeOK
<1> QED
  BY <1>1, <1>5, VarsAreTables, OtherStepsHidden

\* Every step of the server and its subscribers is a step of
\* SubscriberSessions or changes nothing it speaks of.
LEMMA StepsAreSessionSteps ==
    ASSUME NInv, NInv', [NNext]_nvars
    PROVE  [Sessions!Next]_sessionVars
<1> USE VarsAreTables, OtherStepsHidden
<1>1. CASE Select \/ ServerExit
  BY <1>1 DEF Select, ServerExit, kernel
<1>2. CASE HandleUdp
  <2>1. UNCHANGED <<client_sockfds, client_topics, saved_ids, up, sock>>
    BY <1>2 DEF HandleUdp, PublishUdp, Die, vars, tables, subscriptions, kernel
  <2> QED
    BY <2>1
<1>3. CASE HandleAccept
  BY <1>3, AcceptHidden
<1>4. ASSUME NEW p \in Procs, HandleNewId(p) \/ HandleKnownId(p) PROVE Sessions!Next
  BY <1>4, NewIdIsAttach, KnownIdIsAttach DEF Sessions!Next
<1>5. ASSUME NEW p \in Procs, HandleDuplicateId(p) PROVE Sessions!Next
  BY <1>5, DuplicateIsDrop DEF Sessions!Next
<1>6. ASSUME NEW p \in Procs, DieResending(p) PROVE UNCHANGED sessionVars
  BY <1>6 DEF DieResending, Die, kernel
<1>7. ASSUME NEW s \in Sockets, HandleCommand(s) PROVE Sessions!Next
  BY <1>7, CommandIsApply DEF Sessions!Next
<1>8. ASSUME NEW s \in Sockets, HandleEof(s) PROVE [Sessions!Next]_sessionVars
  BY <1>8, EofIsDetach DEF Sessions!Next
<1>9. ASSUME NEW p \in Procs, SubConnect(p) \/ SubReceive(p) \/ SubExit(p) \/ SubEof(p)
      PROVE  UNCHANGED sessionVars
  BY <1>9 DEF SubConnect, SubReceive, SubExit, SubEof, kernel
<1>10. ASSUME NEW p \in Procs, SubSendId(p) PROVE UNCHANGED sessionVars
  BY <1>10, SendIdHidden
<1>11. ASSUME NEW p \in Procs, NEW cmd \in Commands, SubCommand(p, cmd) PROVE Sessions!Next
  <2>1. cmd \in Sessions!Commands
    BY DEF Commands, Sessions!Commands
  <2> QED
    BY <2>1, <1>11, CommandIsSend DEF Sessions!Next
<1>12. ASSUME NEW t \in Topics, UdpArrives(t) PROVE UNCHANGED sessionVars
  BY <1>12 DEF UdpArrives
<1>13. CASE UNCHANGED nvars
  BY <1>13 DEF nvars, kernel
<1> QED
  BY <1>1, <1>2, <1>3, <1>4, <1>5, <1>6, <1>7, <1>8, <1>9, <1>10, <1>11, <1>12, <1>13
     DEF NNext, ServerStep

\* The notification server implements SubscriberSessions: with any number of
\* processes that share ids, and however the loop, the kernel's queues and
\* the reuse of descriptors interleave, an id has one holder, and only the
\* holder's own commands, in their order, change its subscriptions.
THEOREM SessionsImplemented == NSpec => SessionsKept
<1>1. NInit => Sessions!Init
  <2> SUFFICES ASSUME NInit PROVE Sessions!Init
    OBVIOUS
  <2>1. /\ client_sockfds = [c \in Clients |-> Absent]
        /\ client_topics = [c \in Clients |-> {}]
        /\ saved_ids = [c \in Clients |-> {}]
        /\ up = [p \in Procs |-> <<>>]
    BY DEF NInit, Init
  <2>2. Holders = [c \in Clients |-> NoProc]
    BY <2>1, StoreForwardAssumption DEF Holders
  <2>3. Sent = [p \in Procs |-> <<>>]
    BY <2>1 DEF Sent, CommandsSent
  <2> QED
    BY <2>1, <2>2, <2>3 DEF Sent, Sessions!Init
<1>2. NInv /\ NInv' /\ [NNext]_nvars =>
        [Sessions!Next]_<<Holders, client_topics, saved_ids, [p \in Procs |-> CommandsSent(p)]>>
  BY StepsAreSessionSteps DEF sessionVars, Sent
<1> QED
  BY <1>1, <1>2, NotificationInvariant, PTL DEF NSpec, SessionsKept, Sessions!Spec
=============================================================================
