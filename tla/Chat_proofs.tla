---------------------------- MODULE Chat_proofs ----------------------------
(* The tables of the chat server, for any processes, nicknames, descriptors *)
(* and numbers.                                                             *)
EXTENDS Chat, WellFoundedInduction, TLAPS

(***************************************************************************)
(* The inductive invariant                                                 *)
(***************************************************************************)

TableTypes ==
    /\ read_fds \subseteq Sockets
    /\ user_sock \in [Names -> Sockets \cup {Stdin, Inactive, Absent}]
    /\ sock_user \in [Sockets -> Nicks \cup {NoName}]
    /\ id_user \in Seq(Names)
    /\ backlog \in Seq(Procs)
    /\ sock \in [Procs -> Sockets \cup {NoSock}]
    /\ nick \in [Procs -> Nicks \cup {NoName}]
    /\ stage \in [Procs -> {"none", "connecting", "running", "gone"}]

\* A process has at most one connection, queued once or accepted, and has a
\* nickname as long as it has one.
ConnectionsOnce ==
    /\ \A i, j \in DOMAIN backlog : backlog[i] = backlog[j] => i = j
    /\ \A i \in DOMAIN backlog : sock[backlog[i]] = NoSock
    /\ \A i \in DOMAIN backlog : stage[backlog[i]] # "none" /\ nick[backlog[i]] \in Nicks
    /\ \A p \in Procs : sock[p] # NoSock => stage[p] # "none" /\ nick[p] \in Nicks
    /\ \A p, q \in Procs : sock[p] = sock[q] => p = q \/ sock[p] = NoSock

\* Each descriptor that is watched belongs to a process; one that is not, or
\* whose process has not sent its nickname, has no name.
DescriptorsOwned ==
    /\ read_fds = {sock[p] : p \in Procs} \ {NoSock}
    /\ \A s \in Sockets \ read_fds : sock_user[s] = NoName
    /\ server = "nickname" => /\ accepting \in Procs
                              /\ sock[accepting] \in read_fds
                              /\ sock_user[sock[accepting]] = NoName

\* A name with a number or a descriptor is known.
NamesKnown ==
    /\ \A k \in DOMAIN id_user : IsKnown(id_user[k])
    /\ \A s \in Sockets : sock_user[s] # NoName => IsKnown(sock_user[s])

CInv == /\ TableTypes
        /\ ConnectionsOnce
        /\ DescriptorsOwned
        /\ SocketsAgree
        /\ NamesKnown
        /\ OneNumberEach

(***************************************************************************)
(* Lemmas                                                                  *)
(***************************************************************************)

\* The constants 0, -1 and -2 are no descriptors.
LEMMA NoDescriptors ==
    /\ Stdin \notin Sockets /\ Inactive \notin Sockets /\ Absent \notin Sockets
    /\ NoSock \notin Sockets
    /\ NoName \notin Names
    /\ Stdin # Absent
    /\ Inactive # Absent
  <1>1. Sockets \subseteq Nat \ 0..sockfd /\ NoSock \notin Int
    BY ChatAssumption
  <1>2. Stdin \notin Sockets /\ Inactive \notin Sockets /\ Absent \notin Sockets
    BY <1>1 DEF Stdin, Inactive, Absent, sockfd
  <1>3. NoSock \notin Sockets
    <2>1. \A n \in Nat : n \in Int
      OBVIOUS
    <2> QED
      BY <1>1, <2>1
  <1>4. Stdin # Absent /\ Inactive # Absent
    BY DEF Stdin, Inactive, Absent
  <1> QED
    BY <1>2, <1>3, <1>4, ChatAssumption

LEMMA LeastNatural ==
    ASSUME NEW S, S \subseteq Nat, S # {}
    PROVE  \E x \in S : \A y \in S : x <= y
  <1>1. PICK x \in S : \A y \in S : ~ (<<y, x>> \in OpToRel(<, Nat))
    BY NatLessThanWellFounded, WFMin
  <1>2. \A y \in S : ~ (y < x)
    BY <1>1 DEF OpToRel
  <1> QED
    BY <1>2

\* There is nobody at the start.
LEMMA InitCInv == Init => CInv
  <1> SUFFICES ASSUME Init PROVE CInv
    OBVIOUS
  <1>1. TableTypes
    BY DEF Init, TableTypes
  <1>2. DOMAIN backlog = {} /\ DOMAIN id_user = {}
    BY DEF Init
  <1>3. ConnectionsOnce
    BY <1>2 DEF Init, ConnectionsOnce
  <1>4. DescriptorsOwned
    BY DEF Init, DescriptorsOwned
  <1>5. SocketsAgree
    BY NoDescriptors DEF Init, SocketsAgree
  <1>6. NamesKnown /\ OneNumberEach
    BY <1>2 DEF Init, NamesKnown, OneNumberEach, IsKnown
  <1> QED
    BY <1>1, <1>3, <1>4, <1>5, <1>6 DEF CInv

\* Nobody is left at the end.
LEMMA StopStep ==
    ASSUME NEW how \in {"exited", "died"}, Stop(how)
    PROVE  CInv'
  <1>1. /\ read_fds' = {}
        /\ user_sock' = [n \in Names |-> Absent]
        /\ sock_user' = [s \in Sockets |-> NoName]
        /\ id_user' = <<>>
        /\ backlog' = <<>>
        /\ sock' = [p \in Procs |-> NoSock]
        /\ nick' = [p \in Procs |-> NoName]
        /\ stage' \in [Procs -> {"none", "gone"}]
        /\ server' # "nickname"
    BY DEF Stop
  <1>2. DOMAIN backlog' = {} /\ DOMAIN id_user' = {}
    BY <1>1
  <1>3. TableTypes'
    BY <1>1 DEF TableTypes
  <1>4. ConnectionsOnce'
    BY <1>1, <1>2 DEF ConnectionsOnce
  <1>5. DescriptorsOwned'
    BY <1>1 DEF DescriptorsOwned
  <1>6. SocketsAgree'
    BY <1>1, NoDescriptors DEF SocketsAgree
  <1>7. NamesKnown' /\ OneNumberEach'
    BY <1>1, <1>2 DEF NamesKnown, OneNumberEach, IsKnown
  <1> QED
    BY <1>3, <1>4, <1>5, <1>6, <1>7 DEF CInv

\* A step that changes none of the tables preserves all that is said of them.
LEMMA TablesKept ==
    ASSUME CInv,
           UNCHANGED <<tables, backlog, sock, nick>>,
           stage' \in [Procs -> {"none", "connecting", "running", "gone"}],
           \A p \in Procs : stage[p] # "none" => stage'[p] # "none",
           UNCHANGED loop
    PROVE  CInv'
  <1>1. UNCHANGED <<read_fds, user_sock, sock_user, id_user, backlog, sock, nick, server, accepting>>
    BY DEF tables, loop
  <1>2. TableTypes'
    BY <1>1 DEF CInv, TableTypes
  <1>3. \A i \in DOMAIN backlog : backlog[i] \in Procs
    BY DEF CInv, TableTypes
  <1>4. ConnectionsOnce'
    BY <1>1, <1>3 DEF CInv, ConnectionsOnce
  <1>5. DescriptorsOwned' /\ SocketsAgree'
    BY <1>1 DEF CInv, DescriptorsOwned, SocketsAgree
  <1>6. NamesKnown' /\ OneNumberEach'
    BY <1>1 DEF CInv, NamesKnown, OneNumberEach, IsKnown
  <1> QED
    BY <1>2, <1>4, <1>5, <1>6 DEF CInv

(***************************************************************************)
(* One lemma for each operation that changes a table                       *)
(***************************************************************************)

\* A process that has no connection joins the queue.
LEMMA ConnectStep ==
    ASSUME CInv, NEW p \in Procs, Connect(p)
    PROVE  CInv'
  <1>1. PICK n \in Nicks : nick' = [nick EXCEPT ![p] = n]
    BY DEF Connect
  <1>2. /\ UNCHANGED <<read_fds, user_sock, sock_user, id_user, sock, server, accepting>>
        /\ stage[p] = "none"
        /\ stage' = [stage EXCEPT ![p] = "connecting"]
        /\ backlog' = Append(backlog, p)
    BY DEF Connect, tables, loop
  <1>3. sock[p] = NoSock /\ \A i \in DOMAIN backlog : backlog[i] # p
    BY <1>2 DEF CInv, ConnectionsOnce
  <1>4. /\ Len(backlog) \in Nat /\ DOMAIN backlog = 1..Len(backlog)
        /\ \A i \in DOMAIN backlog : backlog[i] \in Procs
    BY DEF CInv, TableTypes
  <1>5. /\ DOMAIN backlog' = 1..(Len(backlog) + 1)
        /\ backlog'[Len(backlog) + 1] = p
        /\ \A i \in DOMAIN backlog : backlog'[i] = backlog[i]
    BY <1>2, <1>4 DEF CInv, TableTypes
  <1>6. \A i \in DOMAIN backlog' : i \in DOMAIN backlog \/ i = Len(backlog) + 1
    BY <1>4, <1>5
  <1>7. TableTypes'
    BY <1>1, <1>2 DEF CInv, TableTypes
  <1>8. ConnectionsOnce'
    <2>1. \A q \in Procs \ {p} : stage'[q] = stage[q] /\ nick'[q] = nick[q]
      BY <1>1, <1>2 DEF CInv, TableTypes
    <2>2. stage'[p] = "connecting" /\ nick'[p] = n
      BY <1>1, <1>2 DEF CInv, TableTypes
    <2>3. \A i, j \in DOMAIN backlog' : backlog'[i] = backlog'[j] => i = j
      BY <1>3, <1>5, <1>6 DEF CInv, ConnectionsOnce
    <2>4. \A i \in DOMAIN backlog' :
            sock'[backlog'[i]] = NoSock /\ stage'[backlog'[i]] # "none" /\ nick'[backlog'[i]] \in Nicks
      BY <1>2, <1>3, <1>4, <1>5, <1>6, <2>1, <2>2 DEF CInv, ConnectionsOnce
    <2>5. \A q \in Procs : sock'[q] # NoSock => stage'[q] # "none" /\ nick'[q] \in Nicks
      BY <1>2, <2>1, <2>2 DEF CInv, ConnectionsOnce
    <2>6. \A q, r \in Procs : sock'[q] = sock'[r] => q = r \/ sock'[q] = NoSock
      BY <1>2 DEF CInv, ConnectionsOnce
    <2> QED
      BY <2>3, <2>4, <2>5, <2>6 DEF ConnectionsOnce
  <1>9. DescriptorsOwned' /\ SocketsAgree'
    BY <1>2 DEF CInv, DescriptorsOwned, SocketsAgree
  <1>10. NamesKnown' /\ OneNumberEach'
    BY <1>2 DEF CInv, NamesKnown, OneNumberEach, IsKnown
  <1> QED
    BY <1>7, <1>8, <1>9, <1>10 DEF CInv

\* accept() gives the first of the queue a descriptor that nobody has.
LEMMA AcceptStep ==
    ASSUME CInv, Accept
    PROVE  CInv'
  <1> DEFINE free == Sockets \ {sock[q] : q \in Procs}
             p == Head(backlog)
             s == Min(free)
  <1>1. CASE free = {}
    BY <1>1, StopStep DEF Accept, Die
  <1>2. CASE free # {}
    <2>1. /\ sock' = [sock EXCEPT ![p] = s]
          /\ read_fds' = read_fds \cup {s}
          /\ backlog # <<>>
          /\ backlog' = Tail(backlog)
          /\ accepting' = p
          /\ server' = "nickname"
          /\ UNCHANGED <<user_sock, sock_user, id_user, nick, stage>>
      BY <1>2 DEF Accept, Watch, clients
    <2>2. s \in free
      <3>1. free \subseteq Nat
        BY ChatAssumption
      <3>2. PICK x \in free : \A y \in free : x <= y
        BY <1>2, <3>1, LeastNatural
      <3> QED
        BY <3>1, <3>2 DEF Min
    <2>3. s \in Sockets /\ \A q \in Procs : sock[q] # s
      BY <2>2
    <2> HIDE DEF s
    <2>4. s # NoSock /\ s \notin read_fds
      BY <2>3, NoDescriptors DEF CInv, DescriptorsOwned
    <2>5. /\ Len(backlog) \in Nat \ {0} /\ DOMAIN backlog = 1..Len(backlog)
          /\ \A i \in DOMAIN backlog : backlog[i] \in Procs
          /\ 1 \in DOMAIN backlog /\ p = backlog[1]
      BY <2>1 DEF CInv, TableTypes
    <2>6. /\ DOMAIN backlog' = 1..(Len(backlog) - 1)
          /\ \A i \in DOMAIN backlog' : backlog'[i] = backlog[i + 1] /\ i + 1 \in DOMAIN backlog
          /\ backlog' \in Seq(Procs)
      BY <2>1, <2>5 DEF CInv, TableTypes
    <2>7. p \in Procs /\ sock[p] = NoSock /\ stage[p] # "none" /\ nick[p] \in Nicks
      BY <2>5 DEF CInv, ConnectionsOnce
    <2> HIDE DEF p
    <2>8. sock'[p] = s /\ \A q \in Procs \ {p} : sock'[q] = sock[q]
      BY <2>1, <2>7 DEF CInv, TableTypes
    <2>9. TableTypes'
      BY <2>1, <2>3, <2>6 DEF CInv, TableTypes
    <2>10. ConnectionsOnce'
      <3>1. \A i, j \in DOMAIN backlog' : backlog'[i] = backlog'[j] => i = j
        <4> SUFFICES ASSUME NEW i \in DOMAIN backlog', NEW j \in DOMAIN backlog', backlog'[i] = backlog'[j]
                     PROVE  i = j
          OBVIOUS
        <4>1. i + 1 = j + 1
          BY <2>6 DEF CInv, ConnectionsOnce
        <4> QED
          BY <2>5, <2>6, <4>1
      <3>2. \A i \in DOMAIN backlog' : backlog'[i] # p
        <4> SUFFICES ASSUME NEW i \in DOMAIN backlog', backlog'[i] = p PROVE FALSE
          OBVIOUS
        <4>1. i + 1 = 1
          BY <2>5, <2>6 DEF CInv, ConnectionsOnce
        <4> QED
          BY <2>5, <2>6, <4>1
      <3>3. \A i \in DOMAIN backlog' : sock'[backlog'[i]] = NoSock
        BY <2>5, <2>6, <2>8, <3>2 DEF CInv, ConnectionsOnce
      <3>4. \A i \in DOMAIN backlog' : stage'[backlog'[i]] # "none" /\ nick'[backlog'[i]] \in Nicks
        BY <2>1, <2>6 DEF CInv, ConnectionsOnce
      <3>5. \A q \in Procs : sock'[q] # NoSock => stage'[q] # "none" /\ nick'[q] \in Nicks
        BY <2>1, <2>7, <2>8 DEF CInv, ConnectionsOnce
      <3>6. \A q, r \in Procs : sock'[q] = sock'[r] => q = r \/ sock'[q] = NoSock
        BY <2>3, <2>8 DEF CInv, ConnectionsOnce
      <3> QED
        BY <3>1, <3>3, <3>4, <3>5, <3>6 DEF ConnectionsOnce
    <2>11. DescriptorsOwned'
      <3>1. {sock'[q] : q \in Procs} = ({sock[q] : q \in Procs} \ {NoSock}) \cup {s} \cup ({sock'[q] : q \in Procs} \cap {NoSock})
        BY <2>3, <2>7, <2>8
      <3>2. read_fds' = {sock'[q] : q \in Procs} \ {NoSock}
        BY <2>1, <2>4, <3>1 DEF CInv, DescriptorsOwned
      <3>3. \A r \in Sockets \ read_fds' : sock_user'[r] = NoName
        BY <2>1 DEF CInv, DescriptorsOwned
      <3>4. sock_user'[s] = NoName
        BY <2>1, <2>3, <2>4 DEF CInv, DescriptorsOwned
      <3> QED
        BY <2>1, <2>7, <2>8, <3>2, <3>3, <3>4 DEF DescriptorsOwned
    <2>12. SocketsAgree'
      BY <2>1 DEF CInv, SocketsAgree
    <2>13. NamesKnown' /\ OneNumberEach'
      BY <2>1 DEF CInv, NamesKnown, OneNumberEach, IsKnown
    <2> QED
      BY <2>9, <2>10, <2>11, <2>12, <2>13 DEF CInv
  <1> QED
    BY <1>1, <1>2

\* A descriptor without a name gets one, whether the name is a new one or was
\* that of another connection.
LEMMA ReceiveNicknameStep ==
    ASSUME CInv, NEW p \in Procs, ReceiveNickname(p)
    PROVE  CInv'
  <1> DEFINE s == sock[p]
             name == nick[p]
  <1>1. /\ server = "nickname" /\ server' = "select"
        /\ p = accepting
        /\ user_sock' = [user_sock EXCEPT ![name] = s]
        /\ sock_user' = [sock_user EXCEPT ![s] = name]
        /\ id_user' = IF IsKnown(name) THEN id_user ELSE Append(id_user, name)
        /\ UNCHANGED <<read_fds, backlog, sock, nick, stage>>
    BY DEF ReceiveNickname, Enter, NameSocket, clients
  <1>2. s \in read_fds /\ s \in Sockets /\ sock_user[s] = NoName
    BY <1>1 DEF CInv, DescriptorsOwned, TableTypes
  <1>3. name \in Nicks /\ name \in Names
    BY <1>2, NoDescriptors DEF CInv, ConnectionsOnce, Names
  <1> HIDE DEF s, name
  <1>4. /\ user_sock'[name] = s
        /\ \A n \in Names \ {name} : user_sock'[n] = user_sock[n]
        /\ sock_user'[s] = name
        /\ \A r \in Sockets \ {s} : sock_user'[r] = sock_user[r]
    BY <1>1, <1>2, <1>3 DEF CInv, TableTypes
  <1>5. \A n \in Names : IsKnown(n)' <=> n = name \/ IsKnown(n)
    BY <1>2, <1>4, NoDescriptors DEF IsKnown
  <1>6. /\ Len(id_user) \in Nat /\ DOMAIN id_user = 1..Len(id_user)
        /\ \A k \in DOMAIN id_user : id_user[k] \in Names
    BY DEF CInv, TableTypes
  <1>7. TableTypes'
    <2>1. user_sock' \in [Names -> Sockets \cup {Stdin, Inactive, Absent}]
      BY <1>1, <1>2, <1>3 DEF CInv, TableTypes
    <2>2. sock_user' \in [Sockets -> Nicks \cup {NoName}]
      BY <1>1, <1>2, <1>3 DEF CInv, TableTypes
    <2>3. id_user' \in Seq(Names)
      BY <1>1, <1>3 DEF CInv, TableTypes
    <2> QED
      BY <1>1, <2>1, <2>2, <2>3 DEF CInv, TableTypes
  <1>8. ConnectionsOnce'
    BY <1>1 DEF CInv, ConnectionsOnce
  <1>9. DescriptorsOwned'
    BY <1>1, <1>2, <1>4 DEF CInv, DescriptorsOwned
  <1>10. SocketsAgree'
    <2> SUFFICES ASSUME NEW n \in Names, user_sock'[n] \in Sockets
                 PROVE  user_sock'[n] \in read_fds' /\ sock_user'[user_sock'[n]] = n
      BY DEF SocketsAgree
    <2>1. CASE n = name
      BY <1>1, <1>2, <1>4, <2>1
    <2>2. CASE n # name
      <3>1. user_sock[n] \in read_fds /\ sock_user[user_sock[n]] = n
        BY <1>4, <2>2 DEF CInv, SocketsAgree
      <3>2. user_sock[n] # s
        BY <1>2, <3>1, NoDescriptors
      <3> QED
        BY <1>1, <1>4, <2>2, <3>1, <3>2
    <2> QED
      BY <2>1, <2>2
  <1>11. \A r \in Sockets : sock_user'[r] # NoName => user_sock'[sock_user'[r]] # Absent
    <2> SUFFICES ASSUME NEW r \in Sockets \ {s}, sock_user'[r] # NoName
                 PROVE  user_sock'[sock_user'[r]] # Absent
      BY <1>2, <1>4, NoDescriptors
    <2>1. sock_user[r] \in Names /\ IsKnown(sock_user[r])
      BY <1>4 DEF CInv, TableTypes, NamesKnown, Names
    <2> QED
      BY <1>4, <1>5, <2>1 DEF IsKnown
  <1>12. CASE IsKnown(name)
    <2>1. id_user' = id_user
      BY <1>1, <1>12
    <2>2. NamesKnown'
      BY <1>5, <1>6, <1>11, <2>1 DEF CInv, NamesKnown, IsKnown
    <2>3. OneNumberEach'
      BY <1>5, <1>12, <2>1 DEF CInv, OneNumberEach
    <2> QED
      BY <1>7, <1>8, <1>9, <1>10, <2>2, <2>3 DEF CInv
  <1>13. CASE ~IsKnown(name)
    <2>1. /\ id_user' = Append(id_user, name)
          /\ DOMAIN id_user' = 1..(Len(id_user) + 1)
          /\ id_user'[Len(id_user) + 1] = name
          /\ \A k \in DOMAIN id_user : id_user'[k] = id_user[k] /\ k \in DOMAIN id_user'
          /\ Len(id_user) + 1 \in DOMAIN id_user'
      BY <1>1, <1>6, <1>13 DEF CInv, TableTypes
    <2>2. \A k \in DOMAIN id_user' : k \in DOMAIN id_user \/ k = Len(id_user) + 1
      BY <1>6, <2>1
    <2>3. \A k \in DOMAIN id_user : id_user[k] # name
      BY <1>13 DEF CInv, NamesKnown
    <2>4. NamesKnown'
      BY <1>3, <1>5, <1>6, <1>11, <2>1, <2>2 DEF CInv, NamesKnown, IsKnown
    <2>5. \A i, j \in DOMAIN id_user' : id_user'[i] = id_user'[j] => i = j
      BY <2>1, <2>2, <2>3 DEF CInv, OneNumberEach
    <2>6. ASSUME NEW n \in Names \ {Zero}, IsKnown(n)'
          PROVE  \E k \in DOMAIN id_user' : id_user'[k] = n
      <3>1. CASE n = name
        BY <2>1, <3>1
      <3>2. CASE n # name
        <4>1. PICK k \in DOMAIN id_user : id_user[k] = n
          BY <1>5, <2>6, <3>2 DEF CInv, OneNumberEach
        <4> QED
          BY <2>1, <4>1
      <3> QED
        BY <3>1, <3>2
    <2>7. OneNumberEach'
      BY <2>5, <2>6 DEF OneNumberEach
    <2> QED
      BY <1>7, <1>8, <1>9, <1>10, <2>4, <2>7 DEF CInv
  <1> QED
    BY <1>12, <1>13

\* The name of the descriptor that is closed becomes inactive; if another
\* connection has the name, its descriptor is only in sock_user.
LEMMA HandleExitStep ==
    ASSUME CInv, NEW p \in Procs, HandleExit(p)
    PROVE  CInv'
  <1> DEFINE s == sock[p]
             name == sock_user[s]
  <1>1. CASE peer[p] = "reset"
    BY <1>1, StopStep DEF HandleExit, Die
  <1>2. CASE peer[p] # "reset"
    <2>1. /\ server = "select" /\ server' = server
          /\ s \in read_fds
          /\ user_sock' = [user_sock EXCEPT ![name] = Inactive]
          /\ read_fds' = read_fds \ {s}
          /\ sock' = [sock EXCEPT ![p] = NoSock]
          /\ stage' = [stage EXCEPT ![p] = "none"]
          /\ nick' = [nick EXCEPT ![p] = NoName]
          /\ sock_user' = [sock_user EXCEPT ![s] = NoName]
          /\ UNCHANGED <<id_user, backlog>>
      BY <1>2 DEF HandleExit, MakeInactive, loop
    <2>2. s \in Sockets /\ s # NoSock
      BY <2>1, NoDescriptors DEF CInv, TableTypes
    <2> HIDE DEF s
    <2>3. \A n \in Names : user_sock'[n] = IF n = name THEN Inactive ELSE user_sock[n]
      BY <2>1 DEF CInv, TableTypes
    <2>4. \A r \in Sockets : sock_user'[r] = IF r = s THEN NoName ELSE sock_user[r]
      BY <2>1, <2>2 DEF CInv, TableTypes
    <2>5. \A q \in Procs : /\ sock'[q] = IF q = p THEN NoSock ELSE sock[q]
                           /\ q # p => stage'[q] = stage[q] /\ nick'[q] = nick[q]
      BY <2>1 DEF CInv, TableTypes
    <2>6. TableTypes'
      <3>1. user_sock' \in [Names -> Sockets \cup {Stdin, Inactive, Absent}]
        BY <2>1 DEF CInv, TableTypes
      <3>2. sock_user' \in [Sockets -> Nicks \cup {NoName}]
        BY <2>1 DEF CInv, TableTypes
      <3> QED
        BY <2>1, <3>1, <3>2 DEF CInv, TableTypes
    <2>7. ConnectionsOnce'
      <3>1. \A i \in DOMAIN backlog : backlog[i] \in Procs /\ backlog[i] # p
        BY <2>2 DEF CInv, TableTypes, ConnectionsOnce, s
      <3> QED
        BY <2>1, <2>5, <3>1 DEF CInv, ConnectionsOnce
    <2>8. DescriptorsOwned'
      <3>1. \A q \in Procs \ {p} : sock[q] # s
        BY <2>2 DEF CInv, ConnectionsOnce, s
      <3>2. read_fds' = {sock'[q] : q \in Procs} \ {NoSock}
        BY <2>1, <2>5, <3>1 DEF CInv, DescriptorsOwned, s
      <3> QED
        BY <2>1, <2>4, <3>2 DEF CInv, DescriptorsOwned
    <2>9. SocketsAgree'
      <3> SUFFICES ASSUME NEW n \in Names, user_sock'[n] \in Sockets
                   PROVE  user_sock'[n] \in read_fds' /\ sock_user'[user_sock'[n]] = n
        BY DEF SocketsAgree
      <3>1. n # name /\ user_sock'[n] = user_sock[n]
        BY <2>3, NoDescriptors
      <3>2. user_sock[n] \in read_fds /\ sock_user[user_sock[n]] = n
        BY <3>1 DEF CInv, SocketsAgree
      <3>3. user_sock[n] # s
        BY <3>1, <3>2
      <3> QED
        BY <2>1, <2>4, <3>1, <3>2, <3>3
    <2>10. \A n \in Names : user_sock'[n] # Absent <=> user_sock[n] # Absent
      <3>1. name \in Names => user_sock[name] # Absent
        BY <2>2, NoDescriptors DEF CInv, NamesKnown, IsKnown
      <3>2. \A n \in Names : n # name => user_sock'[n] = user_sock[n]
        BY <2>3
      <3>3. name \in Names => user_sock'[name] # Absent
        BY <2>3, NoDescriptors
      <3> HIDE DEF name
      <3> QED
        BY <3>1, <3>2, <3>3
    <2>11. NamesKnown'
      <3>1. \A k \in DOMAIN id_user : id_user[k] \in Names /\ user_sock[id_user[k]] # Absent
        BY DEF CInv, TableTypes, NamesKnown, IsKnown
      <3>2. \A r \in Sockets \ {s} : sock_user[r] # NoName =>
              sock_user[r] \in Names /\ user_sock[sock_user[r]] # Absent
        BY DEF CInv, TableTypes, NamesKnown, IsKnown, Names
      <3> QED
        BY <2>1, <2>4, <2>10, <3>1, <3>2 DEF NamesKnown, IsKnown
    <2>12. OneNumberEach'
      BY <2>1, <2>10 DEF CInv, OneNumberEach, IsKnown
    <2> QED
      BY <2>6, <2>7, <2>8, <2>9, <2>11, <2>12 DEF CInv
  <1> QED
    BY <1>1, <1>2

\* MSG to a name without an entry makes one for descriptor 0; only "0", which
\* needs no number, can be such a name.
LEMMA HandleMsgStep ==
    ASSUME CInv, NEW p \in Procs, HandleMsg(p)
    PROVE  CInv'
  <1> DEFINE k == Head(up[p]).to
             name == NameOf(k)
             curr_sock == Lookup(name)
  <1>1. CASE Die
    BY <1>1, StopStep DEF Die
  <1>2. CASE ~Die
    <2>1. /\ k \in 0..Len(id_user)
          /\ user_sock' = [user_sock EXCEPT ![name] = curr_sock]
          /\ UNCHANGED <<loop, read_fds, sock_user, id_user, backlog, sock, nick, stage>>
      BY <1>2 DEF HandleMsg
    <2>2. UNCHANGED <<server, accepting, read_fds, sock_user, id_user, backlog, sock, nick, stage>>
      BY <2>1 DEF loop
    <2>3. name \in Names /\ (name = Zero \/ IsKnown(name))
      <3> HIDE DEF k
      <3>1. CASE k = 0
        BY <3>1 DEF NameOf, Names
      <3>2. CASE k # 0
        <4>1. k \in DOMAIN id_user
          BY <2>1, <3>2 DEF CInv, TableTypes
        <4> QED
          BY <3>2, <4>1 DEF NameOf, CInv, TableTypes, NamesKnown
      <3> QED
        BY <3>1, <3>2
    <2> HIDE DEF name
    <2>4. /\ \A n \in Names \ {name} : user_sock'[n] = user_sock[n]
          /\ user_sock'[name] = IF user_sock[name] = Absent THEN Stdin ELSE user_sock[name]
          /\ user_sock' \in [Names -> Sockets \cup {Stdin, Inactive, Absent}]
      BY <2>1, <2>3 DEF CInv, TableTypes, Lookup
    <2>5. TableTypes'
      BY <2>2, <2>4 DEF CInv, TableTypes
    <2>6. ConnectionsOnce' /\ DescriptorsOwned'
      BY <2>2 DEF CInv, ConnectionsOnce, DescriptorsOwned
    <2>7. SocketsAgree'
      <3>1. \A n \in Names : user_sock'[n] \in Sockets => user_sock'[n] = user_sock[n]
        BY <2>4, NoDescriptors
      <3> QED
        BY <2>2, <3>1 DEF CInv, SocketsAgree
    <2>8. \A n \in Names : /\ user_sock[n] # Absent => user_sock'[n] # Absent
                           /\ user_sock'[n] # Absent => user_sock[n] # Absent \/ n = Zero
      BY <2>3, <2>4, NoDescriptors DEF IsKnown
    <2>9. NamesKnown'
      <3>1. \A i \in DOMAIN id_user : id_user[i] \in Names /\ user_sock[id_user[i]] # Absent
        BY DEF CInv, TableTypes, NamesKnown, IsKnown
      <3>2. \A r \in Sockets : sock_user[r] # NoName =>
              sock_user[r] \in Names /\ user_sock[sock_user[r]] # Absent
        BY DEF CInv, TableTypes, NamesKnown, IsKnown, Names
      <3> QED
        BY <2>2, <2>8, <3>1, <3>2 DEF NamesKnown, IsKnown
    <2>10. OneNumberEach'
      BY <2>2, <2>8 DEF CInv, OneNumberEach, IsKnown
    <2> QED
      BY <2>5, <2>6, <2>7, <2>9, <2>10 DEF CInv
  <1> QED
    BY <1>1, <1>2

(***************************************************************************)
(* The theorems                                                            *)
(***************************************************************************)

\* The tables of the server are as described after every step of the server
\* and of every client.
THEOREM TablesInductive == Spec => []CInv
  <1>1. CInv /\ [Next]_vars => CInv'
    <2> SUFFICES ASSUME CInv, [Next]_vars PROVE CInv'
      OBVIOUS
    <2>1. ASSUME NEW p \in Procs, Connect(p) PROVE CInv'
      BY <2>1, ConnectStep
    <2>2. ASSUME NEW p \in Procs, SendNickname(p) PROVE CInv'
      BY <2>2, TablesKept DEF SendNickname, CInv, TableTypes
    <2>3. ASSUME NEW p \in Procs, NEW c \in Commands, Type(p, c) PROVE CInv'
      BY <2>3, TablesKept DEF Type, clients, CInv, TableTypes
    <2>4. ASSUME NEW p \in Procs, Receive(p) PROVE CInv'
      BY <2>4, TablesKept DEF Receive, CInv, TableTypes
    <2>5. ASSUME NEW p \in Procs, Exit(p) PROVE CInv'
      BY <2>5, TablesKept DEF Exit, CInv, TableTypes
    <2>6. ASSUME NEW p \in Procs, Handle(p) PROVE CInv'
      <3>1. CASE ReceiveNickname(p)
        BY <3>1, ReceiveNicknameStep
      <3>2. CASE HandleExit(p)
        BY <3>2, HandleExitStep
      <3>3. CASE HandleList(p)
        <4>1. CASE SendKills(p)
          BY <3>3, <4>1, StopStep DEF HandleList, Die
        <4>2. CASE ~SendKills(p)
          BY <3>3, <4>2, TablesKept DEF HandleList, CInv, TableTypes
        <4> QED
          BY <4>1, <4>2
      <3>4. CASE HandleMsg(p)
        BY <3>4, HandleMsgStep
      <3>5. ASSUME Ignore(p) PROVE CInv'
        BY <3>5, TablesKept DEF Ignore, clients, CInv, TableTypes
      <3>6. ASSUME Die PROVE CInv'
        BY <3>6, StopStep DEF Die
      <3>7. CASE HandleWrongNumber(p) \/ HandleUnknown(p) \/ HandleIncomplete(p)
        BY <3>5, <3>6, <3>7 DEF HandleWrongNumber, HandleUnknown, HandleIncomplete
      <3> QED
        BY <2>6, <3>1, <3>2, <3>3, <3>4, <3>7 DEF Handle
    <2>7. CASE Accept
      BY <2>7, AcceptStep
    <2>8. CASE ServerExit
      BY <2>8, StopStep DEF ServerExit
    <2>9. CASE UNCHANGED vars
      BY <2>9, TablesKept DEF vars, clients, CInv, TableTypes
    <2> QED
      BY <2>1, <2>2, <2>3, <2>4, <2>5, <2>6, <2>7, <2>8, <2>9 DEF Next
  <1> QED
    BY InitCInv, <1>1, PTL DEF Spec

\* A name is never bound to a descriptor that is closed or has become that of
\* another name.
THEOREM SocketsAlwaysAgree == Spec => []SocketsAgree
  <1>1. CInv => SocketsAgree
    BY DEF CInv
  <1> QED
    BY <1>1, TablesInductive, PTL

\* A name gets one number, and every name that has connected has one.
THEOREM AlwaysOneNumberEach == Spec => []OneNumberEach
  <1>1. CInv => OneNumberEach
    BY DEF CInv
  <1> QED
    BY <1>1, TablesInductive, PTL

(***************************************************************************)
(* Names and messages: what holds on top of CInv                           *)
(***************************************************************************)

\* The types of what CInv says nothing of.
LinkTypes ==
    /\ server \in {"select", "nickname", "exited", "died"}
    /\ accepting \in Procs \cup {NoProc}
    /\ up \in [Procs -> Seq(Commands \cup {Nickname})]
    /\ peer \in [Procs -> {"open", "fin", "reset", "broken"}]
    /\ down \in [Procs -> SUBSET Messages]
    /\ overlapped \subseteq Names

AcceptingWaits == server = "nickname" <=> accepting \in Procs

\* A descriptor has the name its process was started with, as soon as the
\* server has received it.
ConnectionsNamed ==
    \A p \in Procs : sock[p] # NoSock /\ p # accepting => sock_user[sock[p]] = nick[p]

\* What is unread is on an open connection, which the server has accepted.
UnreadIsOpen == \A p \in Procs : down[p] # {} => peer[p] = "open" /\ sock[p] # NoSock

MessagesNumbered == \A p \in Procs : \A m \in down[p] \ {ListAnswer} : m.k \in 0..Len(id_user)

\* A name that has not had two connections at a time is bound to the
\* descriptor that has it.
LoneNamesMapped ==
    \A s \in read_fds :
        sock_user[s] \in Names \ (overlapped \cup {Zero}) => user_sock[sock_user[s]] = s

\* Only "0" can have an entry made by MSG, which is for descriptor 0.
StdinIsZero == \A n \in Names \ {Zero} : user_sock[n] # Stdin

NamesInv == /\ LinkTypes
            /\ AcceptingWaits
            /\ ConnectionsNamed
            /\ UnreadIsOpen
            /\ MessagesNumbered
            /\ ReachesNamed
            /\ LoneNamesMapped
            /\ StdinIsZero

LEMMA InitNamesInv == Init => NamesInv
  <1> SUFFICES ASSUME Init PROVE NamesInv
    OBVIOUS
  <1>1. LinkTypes
    BY DEF Init, LinkTypes
  <1>2. AcceptingWaits
    BY ChatAssumption DEF Init, AcceptingWaits
  <1>3. ConnectionsNamed /\ UnreadIsOpen /\ MessagesNumbered /\ ReachesNamed /\ LoneNamesMapped
    BY DEF Init, ConnectionsNamed, UnreadIsOpen, MessagesNumbered, ReachesNamed, LoneNamesMapped
  <1>4. StdinIsZero
    BY NoDescriptors DEF Init, StdinIsZero
  <1> QED
    BY <1>1, <1>2, <1>3, <1>4 DEF NamesInv

LEMMA StopNames ==
    ASSUME NEW how \in {"exited", "died"}, Stop(how)
    PROVE  NamesInv'
  <1>1. /\ server' = how /\ accepting' = NoProc /\ read_fds' = {}
        /\ user_sock' = [n \in Names |-> Absent]
        /\ sock' = [p \in Procs |-> NoSock]
        /\ up' = [p \in Procs |-> <<>>]
        /\ peer' = [p \in Procs |-> "open"]
        /\ down' = [p \in Procs |-> {}]
        /\ overlapped' = {}
    BY DEF Stop
  <1>2. LinkTypes'
    BY <1>1 DEF LinkTypes
  <1>3. AcceptingWaits'
    BY <1>1, ChatAssumption DEF AcceptingWaits
  <1>4. ConnectionsNamed' /\ UnreadIsOpen' /\ MessagesNumbered' /\ ReachesNamed' /\ LoneNamesMapped'
    BY <1>1 DEF ConnectionsNamed, UnreadIsOpen, MessagesNumbered, ReachesNamed, LoneNamesMapped
  <1>5. StdinIsZero'
    BY <1>1, NoDescriptors DEF StdinIsZero
  <1> QED
    BY <1>2, <1>3, <1>4, <1>5 DEF NamesInv

\* A step that leaves the tables and the accepted connections as they are, and
\* sends nothing but an answer to LIST.
LEMMA NamesKept ==
    ASSUME NamesInv, LinkTypes',
           UNCHANGED <<loop, tables, sock, overlapped>>,
           \A p \in Procs : sock[p] # NoSock => nick'[p] = nick[p],
           \A p \in Procs : down'[p] \subseteq down[p] \cup {ListAnswer},
           \A p \in Procs : down'[p] # {} => peer'[p] = "open" /\ sock[p] # NoSock
    PROVE  NamesInv'
  <1>1. UNCHANGED <<server, accepting, read_fds, user_sock, sock_user, id_user, sock, overlapped>>
    BY DEF loop, tables
  <1>2. AcceptingWaits' /\ UnreadIsOpen' /\ LoneNamesMapped' /\ StdinIsZero'
    BY <1>1 DEF NamesInv, AcceptingWaits, UnreadIsOpen, LoneNamesMapped, StdinIsZero
  <1>3. ConnectionsNamed'
    BY <1>1 DEF NamesInv, ConnectionsNamed
  <1>4. MessagesNumbered'
    BY <1>1 DEF NamesInv, MessagesNumbered
  <1>5. ReachesNamed'
    <2> SUFFICES ASSUME NEW p \in Procs, NEW m \in down'[p] \ {ListAnswer}
                 PROVE  nick'[p] = NameOf(m.k)' /\ m.from = m.by
      BY DEF ReachesNamed
    <2>1. m \in down[p] \ {ListAnswer} /\ sock[p] # NoSock
      OBVIOUS
    <2>2. nick[p] = NameOf(m.k) /\ m.from = m.by
      BY <2>1 DEF NamesInv, ReachesNamed
    <2> QED
      BY <1>1, <2>1, <2>2 DEF NameOf
  <1> QED
    BY <1>2, <1>3, <1>4, <1>5 DEF NamesInv

(***************************************************************************)
(* The clients, and commands that only their sender sees                   *)
(***************************************************************************)

LEMMA ConnectNames ==
    ASSUME CInv, NamesInv, NEW p \in Procs, Connect(p)
    PROVE  NamesInv'
  <1>1. PICK n \in Nicks : nick' = [nick EXCEPT ![p] = n]
    BY DEF Connect
  <1>2. stage[p] = "none" /\ UNCHANGED <<loop, tables, sock, up, peer, down, overlapped>>
    BY DEF Connect
  <1>3. sock[p] = NoSock
    BY <1>2 DEF CInv, ConnectionsOnce
  <1>4. \A q \in Procs : q # p => nick'[q] = nick[q]
    BY <1>1 DEF CInv, TableTypes
  <1>5. LinkTypes'
    BY <1>2 DEF NamesInv, LinkTypes, loop
  <1> QED
    BY <1>2, <1>3, <1>4, <1>5, NamesKept DEF NamesInv, UnreadIsOpen

LEMMA ClientNames ==
    ASSUME NamesInv, NEW p \in Procs,
           \/ SendNickname(p)
           \/ \E c \in Commands : Type(p, c)
           \/ Receive(p)
           \/ Exit(p)
           \/ Ignore(p)
    PROVE  NamesInv'
  <1>1. UNCHANGED <<loop, tables, sock, nick, overlapped>>
    BY DEF SendNickname, Type, Receive, Exit, Ignore, clients
  <1>2. up' \in [Procs -> Seq(Commands \cup {Nickname})]
    <2>1. up \in [Procs -> Seq(Commands \cup {Nickname})]
      BY DEF NamesInv, LinkTypes
    <2>2. CASE SendNickname(p)
      BY <2>1, <2>2 DEF SendNickname
    <2>3. ASSUME NEW c \in Commands, Type(p, c) PROVE up' \in [Procs -> Seq(Commands \cup {Nickname})]
      <3>1. Append(up[p], c) \in Seq(Commands \cup {Nickname})
        BY <2>1
      <3> QED
        BY <2>1, <2>3, <3>1 DEF Type
    <2>4. CASE Receive(p) \/ Exit(p)
      BY <2>1, <2>4 DEF Receive, Exit
    <2>5. CASE Ignore(p)
      BY <2>1, <2>5 DEF Ignore, Consume
    <2> QED
      BY <2>2, <2>3, <2>4, <2>5
  <1>3. \/ UNCHANGED <<peer, down>>
        \/ down' = [down EXCEPT ![p] = {}] /\ UNCHANGED peer
        \/ /\ down' = [down EXCEPT ![p] = {}]
           /\ peer' = [peer EXCEPT ![p] = IF down[p] # {} THEN "reset" ELSE "fin"]
    BY DEF SendNickname, Type, Receive, Exit, Ignore, clients
  <1>4. peer \in [Procs -> {"open", "fin", "reset", "broken"}] /\ down \in [Procs -> SUBSET Messages]
    BY DEF NamesInv, LinkTypes
  <1>5. LinkTypes'
    BY <1>1, <1>2, <1>3, <1>4 DEF NamesInv, LinkTypes, loop
  <1>6. /\ \A q \in Procs : down'[q] \subseteq down[q]
        /\ \A q \in Procs : down'[q] # {} => down[q] # {} /\ peer'[q] = peer[q]
    BY <1>3, <1>4
  <1> QED
    BY <1>1, <1>5, <1>6, NamesKept DEF NamesInv, UnreadIsOpen

(***************************************************************************)
(* The handlers                                                            *)
(***************************************************************************)

LEMMA AcceptNames ==
    ASSUME CInv, NamesInv, Accept
    PROVE  NamesInv'
  <1> DEFINE free == Sockets \ {sock[q] : q \in Procs}
             p == Head(backlog)
             s == Min(free)
  <1>1. CASE free = {}
    BY <1>1, StopNames DEF Accept, Die
  <1>2. CASE free # {}
    <2>1. /\ sock' = [sock EXCEPT ![p] = s]
          /\ read_fds' = read_fds \cup {s}
          /\ backlog # <<>>
          /\ accepting' = p
          /\ server' = "nickname"
          /\ UNCHANGED <<user_sock, sock_user, id_user, nick, up, peer, down, overlapped>>
      BY <1>2 DEF Accept, Watch, clients
    <2>2. s \in free
      <3>1. free \subseteq Nat
        BY ChatAssumption
      <3>2. PICK x \in free : \A y \in free : x <= y
        BY <1>2, <3>1, LeastNatural
      <3> QED
        BY <3>1, <3>2 DEF Min
    <2>3. s \in Sockets /\ \A q \in Procs : sock[q] # s
      BY <2>2
    <2> HIDE DEF s
    <2>4. sock_user[s] = NoName /\ s # NoSock
      BY <2>3, NoDescriptors DEF CInv, DescriptorsOwned
    <2>5. p \in Procs
      BY <2>1 DEF CInv, TableTypes
    <2> HIDE DEF p
    <2>6. sock'[p] = s /\ \A q \in Procs \ {p} : sock'[q] = sock[q]
      BY <2>1, <2>5 DEF CInv, TableTypes
    <2>7. LinkTypes' /\ AcceptingWaits'
      BY <2>1, <2>5 DEF NamesInv, LinkTypes, AcceptingWaits
    <2>8. ConnectionsNamed'
      <3> SUFFICES ASSUME NEW q \in Procs, sock'[q] # NoSock, q # p
                   PROVE  sock_user[sock'[q]] = nick[q]
        BY <2>1 DEF ConnectionsNamed
      <3>1. accepting \notin Procs
        BY DEF Accept, NamesInv, AcceptingWaits
      <3> QED
        BY <2>6, <3>1 DEF NamesInv, ConnectionsNamed
    <2>9. UnreadIsOpen'
      BY <2>1, <2>4, <2>6 DEF NamesInv, UnreadIsOpen
    <2>10. MessagesNumbered' /\ ReachesNamed'
      BY <2>1 DEF NamesInv, MessagesNumbered, ReachesNamed, NameOf
    <2>11. LoneNamesMapped' /\ StdinIsZero'
      BY <2>1, <2>4, ChatAssumption DEF NamesInv, LoneNamesMapped, StdinIsZero
    <2> QED
      BY <2>7, <2>8, <2>9, <2>10, <2>11 DEF NamesInv
  <1> QED
    BY <1>1, <1>2

\* The descriptor gets its name.  If another descriptor has it too, the name
\* is from now on one that had two connections.
LEMMA ReceiveNicknameNames ==
    ASSUME CInv, NamesInv, NEW p \in Procs, ReceiveNickname(p)
    PROVE  NamesInv'
  <1> DEFINE s == sock[p]
             name == nick[p]
  <1>1. /\ server = "nickname" /\ server' = "select"
        /\ p = accepting /\ accepting' = NoProc
        /\ user_sock' = [user_sock EXCEPT ![name] = s]
        /\ sock_user' = [sock_user EXCEPT ![s] = name]
        /\ id_user' = IF IsKnown(name) THEN id_user ELSE Append(id_user, name)
        /\ up' = [up EXCEPT ![p] = <<>>]
        /\ overlapped' = overlapped \cup ({sock_user[r] : r \in read_fds \ {s}} \cap ({name} \ {Zero}))
        /\ UNCHANGED <<read_fds, sock, nick, peer, down>>
    BY DEF ReceiveNickname, Enter, NameSocket, clients
  <1>2. s \in read_fds /\ s \in Sockets
    BY <1>1 DEF CInv, DescriptorsOwned, TableTypes
  <1>3. name \in Nicks /\ name \in Names
    BY <1>2, NoDescriptors DEF CInv, ConnectionsOnce, Names
  <1>4. \A q \in Procs \ {p} : sock[q] = NoSock \/ sock[q] # s
    BY DEF CInv, ConnectionsOnce
  <1>5. s = sock[p] /\ name = nick[p]
    OBVIOUS
  <1> HIDE DEF s, name
  <1>6. /\ user_sock'[name] = s
        /\ \A n \in Names \ {name} : user_sock'[n] = user_sock[n]
        /\ sock_user'[s] = name
        /\ \A r \in Sockets \ {s} : sock_user'[r] = sock_user[r]
    BY <1>1, <1>2, <1>3 DEF CInv, TableTypes
  <1>7. /\ Len(id_user) \in Nat /\ Len(id_user') \in Nat
        /\ Len(id_user) <= Len(id_user')
        /\ \A k \in 1..Len(id_user) : id_user'[k] = id_user[k]
    BY <1>1, <1>3 DEF CInv, TableTypes
  <1>8. LinkTypes'
    BY <1>1, <1>3 DEF NamesInv, LinkTypes
  <1>9. AcceptingWaits'
    BY <1>1, ChatAssumption DEF AcceptingWaits
  <1>10. ConnectionsNamed'
    <2> SUFFICES ASSUME NEW q \in Procs, sock[q] # NoSock
                 PROVE  sock_user'[sock[q]] = nick[q]
      BY <1>1 DEF ConnectionsNamed
    <2>1. CASE q = p
      BY <1>5, <1>6, <2>1
    <2>2. CASE q # p
      <3>1. sock[q] \in Sockets
        BY DEF CInv, TableTypes
      <3> QED
        BY <1>1, <1>4, <1>6, <2>2, <3>1 DEF NamesInv, ConnectionsNamed
    <2> QED
      BY <2>1, <2>2
  <1>11. UnreadIsOpen'
    BY <1>1 DEF NamesInv, UnreadIsOpen
  <1>12. MessagesNumbered' /\ ReachesNamed'
    <2> SUFFICES ASSUME NEW q \in Procs, NEW m \in down'[q] \ {ListAnswer}
                 PROVE  m.k \in 0..Len(id_user)' /\ nick'[q] = NameOf(m.k)' /\ m.from = m.by
      BY DEF MessagesNumbered, ReachesNamed
    <2>1. m.k \in 0..Len(id_user) /\ nick[q] = NameOf(m.k) /\ m.from = m.by
      BY <1>1 DEF NamesInv, MessagesNumbered, ReachesNamed
    <2>2. m.k \in 0..Len(id_user') /\ (m.k # 0 => m.k \in 1..Len(id_user))
      BY <1>7, <2>1
    <2>3. nick'[q] = NameOf(m.k)'
      BY <1>1, <1>7, <2>1, <2>2 DEF NameOf
    <2> QED
      BY <2>1, <2>2, <2>3
  <1>13. LoneNamesMapped'
    <2> SUFFICES ASSUME NEW r \in read_fds, sock_user'[r] \in Names \ (overlapped' \cup {Zero})
                 PROVE  user_sock'[sock_user'[r]] = r
      BY <1>1 DEF LoneNamesMapped
    <2>1. CASE r = s
      BY <1>6, <2>1
    <2>2. CASE r # s
      <3>1. sock_user'[r] = sock_user[r]
        BY <1>6, <2>2 DEF CInv, TableTypes
      <3>2. sock_user[r] # name
        BY <1>1, <2>2, <3>1
      <3> QED
        BY <1>1, <1>6, <3>1, <3>2 DEF NamesInv, LoneNamesMapped
    <2> QED
      BY <2>1, <2>2
  <1>14. StdinIsZero'
    BY <1>2, <1>6, NoDescriptors DEF NamesInv, StdinIsZero
  <1> QED
    BY <1>8, <1>9, <1>10, <1>11, <1>12, <1>13, <1>14 DEF NamesInv

\* The name that becomes inactive is that of the descriptor that is closed; if
\* another descriptor has it, it had two connections.
LEMMA HandleExitNames ==
    ASSUME CInv, NamesInv, NEW p \in Procs, HandleExit(p)
    PROVE  NamesInv'
  <1> DEFINE s == sock[p]
             name == sock_user[s]
  <1>1. CASE peer[p] = "reset"
    BY <1>1, StopNames DEF HandleExit, Die
  <1>2. CASE peer[p] # "reset"
    <2>1. /\ server = "select" /\ UNCHANGED <<server, accepting>>
          /\ s \in read_fds
          /\ peer[p] # "open"
          /\ user_sock' = [user_sock EXCEPT ![name] = Inactive]
          /\ read_fds' = read_fds \ {s}
          /\ sock' = [sock EXCEPT ![p] = NoSock]
          /\ peer' = [peer EXCEPT ![p] = "open"]
          /\ nick' = [nick EXCEPT ![p] = NoName]
          /\ sock_user' = [sock_user EXCEPT ![s] = NoName]
          /\ overlapped' = overlapped \cap {sock_user[r] : r \in read_fds \ {s}}
          /\ UNCHANGED <<id_user, up, down>>
      BY <1>2 DEF HandleExit, MakeInactive, loop
    <2>2. s \in Sockets
      BY <2>1 DEF CInv, TableTypes
    <2>3. \A q \in Procs \ {p} : sock[q] = NoSock \/ sock[q] # s
      BY DEF CInv, ConnectionsOnce
    <2>4. \A n \in Names : user_sock'[n] = IF n = name THEN Inactive ELSE user_sock[n]
      BY <2>1 DEF CInv, TableTypes
    <2>5. name = sock_user[s]
      OBVIOUS
    <2> HIDE DEF s, name
    <2>6. \A r \in Sockets : sock_user'[r] = IF r = s THEN NoName ELSE sock_user[r]
      BY <2>1, <2>2 DEF CInv, TableTypes
    <2>7. \A q \in Procs : /\ sock'[q] = IF q = p THEN NoSock ELSE sock[q]
                           /\ peer'[q] = IF q = p THEN "open" ELSE peer[q]
                           /\ q # p => nick'[q] = nick[q]
      BY <2>1 DEF CInv, TableTypes, NamesInv, LinkTypes
    <2>8. down[p] = {}
      BY <2>1 DEF NamesInv, UnreadIsOpen
    <2>9. LinkTypes' /\ AcceptingWaits'
      BY <2>1 DEF NamesInv, LinkTypes, AcceptingWaits
    <2>10. ConnectionsNamed'
      <3> SUFFICES ASSUME NEW q \in Procs, sock'[q] # NoSock, q # accepting
                   PROVE  sock_user'[sock'[q]] = nick'[q]
        BY <2>1 DEF ConnectionsNamed
      <3>1. q # p /\ sock'[q] = sock[q] /\ sock[q] \in Sockets /\ sock[q] # s
        BY <2>3, <2>7 DEF CInv, TableTypes
      <3> QED
        BY <2>6, <2>7, <3>1 DEF NamesInv, ConnectionsNamed
    <2>11. UnreadIsOpen'
      BY <2>1, <2>7, <2>8 DEF NamesInv, UnreadIsOpen
    <2>12. MessagesNumbered'
      BY <2>1 DEF NamesInv, MessagesNumbered
    <2>13. ReachesNamed'
      <3> SUFFICES ASSUME NEW q \in Procs, NEW m \in down[q] \ {ListAnswer}
                   PROVE  nick'[q] = NameOf(m.k) /\ m.from = m.by
        BY <2>1 DEF ReachesNamed, NameOf
      <3> QED
        BY <2>7, <2>8 DEF NamesInv, ReachesNamed
    <2>14. LoneNamesMapped'
      <3> SUFFICES ASSUME NEW r \in read_fds \ {s}, sock_user'[r] \in Names \ (overlapped' \cup {Zero})
                   PROVE  user_sock'[sock_user'[r]] = r
        BY <2>1 DEF LoneNamesMapped
      <3>1. sock_user'[r] = sock_user[r]
        BY <2>6 DEF CInv, TableTypes
      <3>2. sock_user[r] \in Names \ (overlapped \cup {Zero})
        BY <2>1, <3>1
      <3>3. user_sock[sock_user[r]] = r
        BY <3>2 DEF NamesInv, LoneNamesMapped
      <3>4. sock_user[r] # name
        <4> SUFFICES ASSUME sock_user[r] = name PROVE FALSE
          OBVIOUS
        <4>1. user_sock[sock_user[s]] = s
          BY <2>1, <2>5, <3>2 DEF NamesInv, LoneNamesMapped
        <4> QED
          BY <2>5, <3>3, <4>1
      <3> QED
        BY <2>4, <3>1, <3>2, <3>3, <3>4
    <2>15. StdinIsZero'
      BY <2>4 DEF NamesInv, StdinIsZero, Stdin, Inactive
    <2> QED
      BY <2>9, <2>10, <2>11, <2>12, <2>13, <2>14, <2>15 DEF NamesInv
  <1> QED
    BY <1>1, <1>2

LEMMA HandleListNames ==
    ASSUME CInv, NamesInv, NEW p \in Procs, HandleList(p)
    PROVE  NamesInv'
  <1>1. CASE SendKills(p)
    BY <1>1, StopNames DEF HandleList, Die
  <1>2. CASE ~SendKills(p)
    <2>1. /\ sock[p] \in read_fds
          /\ SendTo(p, ListAnswer)
          /\ up' = [up EXCEPT ![p] = <<>>]
          /\ UNCHANGED <<loop, tables, sock, nick, overlapped>>
      BY <1>2 DEF HandleList, Received, Consume
    <2>2. sock[p] # NoSock
      BY <2>1 DEF CInv, DescriptorsOwned
    <2>3. peer \in [Procs -> {"open", "fin", "reset", "broken"}] /\ down \in [Procs -> SUBSET Messages]
      BY DEF NamesInv, LinkTypes
    <2>4. \/ UNCHANGED peer /\ down' = [down EXCEPT ![p] = @ \cup {ListAnswer}] /\ peer[p] = "open"
          \/ peer' = [peer EXCEPT ![p] = "broken"] /\ UNCHANGED down /\ peer[p] # "open"
          \/ UNCHANGED <<peer, down>>
      BY <2>1 DEF SendTo
    <2>5. ListAnswer \in Messages
      BY DEF Messages
    <2>6. LinkTypes'
      <3>1. up' \in [Procs -> Seq(Commands \cup {Nickname})]
        BY <2>1 DEF NamesInv, LinkTypes
      <3>2. peer' \in [Procs -> {"open", "fin", "reset", "broken"}]
        BY <2>3, <2>4
      <3>3. down' \in [Procs -> SUBSET Messages]
        BY <2>3, <2>4, <2>5
      <3> QED
        BY <2>1, <3>1, <3>2, <3>3 DEF NamesInv, LinkTypes, loop
    <2>7. \A q \in Procs : down[q] # {} => peer[q] = "open" /\ sock[q] # NoSock
      BY DEF NamesInv, UnreadIsOpen
    <2>8. /\ \A q \in Procs : down'[q] \subseteq down[q] \cup {ListAnswer}
          /\ \A q \in Procs : down'[q] # {} => peer'[q] = "open" /\ sock[q] # NoSock
      BY <2>2, <2>3, <2>4, <2>7
    <2> QED
      BY <2>1, <2>6, <2>8, NamesKept
  <1> QED
    BY <1>1, <1>2

\* The descriptor of the name that was typed is that of a process with this
\* name, and the descriptor of the sender has the sender's.
LEMMA HandleMsgNames ==
    ASSUME CInv, NamesInv, NEW p \in Procs, HandleMsg(p)
    PROVE  NamesInv'
  <1> DEFINE k == Head(up[p]).to
             name == NameOf(k)
             curr_sock == Lookup(name)
             q == ProcAt(curr_sock)
             message == [by |-> nick[p], k |-> k, from |-> sock_user[sock[p]]]
  <1>1. CASE Die
    BY <1>1, StopNames DEF Die
  <1>2. CASE ~Die
    <2>1. /\ server = "select" /\ sock[p] \in read_fds /\ up[p] # <<>>
          /\ Head(up[p]).cmd = "MSG"
          /\ k \in 0..Len(id_user)
          /\ user_sock' = [user_sock EXCEPT ![name] = curr_sock]
          /\ up' = [up EXCEPT ![p] = <<>>]
          /\ UNCHANGED <<loop, read_fds, sock_user, id_user, sock, nick, overlapped>>
      BY <1>2 DEF HandleMsg, Received, Consume
    <2>2. UNCHANGED <<server, accepting, read_fds, sock_user, id_user, sock, nick, overlapped>>
      BY <2>1 DEF loop
    <2>3. IF curr_sock \in Sockets THEN SendTo(q, message) ELSE UNCHANGED <<peer, down>>
      BY <1>2 DEF HandleMsg
    <2>4. k \in Numbers
      <3>1. Head(up[p]) \in Commands \cup {Nickname}
        BY <2>1 DEF NamesInv, LinkTypes
      <3>2. CASE Head(up[p]) \in {LIST, Nickname}
        BY <2>1, <3>2 DEF LIST, Nickname
      <3>3. CASE Head(up[p]) = Incomplete
        BY <2>1, <3>3 DEF Incomplete, MSG, NoNumber
      <3>4. CASE Head(up[p]) \in {MSG(i) : i \in Numbers}
        BY <3>4 DEF MSG
      <3> QED
        BY <3>1, <3>2, <3>3, <3>4 DEF Commands
    <2>5. name \in Names /\ (name = Zero \/ IsKnown(name))
      <3> HIDE DEF k
      <3>1. CASE k = 0
        BY <3>1 DEF NameOf, Names
      <3>2. CASE k # 0
        <4>1. k \in DOMAIN id_user
          BY <2>1, <3>2 DEF CInv, TableTypes
        <4> QED
          BY <3>2, <4>1 DEF NameOf, CInv, TableTypes, NamesKnown
      <3> QED
        BY <3>1, <3>2
    <2>6. sock[p] # NoSock /\ nick[p] \in Nicks /\ sock_user[sock[p]] = nick[p]
      <3>1. sock[p] # NoSock /\ nick[p] \in Nicks
        BY <2>1 DEF CInv, DescriptorsOwned, ConnectionsOnce
      <3>2. p # accepting
        BY <2>1 DEF NamesInv, AcceptingWaits
      <3> QED
        BY <3>1, <3>2 DEF NamesInv, ConnectionsNamed
    <2>7. message \in Messages /\ message # ListAnswer
      <3>1. message.by \in Nicks /\ message.by # NoName
        BY <2>6, NoDescriptors DEF Names
      <3>2. message # ListAnswer
        BY <3>1 DEF ListAnswer
      <3> QED
        BY <2>4, <2>6, <3>2 DEF Messages
    <2>8. curr_sock \in Sockets => q \in Procs /\ sock[q] = curr_sock /\ nick[q] = name
      <3> SUFFICES ASSUME curr_sock \in Sockets
                   PROVE  q \in Procs /\ sock[q] = curr_sock /\ nick[q] = name
        OBVIOUS
      <3>1. user_sock[name] = curr_sock
        BY NoDescriptors DEF Lookup
      <3> HIDE DEF curr_sock, name
      <3>2. curr_sock \in read_fds /\ sock_user[curr_sock] = name
        BY <2>5, <3>1 DEF CInv, SocketsAgree
      <3>3. \E r \in Procs : sock[r] = curr_sock
        BY <3>2 DEF CInv, DescriptorsOwned
      <3>4. q \in Procs /\ sock[q] = curr_sock
        BY <3>3 DEF ProcAt
      <3> HIDE DEF q
      <3>5. sock[q] # NoSock /\ q # accepting
        BY <2>1, <3>4, NoDescriptors DEF NamesInv, AcceptingWaits
      <3> QED
        BY <3>2, <3>4, <3>5 DEF NamesInv, ConnectionsNamed
    <2>9. message.k = k /\ message.from = message.by
      BY <2>6
    <2>10. name = NameOf(k) /\ curr_sock = Lookup(name)
      OBVIOUS
    <2> HIDE DEF k, name, curr_sock, q, message
    <2>11. peer \in [Procs -> {"open", "fin", "reset", "broken"}] /\ down \in [Procs -> SUBSET Messages]
      BY DEF NamesInv, LinkTypes
    <2>12. /\ peer' \in [Procs -> {"open", "fin", "reset", "broken"}]
           /\ \/ /\ q \in Procs /\ sock[q] # NoSock /\ nick[q] = name
                 /\ down' = [down EXCEPT ![q] = @ \cup {message}]
                 /\ peer' = peer /\ peer[q] = "open"
              \/ /\ down' = down
                 /\ \A r \in Procs : peer[r] = "open" => peer'[r] = "open"
      <3>1. CASE curr_sock \in Sockets
        <4>1. q \in Procs /\ sock[q] # NoSock /\ nick[q] = name
          BY <2>8, <3>1, NoDescriptors
        <4>2. SendTo(q, message)
          BY <2>3, <3>1
        <4> QED
          BY <2>11, <4>1, <4>2 DEF SendTo
      <3>2. CASE curr_sock \notin Sockets
        BY <2>3, <2>11, <3>2
      <3> QED
        BY <3>1, <3>2
    <2>13. /\ \A n \in Names \ {name} : user_sock'[n] = user_sock[n]
           /\ user_sock'[name] = IF user_sock[name] = Absent THEN Stdin ELSE user_sock[name]
      BY <2>1, <2>5, <2>10 DEF CInv, TableTypes, Lookup
    <2>14. LinkTypes'
      <3>1. up' \in [Procs -> Seq(Commands \cup {Nickname})]
        BY <2>1 DEF NamesInv, LinkTypes
      <3>2. down' \in [Procs -> SUBSET Messages]
        BY <2>7, <2>11, <2>12
      <3> QED
        BY <2>2, <2>12, <3>1, <3>2 DEF NamesInv, LinkTypes
    <2>15. AcceptingWaits' /\ ConnectionsNamed'
      BY <2>2 DEF NamesInv, AcceptingWaits, ConnectionsNamed
    <2>16. UnreadIsOpen'
      BY <2>2, <2>11, <2>12 DEF NamesInv, UnreadIsOpen
    <2>17. MessagesNumbered' /\ ReachesNamed'
      <3> SUFFICES ASSUME NEW r \in Procs, NEW m \in down'[r] \ {ListAnswer}
                   PROVE  m.k \in 0..Len(id_user) /\ nick[r] = NameOf(m.k) /\ m.from = m.by
        BY <2>2 DEF MessagesNumbered, ReachesNamed, NameOf
      <3>1. CASE m \in down[r]
        BY <3>1 DEF NamesInv, MessagesNumbered, ReachesNamed
      <3>2. CASE m \notin down[r]
        <4>1. r = q /\ m = message /\ nick[q] = name
          BY <2>11, <2>12, <3>2
        <4> QED
          BY <2>1, <2>9, <2>10, <4>1
      <3> QED
        BY <3>1, <3>2
    <2>18. LoneNamesMapped'
      <3> SUFFICES ASSUME NEW r \in read_fds, sock_user[r] \in Names \ (overlapped \cup {Zero})
                   PROVE  user_sock'[sock_user[r]] = r
        BY <2>2 DEF LoneNamesMapped
      <3>1. user_sock[sock_user[r]] = r
        BY DEF NamesInv, LoneNamesMapped
      <3>2. r # Absent
        BY NoDescriptors DEF CInv, TableTypes
      <3> QED
        BY <2>13, <3>1, <3>2
    <2>19. StdinIsZero'
      <3> SUFFICES ASSUME NEW n \in Names \ {Zero} PROVE user_sock'[n] # Stdin
        BY DEF StdinIsZero
      <3>1. user_sock[n] # Stdin
        BY DEF NamesInv, StdinIsZero
      <3>2. n = name => user_sock[name] # Absent
        BY <2>5 DEF IsKnown
      <3> QED
        BY <2>13, <3>1, <3>2
    <2> QED
      BY <2>14, <2>15, <2>16, <2>17, <2>18, <2>19 DEF NamesInv
  <1> QED
    BY <1>1, <1>2

(***************************************************************************)
(* The theorems about names and messages                                   *)
(***************************************************************************)

\* On top of the tables: the descriptors have the names of their processes,
\* what is unread is on an open connection and numbered, and a name without
\* two connections is bound to its descriptor.
THEOREM ChatInvariant == Spec => [](CInv /\ NamesInv)
  <1>1. Init => NamesInv
    BY InitNamesInv
  <1>2. CInv /\ NamesInv /\ [Next]_vars => NamesInv'
    <2> SUFFICES ASSUME CInv, NamesInv, [Next]_vars PROVE NamesInv'
      OBVIOUS
    <2>1. ASSUME NEW p \in Procs, Connect(p) PROVE NamesInv'
      BY <2>1, ConnectNames
    <2>2. ASSUME NEW p \in Procs,
                 \/ SendNickname(p)
                 \/ \E c \in Commands : Type(p, c)
                 \/ Receive(p)
                 \/ Exit(p)
          PROVE  NamesInv'
      BY <2>2, ClientNames
    <2>3. ASSUME NEW p \in Procs, Handle(p) PROVE NamesInv'
      <3>1. CASE ReceiveNickname(p)
        BY <3>1, ReceiveNicknameNames
      <3>2. CASE HandleExit(p)
        BY <3>2, HandleExitNames
      <3>3. CASE HandleList(p)
        BY <3>3, HandleListNames
      <3>4. CASE HandleMsg(p)
        BY <3>4, HandleMsgNames
      <3>5. ASSUME Ignore(p) PROVE NamesInv'
        BY <3>5, ClientNames
      <3>6. ASSUME Die PROVE NamesInv'
        BY <3>6, StopNames DEF Die
      <3>7. CASE HandleWrongNumber(p) \/ HandleUnknown(p) \/ HandleIncomplete(p)
        BY <3>5, <3>6, <3>7 DEF HandleWrongNumber, HandleUnknown, HandleIncomplete
      <3> QED
        BY <2>3, <3>1, <3>2, <3>3, <3>4, <3>7 DEF Handle
    <2>4. CASE Accept
      BY <2>4, AcceptNames
    <2>5. CASE ServerExit
      BY <2>5, StopNames DEF ServerExit
    <2>6. CASE UNCHANGED vars
      <3>1. UNCHANGED <<loop, tables, sock, up, peer, nick, down, overlapped>>
        BY <2>6 DEF vars, clients
      <3>2. LinkTypes'
        BY <3>1 DEF NamesInv, LinkTypes, loop
      <3> QED
        BY <3>1, <3>2, NamesKept DEF NamesInv, UnreadIsOpen
    <2> QED
      BY <2>1, <2>2, <2>3, <2>4, <2>5, <2>6 DEF Next
  <1> QED
    BY <1>1, <1>2, TablesInductive, PTL DEF Spec

\* Every variable has its type.
THEOREM ChatTypes == Spec => []TypeOK
  <1>1. CInv /\ NamesInv => TypeOK
    BY DEF CInv, TableTypes, NamesInv, LinkTypes, TypeOK
  <1> QED
    BY <1>1, ChatInvariant, PTL

\* A message is on its way only to a process with the name of the number that
\* was typed, and carries its sender's name, whoever left and came back in
\* between and whatever descriptors were given out again.
THEOREM AlwaysReachesNamed == Spec => []ReachesNamed
  <1>1. CInv /\ NamesInv => ReachesNamed
    BY DEF NamesInv
  <1> QED
    BY <1>1, ChatInvariant, PTL

\* LIST shows exactly those who are connected, for every name that has not had
\* two connections at a time.
THEOREM LoneNamesAlwaysListed == Spec => []LoneNamesListed
  <1>1. CInv /\ NamesInv => LoneNamesListed
    <2> SUFFICES ASSUME CInv, NamesInv, NEW n \in Names \ (overlapped \cup {Zero})
                 PROVE  (\E k \in Listed : id_user[k] = n)
                          <=> (\E s \in read_fds \ {sock[p] : p \in {accepting} \cap Procs} : sock_user[s] = n)
      BY DEF LoneNamesListed
    <2>1. n # NoName
      BY NoDescriptors
    <2>2. ASSUME NEW k \in Listed, id_user[k] = n
          PROVE  \E s \in read_fds \ {sock[p] : p \in {accepting} \cap Procs} : sock_user[s] = n
      <3>1. k \in DOMAIN id_user /\ user_sock[n] # Inactive
        BY <2>2 DEF Listed
      <3>2. user_sock[n] # Absent
        BY <2>2, <3>1 DEF CInv, NamesKnown, IsKnown
      <3>3. user_sock[n] # Stdin
        BY DEF NamesInv, StdinIsZero
      <3>4. user_sock[n] \in Sockets
        BY <3>1, <3>2, <3>3 DEF CInv, TableTypes
      <3>5. user_sock[n] \in read_fds /\ sock_user[user_sock[n]] = n
        BY <3>4 DEF CInv, SocketsAgree
      <3>6. accepting \in Procs => sock_user[sock[accepting]] = NoName
        BY DEF NamesInv, AcceptingWaits, CInv, DescriptorsOwned
      <3>7. user_sock[n] \notin {sock[p] : p \in {accepting} \cap Procs}
        BY <2>1, <3>5, <3>6
      <3> QED
        BY <3>5, <3>7
    <2>3. ASSUME NEW s \in read_fds, sock_user[s] = n
          PROVE  \E k \in Listed : id_user[k] = n
      <3>1. user_sock[n] = s
        BY <2>3 DEF NamesInv, LoneNamesMapped
      <3>2. s # Inactive /\ s # Absent
        BY NoDescriptors DEF CInv, TableTypes
      <3>3. PICK k \in DOMAIN id_user : id_user[k] = n
        BY <3>1, <3>2 DEF CInv, OneNumberEach, IsKnown
      <3> QED
        BY <3>1, <3>2, <3>3 DEF Listed
    <2> QED
      BY <2>2, <2>3
  <1> QED
    BY <1>1, ChatInvariant, PTL
=============================================================================
