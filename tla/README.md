# Models and proofs of PCom-Projects

TLA+ models of the programs in this repository, the TLC runs that check them on
small instances, and TLAPS proofs of their invariants for instances of any
size. File names and line numbers refer to `src/`.

Contents: [the system](#1-the-system) · [the plan](#2-the-plan) ·
[the notification platform](#3-the-notification-platform) ·
[the router](#4-the-router) · [the chat](#5-the-chat) ·
[the REST client](#6-the-rest-client) · [runs](#7-runs-and-bounds) ·
[fairness](#8-fairness) · [proofs](#9-what-is-proved) ·
[disagreements with the documentation](#10-disagreements-with-the-documentation) ·
[limits](#11-what-is-not-modelled)

## 1. The system

The repository holds four independent programs.

### 02-Notification_Platform: a store-and-forward broker

`server.cpp` (393 lines), `subscriber.cpp`, `helpers.h`. UDP clients publish
messages on topics; the server forwards them over TCP to the subscribers of the
topic, and keeps them for subscribers that are away if they asked for it
(sf = 1).

| component | state | operations | interacts with | correct when |
|---|---|---|---|---|
| subscription and store tables | `client_sockfds`, `client_ids`, `client_topics`, `saved_ids`, `saved_topics`, `saved_msgs`, `read_fds` | the handlers of the loop: new / returning / duplicate id, disconnect, subscribe, unsubscribe, UDP message | the loop calls the handlers | the seven tables agree with each other; `saved_topics` holds exactly the waiting clients; counters never run past 0; messages are stored only if and as long as somebody waits; resends are in order |
| `select()` loop and connections | snapshot `tmp_fds`, the descriptor table, the blocking `recv` of an id | snapshot, ascending scan, accept, receive, close, exit | kernel (TCP, UDP), subscribers | a descriptor is never used for the wrong process; what `select()` promised holds when the scan gets there; connections and exits are noticed; the server stops on `exit` only |
| subscriber | connection, "connected / running / gone" | connect, send id, send command, receive, exit, end of stream | the server, by TCP | an id is held by one process at a time; commands take effect |
| `decode_udp` | `t_msg`, a local of `main` that is reused for every message | conversion of INT, SHORT_REAL, FLOAT, STRING | UDP handler, by `buf`, which is shared with all other input | a message shows its own bytes; nothing is left over from earlier messages or other input |
| `udp_client.py` | none | publishes test messages | the server, by UDP | given with the assignment |

Hard behaviours: descriptors are reused while tables are keyed by them; a
snapshot of ready descriptors is used while earlier handlers of the same scan
close descriptors and take input; TCP has no message boundaries; a peer may
close, reset, or have an unread message at any point; the counter of a stored
message says how many clients wait for it but not which.

### 01-Router: an IPv4 router

`router.c` (302 lines), with the queue of `queue.c` / `list.c` and the library
given with the assignment (`skel.c`).

| component | state | operations | interacts with | correct when |
|---|---|---|---|---|
| forwarding and ARP | `arp_table`, the queues `q_pack`, `q_int`, `q_next` | one frame at a time: own address, ttl, checksum, route, forward or queue and ask; ARP reply: record and flush | hosts that answer ARP | the three queues stay in step; nothing is lost, doubled or reordered among waiting packets; every packet that leaves is the one that came, decremented, by its route |
| route lookup | `rtable`, sorted once | `cmp`, `get_best_route` | forwarding | the longest matching prefix, or none |
| incremental checksum | none | `check_1624` | forwarding | the result verifies at the next hop |
| waiting queue | linked list with head and tail | enq, deq, front, empty | forwarding | first in, first out |
| packet construction (`skel.c`) | none | ICMP and ARP headers, raw sockets | forwarding | - |

Hard behaviours: ARP answers arrive in any order, late, unasked or twice while
packets wait in three parallel queues; head-of-line stopping; a binary search
over a predicate that need not be monotone; carries and borrows.

### Test-Chat: a chat server

`server.cpp` (220 lines), `client.cpp`. State: `user_sock` and its inverse, the
connected descriptors. Operations: connect with a nick, LIST, MSG, exit, close.
Interacts with clients by TCP. Correct when a nick denotes one live connection
and a message reaches the numbered user. Hard: the same nick connecting twice,
the order of disconnect and reconnect, lookups that insert.

### 03-REST API: a command-line client of a library service

`client.c` (506 lines), `requests.c`, `helpers.c`, `buffer.c`; `parson.c` is
vendored. State: login cookie, access token. Operations: register, login,
enter_library, get_books, get_book, add_book, delete_book, logout, exit; receive
an HTTP response. Correct when cookie and token are those of the present
session, an error reply is never taken for success, and reading a response
always ends with the response. Hard: replies without the expected header or
body (429, 5xx), a stream that ends inside the header.

## 2. The plan

In the order of importance; what is done is marked.

1. **done** `StoreForward`: the tables and all handlers, atomic. The other
   modules of the platform are built on it.
2. **done** `StoreForwardDelivery`: `StoreForward` with history: what each client
   was owed and was sent.
3. **done** `StoreForward_proofs`: the invariants of the tables, for any instance.
4. **done** `SubscriberSessions`, an abstract specification, and `Notification`,
   the loop, kernel and processes, shown to implement it.
5. **done** `Router`, and `Router_proofs`.
6. **done** `RouteLookup`: the table `cmp` leaves, with its overflow, and the
   binary search, a probe a step, over all small tables.
7. **done** `Checksum`: `check_1624` and `ip_checksum` on scaled words along a path
   of routers; the borrow at `router.c:111`.
8. **done** `WaitingQueue` implements `Fifo`: the linked lists of `queue.c` justify
   the sequences that `Router` has for its queues.
9. **done** `UdpPayload`: `buf` and `t_msg`, byte by byte. *Left:* the framing of
   `tcp_msg` over several `recv` calls (`subscriber.cpp:141`).
10. **done** `Chat`: Test-Chat, its server, connections and clients.
11. **done** `HttpReceive`, the receive loop, and `RestSession`, the client with its
    cookie and token against a service whose answers may be refused, busy, cut
    or missing.
12. **done** proofs for every module: `StoreForward_proofs`,
    `StoreForwardDelivery_proofs`, `Notification_proofs` (with the refinement of
    `SubscriberSessions`), `Router_proofs`, `RouterParts_proofs` (lookup, checksum,
    refinement of `Fifo`), `Chat_proofs`, `RestSession_proofs`, `UdpPayload_proofs`. Every
    invariant and every action property of the passing runs is a theorem; what
    is left to TLC is in section 9.

The modules to be proved about declare no recursive operator and take their
parameters as constants with named assumptions.

## 3. The notification platform

```
            SubscriberSessions   (abstract: who holds an id, what commands do)
                    ^ implemented by (SessionsKept)
 StoreForward <-- Notification   (loop, kernel, processes)     MCNotification
      ^  ^------- StoreForwardDelivery  (history)              MCDelivery
      |                                                        MCStoreForward
 StoreForward_proofs            UdpPayload  (decode_udp)  ----> MCStoreForward
      ^-- Notification_proofs           ^
      ^-- StoreForwardDelivery_proofs   UdpPayload_proofs
```

### StoreForward

The variables are the maps of `server.cpp:207-242` under their own names, made
total functions. Where the code can tell a missing key from a default value,
the difference is kept: `Absent` in `client_sockfds` (286) and `saved_keys`, the
key set of `saved_topics` (336), which `operator[]` extends by looking up (89,
113) and which decides whether a message is stored. `saved_msgs` maps each
stored message to its counter `no_subs`; a message is its number in the stream
and its topic, and the order of the vector is the order of the numbers.

| action | code |
|---|---|
| `ConnectNew` | 286-292, id not in `client_sockfds` |
| `Reconnect` | 293-304, with `send_stored` (84-104) and `delete_from_stored` (106-123) |
| `ConnectDuplicate` | 305-313 |
| `Disconnect` | 345-358, with `update_store` (73-82) |
| `Subscribe`, `Unsubscribe` | 359-373, 374-379 |
| `PublishUdp` | 314-339 |

Invariants: `SocketTablesAgree`, `SavedTopicsExact`, `SavedKeysExact`,
`NoSubsBounded`, `SubscriptionsNested`.

### StoreForwardDelivery

Adds history only: `session` (messages sent to a client since it connected),
`owed` (published while it was away with sf = 1 and not sent since), `stray`
(messages resent to a client they were not owed to) and `sf_users`.
`ResendSequence(c)` is the order in which `send_stored` sends: the one sequence that
has each stored message of the client's topics once and ascends, as the vector
of the code does. The module answers
what the anonymous counter is worth. `CountIsOwers`: it is exact as long as no
client has taken a resend meant for another. `LossOnlyAfterStray`: that is the
only way to lose a message. `ExactForLoneSubscriber`: with one sf = 1 user per
topic it cannot happen. `SessionInOrder`: a session sees messages in order, none
twice. That messages are in fact lost otherwise is the run `stored_loss`.

### Notification

Extends `StoreForward`: every change to the tables is one of its actions.

- The server's program counter `server` is `select`, `scan`, `id` (blocked in the
  `recv` of 283), `exited` or `died` (the macro `DIE`, or SIGPIPE). `Select` takes
  the snapshot `tmp_fds`; the scan goes through it in ascending order, as the
  loop at 265 does. `HandleAccept` gives the lowest free descriptor and waits for
  the id in a step of its own, so everything the subscribers do can happen in
  between.
- A connection of process `p` is `sock[p]` (the descriptor, `NoSock` before accept),
  `up[p]` (sent by `p`, not received) and `peer[p]`: `open`, `fin` (closed by `p`), `reset`
  (closed with unread input), `broken` (the server has sent on it since). A
  `recv` takes everything in `up[p]`, as the kernel does for pending bytes.
- A subscriber connects, sends its id, then sends commands, receives, exits, or
  sees the end of the stream; its slot can then be used by a new process with
  the same id.

`SubscriberSessions` is what a user could be told: an id has one holder; only
the holder changes the id's subscriptions, by commands it has sent, each at
most once, in order. It allows commands to be lost, because the protocol loses
them (run `commands`). The refinement maps the holder of an id to the process
at the other end of `client_sockfds[id]` (`Holders`) and the pending commands to `up`
without the id message (`CommandsSent`).

### UdpPayload

All that the server reads, from its terminal, from UDP and from clients, goes into
one `buf`; what it sends goes through one `t_msg`. Neither is cut to the length of
what is put into it: `decode_udp` copies the whole payload of a STRING with `memcpy`
(66-70), and numbers are printed over what was there (30-65). The module follows
the cells of the payload in both, each with its origin: the message that is
handled (`now`), a line of the terminal, a client, something older, or `NUL`.

| action | code |
|---|---|
| `Select` | 244-250, with the `memset` of `buf` (`Cleared`) |
| `Terminal` | 252-263, `fgets` of a line that is not `exit` |
| `HandleUdp` | 314-323 with `decode_udp` (21-71): `DecodeNumber`, `DecodeString`, `DecodeUnknown` |
| `HandleClient` | 283 and 342, `recv` of an id or of commands, behind the UDP socket in the scan |

`OwnBytes`: what a subscriber is shown of a message of a known type is made of its
own bytes, and of a line typed in the same round at most; nothing older and
nothing of a client, for any length of the payload and whether or not the sender
has put a `NUL` behind a STRING. It rests on the `memset` of each round and on the
scan, which reaches the UDP socket first. Which digits a number has is not
modelled. The tables see only the topic of a message, so the module shares no
state with `StoreForward` and is checked beside it, one moving while the other
rests.

## 4. The router

`Router` takes one frame per action; every early return of the loop
(`router.c:151-301`) is an action: `HandleOwn` (161-177), `HandleExpired` (179-186),
`HandleCorrupt` (192-194), `HandleUnroutable` (196-204), `HandleForward` (245-249),
`HandleWait` (222-244), and `HandleReply` / `HandleUnaskedReply` (269-297, the loop
that flushes the queues is part of the action). `arp_table` and the queues are
sequences under their own names; `get_best_route` is the constant `Route`; whether
a checksum is right is a free choice. `received`, `waited`, `sent` and `icmp` are
history: what came, what was queued, what left, what was answered. `requests`
counts the ARP requests on their way, so that hosts answer them in any order;
replies that nobody asked for come too.

`HeadUnresolved` is what the flushing loop is for: after each frame, the oldest
waiting packet is one that has to wait. With `WaitsForAnswer` (its next hop has
been asked) it gives `WaitEnds`. `QueuesInStep` says that the three queues, which
the code moves separately, always hold parts of the same packet.

What `Router` takes as given has modules of its own, without common state, which
`MCRouter` checks beside it, one moving while the others rest:

- **`RouteLookup`**, for `Route`. `LoadTable` is `parse_route_table` and `qsort`: since
  `cmp` (48-57) returns a 32-bit difference as `int` and is then no order, what is
  known of a sorted table is only that neighbours stand as `cmp` says (`Sorted`).
  `Call`, `Probe` and `Return` are `get_best_route` (59-83). The test at 69 is `>=`
  on the masked address and is never followed by a test for equality.
  `SearchFindsLast` is what the search gives if the fitting entries come first in
  the table; `LookupRight` is the case where they do: with one mask (but for a
  default route) and prefixes closer than 2^31, an address that matches an entry
  gets an entry that matches. With several masks neither need hold, and an
  address that matches nothing may still be given an entry.
- **`Checksum`**, for the choice whether a header is right. A packet is sent with a
  right checksum (`Emit`, `Sealed`) and crosses routers that verify it with
  `ip_checksum` (`skel.c:169-219`, at an address that is or is not a multiple of 4)
  and update it with `check_1624` (`router.c:106-119`). `ChecksumRight`: the sum does
  not depend on the address, and an undamaged packet verifies and is not dropped
  as long as none of the updates before had to borrow (`router.c:111`). An update
  that borrowed is another matter: the folding does not take back its 2^32, and
  the header does not verify. That is not what the README of the router claims of
  `check_1624`, and is the run `checksum` (section 10). `Accumulated` is the sum of the 32-bit blocks that a header of
  four words is cut into at either address; `Fold` is the loop that adds carries,
  which ends after two rounds for every sum that can reach it (`FoldIsWord`).
- **`WaitingQueue`**, for the sequences `q_pack`, `q_int`, `q_next`. Cells of a heap with
  contents left over; `queue_deq` does not reset `tail`, which then points to a
  freed cell that may be in use again. `QueueIsFifo`: it implements `Fifo`, whose
  `stored` also says that no cell is lost. The items are those of the cells on the
  way from `head` to `NULL` (`QueueCells`).

## 5. The chat

`Chat` models `Test-Chat/server.cpp` and `client.cpp` with the connections between
them. One handler of the `select()` loop is one step, apart from the blocking
`recv` of a nickname at 124, which is a step of its own (`server` = `nickname`): all
clients act in between. Unlike in the notification server no handler closes a
descriptor but its own, so what `select()` has reported still holds when the
scan reaches it, and the snapshot is left out.

| action | code in `server.cpp` |
|---|---|
| `Accept`, `ReceiveNickname` | 109-121, 123-140 |
| `HandleExit` | 144-156 |
| `HandleList`, `HandleMsg` | 159-175, 176-203 |
| `HandleWrongNumber`, `HandleIncomplete` | 185-189, 180-186: undefined behaviour, which dies or does nothing |
| `HandleUnknown` | two lines received as one text |
| `ServerExit` | 90-103 |

`Connect`, `SendNickname`, `Type`, `Receive` and `Exit` are `client.cpp`. `up[p]` is what
the server will receive as one text; `peer[p]` is as in `Notification`. The lookup
at 189 inserts (`Lookup`): `MSG 0` makes an entry for the name "0" with descriptor
0, which is why "0" is one of the nicknames.

`SocketsAgree`: the map from names to descriptors and its inverse agree on all
open descriptors, whoever came and went. `ReachesNamed`: a message reaches the
name with the typed number, under the name of its sender. `LoneNamesListed`:
LIST shows who is connected, for names that no two connections have had at one
time; when the older of two leaves, the entry of the name is made inactive
although the newer is still there. `OneNumberEach`: a name keeps the number it
got first. `TypedIsReceived`: whatever is typed is received while the server
runs.

## 6. The REST client

`HttpReceive` is `receive_from_server` (`helpers.c:73-126`) with `buffer.c`. A response
is a sequence of segments (a header line, a CRLF, a part of the body); a read
returns any number of them, and the stream may end anywhere. `ReadHeader`,
`HeaderEof` and `ReadBody` are the two loops and the way from the first to the
second when the stream ends too early, where `header_end` is what the last search
has left (109; -1 becomes the largest length).

`RestSession` is the command loop of `client.c`: a command is a request record and
a `Send`, its response is read with `HttpReceive`, and one action per command and
outcome handles it (`LoginError`, `LoginDone`, ... `LogoutDone`, 293-497). The state
that outlives a command is the cookie, the token and the position that `strtok`
keeps between calls: `strstr` at 340 may find no `Set-Cookie`, and `strtok(NULL)`
at 341 then goes on in the text of an earlier call (`LoginOldText`) or uses the
null pointer (`LoginCrash`). The service is external: accounts, sessions, books;
it may refuse with JSON, be busy (429, no JSON), cut its answer or not answer.
The user may leave and start the client again at any prompt.

`TokenOfSession`: the token is that of the session the cookie names, so that
nobody works in another user's library after a logout and a login.
`CookieOpen`: the client never keeps the cookie of a session the service has
closed, even if the answer that said so was lost. `ReceivedWhole`: nothing of a
response is left unread when `receive_from_server` returns. `ClaimsTrue`: if the
answer was whole and not 429, what the user is told is what the service did.
`CommandEnds`: every command ends, also on a connection the service keeps open.

## 7. Runs and bounds

| run | module, specification | bounds | states | what it shows |
|---|---|---|---|---|
| `store_forward` | MCStoreForward, `MCSpec` | 3 ids, 2 descriptors, 2 topics, 2 messages; ids and topics symmetric; payloads of 4 bytes and a `NUL`, numbers of up to 2 digits | 35 439 | the six conjuncts of the inductive invariant; the bytes of a message |
| `delivery` | MCDelivery, `DSpec` | 3 ids, 2 descriptors, 1 topic, 2 messages; ids symmetric | 204 908 | delivery properties |
| `sessions` | MCNotification, `NSpec` | 3 processes, 2 of them with one id, 2 descriptors, 1 message, 1 unreceived send each | 691 803 | loop and descriptors; refinement of `SubscriberSessions` |
| `served` | MCNotification, `NSpec` | 2 processes with one id, 2 messages, 2 unreceived sends each, sf 0 and 1 | 160 227 | liveness; the refinement again, where one `recv` takes several sends |
| `router` | MCRouter, `MCSpec` | 2 next hops, 2 MACs, 3 packets, 1 unasked reply; tables of up to 3 of 8 routes, addresses of 4 bits; header words of 4 bits; 3 cells | 139 399 | queues, outcomes, order, liveness; lookup, checksum; refinement of `Fifo` |
| `chat` | MCChat, `Spec` | 2 processes with any of 2 names, one of them "0", 2 descriptors, numbers 0 and 2, 2 lines and answers under way | 221 647 | the tables of the chat, messages, liveness |
| `rest` | MCRest, `Spec` | 2 users, 1 book, 2 sessions, every split and every cut of each answer | 541 716 | cookie and token, reports, termination |
| `stored_loss`, `server_stops`, `commands`, `arp_stale`, `checksum` | | | | end in a counterexample, see 10 |

Why these are enough to meet the hard cases. With fewer descriptors than ids,
descriptors pass from client to client and `accept` meets its limit. Two
processes with one id meet in every order: duplicate, takeover after exit,
exit while queued. Three ids on one topic are needed for a message to be
taken by one client, lost by a second and counted by a third; two messages for
an order. Two pending sends are the least for the bytes of two to be received
as one. Three packets with two next hops are needed for a flush that stops in
the middle of the queues. A payload of four bytes has
room for a text, its `NUL` or none, a line that is longer than the text and one that
is shorter. Words of 4 bits are wide enough for every case of the
arithmetic: two bytes, carries out of either, carries of carries, borrows, a
sign bit; three routes for a probe on either side of the middle; three cells for
a list in which a freed cell is used again behind the head. Two chat processes
are enough for one name on two connections, a descriptor that passes to another
name, and a client that writes to one that has left; number 2 is a name or none
yet. Two sessions are what a token can be confused between. Symmetry is used only for values that are compared
for equality, and only in runs without liveness.

`MaxMsgs`, `MaxPending`, `MaxPackets`, `MaxUnasked`, `MaxRoutes` and `MaxSessions` bound how much arrives, in
the guards of the environment; no handler is bounded by them except through
its input. `CHECK_DEADLOCK FALSE` is set where the system may really stop:
after `exit` or death of a server, and when no more frames come. The runs
`store_forward`, `delivery` and `rest` check for deadlock.

A subtlety: with one unreceived send per process (`sessions`) an id and a command
cannot arrive together; the run `served` covers that.

## 8. Fairness

- `WF(ServerStep)`: the server is one thread in an endless loop and takes another
  step whenever one is possible. Nothing is assumed on which handler: the order
  is fixed by the scan. `exit` on its terminal may come at any time and is not
  required.
- `WF(SubSendId(p))`: a subscriber sends its id directly after `connect`
  (`subscriber.cpp:79-88`), with nothing to wait for in between.
- `WF(SubEof(p))`: a subscriber in `select` notices that its stream ended.
- Nobody has to connect, type a command, receive, exit or publish.
- Router: `WF(Answer(h))`: a host answers the ARP requests it gets. Frames are
  handled in the step in which they arrive, so the loop needs no assumption.
- Chat: `SF(Accept)` and `SF(Handle(p))`: the scan goes through all descriptors that
  `select()` has reported and each round begins anew, so a descriptor that stays
  ready is handled whatever else arrives; the blocking `recv` of a nickname only
  interrupts that for a while, because a client sends its nickname directly
  after `connect` (`WF(SendNickname(p))`, `client.cpp:41-48`).
- REST: `WF(Serve)`, `WF(Receive)`, `WF(Handle)`: the service answers or the connection
  ends, and the client is sequential.

`ConnectionServed` and `ExitNoticed` are promises while the server runs; that it may
stop otherwise is a finding of its own.

## 9. What is proved

Eight modules prove for all values of the constants what TLC checks on the
instances. Each inductive invariant was first checked by TLC as an invariant of
a run's instance (`ChecksumInv` with `%` for the congruence, which ranges over all
integers). The assumptions on constants, which TLC evaluates in the runs:

| assumption | |
|---|---|
| `StoreForwardAssumption` | ids are finitely many, so that a counter can be compared with a cardinality; `Closed` and `Absent` are no descriptors and no ids |
| `NotificationAssumption` | a process is started with one id; descriptors are numbers above that of the listening socket; sf is 0 or 1; the other values are none of these |
| `PayloadAssumption` | a printed number fits a payload |
| `RouterAssumption` | a route's next hop and interface exist; ttl is a byte |
| `LookupAssumption` | prefixes and masks are words, and so is what `&` makes of two words |
| `ChecksumAssumption` | a byte has more than one value, and the words of a header fit a word of two bytes |
| `QueueAssumption` | the heap has finitely many cells, `NULL` is none of them |
| `ChatAssumption` | descriptors are numbers above 3, the other values differ from them |
| `RestAssumption` | sessions are numbered below `Endless`, the largest length, which also stands for a cookie no service has sent |

**StoreForward.** `IInv` is the conjunction of the type invariant and the five
invariants, and it is inductive only as a whole. `Disconnect` and `Subscribe` work
under `client_ids[s]`, so `SavedTopicsExact` needs `SocketTablesAgree`; the decrement
of `Reconnect` matches the removal from `saved_topics` only if the client is in
`saved_topics` for exactly the topics in `saved_ids` (`SavedTopicsExact`), or
`NoSubsBounded` breaks; `PublishUdp` stores with a positive counter only because of
`SavedKeysExact`. One lemma per action, one step per conjunct.

| theorem | |
|---|---|
| `InductiveInvariant` | `Spec => []IInv` |
| `TypeCorrect`, `SocketTablesAlwaysAgree`, `SavedTopicsAlwaysExact`, `SavedKeysAlwaysExact`, `NoSubsAlwaysBounded`, `SubscriptionsAlwaysNested` | the conjuncts |
| `StoreNeverLeaks` | nothing is stored for a topic nobody waits on |

**StoreForwardDelivery.** `DInv` joins `IInv` with the checked properties and five
facts. `NumbersPast`: what was sent, owed or stored has a number that was given
out, and the store holds a number once; else a new message could equal an old
one. `OwedAreAway`: a client that is away is still entered in `saved_ids` for the
topics of what it is owed, because only a connected client can unsubscribe; it
is what makes the messages a returning client is sent cover what it was owed.
`SfUsersRecorded` and `StrayIsShared` carry `ExactForLoneSubscriber`: a message strays
only if two clients have asked for its topic, so with one it never does.
`CountIsOwers` is the core. On `PublishUdp` the counter is set to the cardinality
of `saved_topics`, the clients that become owers (`IInv`); on `Reconnect` one
is taken from each counter and one ower from each message, unless the message
strays, and a message that leaves the store at 0 leaves nobody behind
(`CountIsOwers` of the state before). The lemma on `ResendSequence` is that it is
ascending and has each stored message of the topics once, by the finiteness of
the store.

| theorem | |
|---|---|
| `DeliveryInvariant` | `DSpec => []DInv` |
| `CounterCountsOwers`, `LossNeedsStray`, `SessionsInOrder`, `LoneSubscriberExact` | what the run `delivery` checks |

**Notification.** `NInv` joins `IInv` of the tables with the kernel and the processes.
`DescriptorOwned`, `BacklogOnce`, `StageOfConnection` and `Accepted` say where a
connection is: nowhere, waiting once, accepted with its id awaited, or watched.
`IdFirst` and `CommandsAfter` say what is on the way of each: behind the id only
commands. `SessionOwned` relates the tables to the processes, and `ReportsHold` is
the part of `NoEmptyReceive` about the scan: it needs `DescriptorOwned`, since a
handler that closes a descriptor must close no other process's, and the
ascending order of the scan, since a closed descriptor is no longer in
`tmp_fds`. `SessionOfProcess` and `NoEmptyReceive` follow from the conjunction.
For the refinement, `NSpec => SessionsKept`, each handler is shown to be a step of
`Sessions!Next` or a stutter: an accepted new or returning id is `Attach`, a command
is `Apply` (what `recv` took beside the first command is the dropped part), the end
of a session is `Detach`, and a duplicate id is `Drop`.

| theorem | |
|---|---|
| `NotificationInvariant`, `NotificationTypes` | `NSpec => []NInv`, types |
| `SessionsOfProcesses`, `ReceivesNeverEmpty` | what the runs `sessions` and `served` check |
| `SessionsImplemented` | `NSpec => SessionsKept` |

**UdpPayload.** `OwnBytes` speaks of `t_msg` once it is sent; `PInv` adds what is known of
`buf` before (`BufFresh`): between the `memset` and the UDP message it has nothing but a
line of this round, and its last cell, which neither `fgets` nor a message reaches,
is `NUL`. `NumberIsOwn`: what `sprintf` leaves behind its `NUL` is not shown. `StringIsOwn`:
a text shows itself and, without its `NUL`, what `BufFresh` allows.

| theorem | |
|---|---|
| `AlwaysOwnBytes` | `PayloadSpec => []OwnBytes` |

**Router.** `IInv` adds `Numbered` to the checked invariants: the numbers in use are
those of packets that came, and a queued packet is the one that came with its
ttl decremented. It is what makes `ForwardedRight` survive the way through the
queue, and what keeps a new packet apart from those in the queues in
`OneOutcome` and `QueueOrder`. The main lemma is `ReplyKeepsIInv`: the flushing loop
is described by `SendableStops` (it stops at the end or at the first unknown next
hop), and every index of the new `sent` is an old one or belongs to one of the
first `k` packets of the queue. That a least table entry and a greatest sendable
prefix exist follows from the well-foundedness of `<` on the naturals.

| theorem | |
|---|---|
| `InductiveInvariant`, `TypeCorrect` | `Spec => []IInv`, types |
| `QueuesAlwaysInStep`, `HeadAlwaysUnresolved`, `AlwaysWaitsForAnswer` | the queues |
| `AlwaysOneOutcome`, `AlwaysForwardedRight`, `AlwaysQueueOrder` | what leaves |

**RouterParts.** The modules `RouteLookup`, `Checksum` and `WaitingQueue`, which share no
state, are proved about in one module.

*RouteLookup.* The invariant of the search (`SearchInductive`) is that `ind` is the
last index before `l`, that it fits if it is not 0, and that the entry after `r`
does not fit: this much holds for any table. If the fitting entries come first,
it follows that `ind` is the last of them. `LookupAlwaysRight` then has to show
that they do: without overflow a table whose neighbours are in order is
ascending (`TableAscending`, by the least entry that would be smaller than one
before it), with one mask all entries but the default routes compare the same
masked address (`OneMaskMonotone`), and the last fitting entry, being no smaller
than a matching one and no greater than the masked address, matches.

| theorem | |
|---|---|
| `SearchInductive`, `SearchAlwaysFindsLast` | the binary search, for tables of any length |
| `LookupAlwaysRight` | `LookupSpec => []LookupRight`, for any word width |

*Checksum.* One's complement sums are sums modulo `Word - 1`, which is what the proof
works in (`Congruent`). A high word weighs `Word`, which leaves 1, so the sum of
blocks is congruent to the sum of words at either address (`AccumulatedIsTotal`);
adding a carry changes nothing modulo `Word - 1` and two rounds leave a word from 1
(`FoldIsWord`), of which there is one for each sum. Hence a header is right exactly
if its words add up to 0. `check_1624` takes back what ttl has lost
(`UpdateOfTtl`), unless it borrows: then the sum is wrong by 1 after the folding,
and the header does not verify. `ChecksumInv` is that the words add up to 0 exactly as
long as no update has borrowed, and that only such a packet has been dropped. Words have any even number of bits and a path any length;
the header has the four words of the model.

| theorem | |
|---|---|
| `ChecksumInductive` | `ChecksumSpec => []ChecksumInv` |
| `ChecksumAlwaysRight` | `ChecksumSpec => []ChecksumRight` |

*WaitingQueue.* `QInv` is that there is a list of distinct cells from `head` to `NULL`,
that these are the allocated cells, and that the last one is `tail` unless the list
is empty: nothing is said of the `tail` of an empty queue, which the code never
follows. Two lists from `head` have the same cells (`ListGoesAlong`, by the least index
at which they would differ), so the cells of the refinement mapping are these
(`LinkedIsQueueCells`). Enqueueing then appends one item and one cell, whichever
free cell `malloc` returns, and dequeueing takes the first of each.

| theorem | |
|---|---|
| `ListInductive` | `QueueSpec => []QInv` |
| `QueueImplemented` | `QueueSpec => QueueIsFifo` |

**Chat.** `CInv` adds to `SocketsAgree` and `OneNumberEach` who owns what:
`ConnectionsOnce` (a process is queued at most once or has one descriptor, no two
have the same one), `DescriptorsOwned` (the descriptors watched are those of the
processes, and the descriptor whose nickname is waited for has no name yet) and
`NamesKnown` (what has a number or a descriptor has an entry). A new name could
otherwise take a descriptor that an older entry still has, and the lookup of
line 189 could make a name known that has no number: `NamesKnown` leaves "0" as the
only one.

`NamesInv` holds on top of it and is about what is on the way. `ConnectionsNamed` (a
descriptor has the name its process was started with, once the server has
received it), `UnreadIsOpen` (what is unread is on an accepted connection) and
`MessagesNumbered` give `ReachesNamed`: a process cannot take another name while a
message to its old one is unread. `LoneNamesMapped` gives `LoneNamesListed`: the entry
of a name that has not had two connections at once is the descriptor that has
it; `StdinIsZero` keeps the entry that `MSG 0` makes apart.

| theorem | |
|---|---|
| `TablesInductive`, `ChatInvariant` | `Spec => []CInv`, `Spec => [](CInv /\ NamesInv)` |
| `SocketsAlwaysAgree`, `AlwaysOneNumberEach` | the tables of the chat |
| `AlwaysReachesNamed`, `LoneNamesAlwaysListed` | messages and LIST |

**RestSession.** `RInv` is about the response that is being read as a whole: `Whole` is
what was read and what was not, which a read only divides in another way.
`CredentialsCarried`: a token on its way is that of the cookie, a cookie that of an
open session; with `RequestMade` (a request has the credentials the client still
has, and login none) and `Between` (nothing is on its way between commands) this
gives `TokenOfSession`. `SessionHeld`: the session of the cookie is closed only while
the answer to the logout is read, and that answer carries no JSON, whole or cut,
so that the client gives up the cookie: `CookieOpen`. `LengthKnown`: at whatever point
the header was found to be complete, the length computed from it is not short
of the response, which is what `ReceivedWhole` rests on. `AnswerMeans` says what
lines the answers have that are neither cut nor busy, and each handler of a
result is shown to tell what they mean: `ClaimsTrue`.

| theorem | |
|---|---|
| `RestInvariant`, `RestTypes` | `Spec => []RInv`, types |
| `TokenAlwaysOfSession`, `CookieAlwaysOpen`, `AlwaysReceivedWhole` | the client's credentials, and reading |
| `ClaimsAlwaysTrue` | `Spec => ClaimsTrue`, a property of steps |

Only model-checked: the liveness properties `ConnectionServed`, `ExitNoticed`,
`WaitEnds`, `TypedIsReceived` and `CommandEnds` (liveness under fairness needs ENABLED,
which is beyond the prover). Nothing else of the passing runs is. The runs that
end in a counterexample need no proof.

## 10. Disagreements with the documentation

Each is the counterexample of a run.

- `stored_loss` (`server.cpp:94`): the counter of a stored message is decremented for
  any returning client that is subscribed to its topic with sf = 1, even one
  that has the message already; the client it was kept for then never gets it.
- `server_stops` (`server.cpp:343`): a subscriber that exits with an unread message
  resets its connection, and `recv` = -1 ends the server.
- `commands` (`server.cpp:361`): a command received together with the id or with an
  earlier command is dropped, after the subscriber has reported it done.
- `arp_stale` (`router.c:89`): ARP replies are appended and the oldest entry wins, so
  the table is never updated.
- `checksum` (`router.c:111`): the 32-bit difference of `check_1624` may borrow, and
  folded to 16 bits it is then not the RFC 1624 update that the README (77-85)
  says it is: a packet nobody has damaged does not verify at the next router.
  This happens on about one of 256 hops.

Behaviours met while modelling that no document contradicts, or that a run
states as an exception, not as a finding of its own:

- Where networks of several mask lengths are in one table, the lookup can give
  the default route, or a network that does not match, to an address with a
  matching network (`router.c:69`). `OneMask` keeps such tables out of
  `LookupRight`, `Monotone` out of `SearchFindsLast`. `NoOverflow` keeps out tables with
  prefixes 2^31 or more apart, which `cmp` (56) does not order. The README of the
  router (22) calls the search one for the longest common prefix.
- A packet to an address of the router that comes by another interface than the
  addressed one is not the router's own (`router.c:161-163`): it is forwarded, or
  answered with destination unreachable. The README (39-40) has an ICMP Echo to
  an address of the router answered. `Router` models it (`OwnIp`), and no
  property speaks of it.
- A UDP message of a type above 3 is sent with the type and the payload of an
  earlier one, or of uninitialized memory (`server.cpp:25-30`); the readme lists
  types 0 to 3 only. A line typed in the same round shows behind a STRING that is
  shorter and is sent without its `NUL` (255). A topic of 50 bytes is not terminated:
  `topic[50]` of `t_msg` is never written (28). A FLOAT of 2^31 or more wraps in an
  `int32_t` (52).
- In the chat, `MSG` with a number nobody has reads `id_user` out of its bounds, and
  `MSG` without a number may end the server (185-187); `MSG 0` makes "0" a known
  name without a number; when the older of two connections with one name exits,
  the newer disappears from LIST.
- A login that the service answers with 429, or whose answer is cut before the
  JSON, is reported as done (`client.c:337-350`); the cookie is then garbage or the
  client crashes. The REST README (59-60) says that without an error the login
  has succeeded, which an answer without JSON is not known to be. `ClaimsTrue`
  therefore speaks of whole answers other than 429.

## 11. What is not modelled

- A `send` that blocks on a full socket, and a `tcp_msg` received in parts: buffers
  hold hundreds of messages, out of reach of an instance, and no code depends on
  how the parts are put together again.
- A process that dies between `connect` and sending its id: `recv` at 283 then
  returns 0 and the old content of the buffer is taken for an id. `NSpec` gives
  every process that step.
- A subscriber that types `exit` after the server has closed its connection:
  the same as seeing the end of the stream.
- The bytes of a topic, which is a value, and the digits of a number: INT,
  SHORT_REAL and FLOAT are one case of `decode_udp`.
- A restart: the programs keep nothing on disk, so it is a new start.
- Router: the order in which `get_packet` polls interfaces (frames come in any
  order, which includes it), ARP requests to the router (answered from the
  frame, no state), the capacity of the ARP table (100 002 entries), the content
  of headers.
- `ip_checksum` at an odd address: headers lie at even ones.
- Packet construction in `skel.c` fills in headers and opens raw sockets, and has no
  state; only that a header is sealed by the checksum over a zero field is in
  `Checksum`. `udp_client.py` is a load generator: UDP messages arrive.
- Chat: a client that is killed (before its nickname, or with unread messages
  other than by `exit`), and `MSG` with a number and no text.
- REST: the end of standard input (`client.c:257-261` reads it as an empty line for
  ever), the format of requests and of JSON; `parson.c` is third-party code.
