----------------------------- MODULE UdpPayload -----------------------------
(***************************************************************************)
(* 02-Notification_Platform/server.cpp: buf, which takes whatever is read, *)
(* from the terminal, from UDP and from clients, and t_msg, which is sent  *)
(* to subscribers for every UDP message.  Neither is cut to the length of  *)
(* what is put into it, so each byte is followed by where it comes from.   *)
(*                                                                         *)
(* Of both only the payload is kept: the cells of buf behind the topic and *)
(* the type of a udp_msg.  The scan reaches sock_udp, the first socket of  *)
(* the server, before any other one.                                       *)
(***************************************************************************)
EXTENDS Integers

CONSTANTS Room,     \* bytes a message has for its payload: 1500
          Digits    \* the most that sprintf writes of a number

ASSUME PayloadAssumption ==
    /\ Room \in Nat
    /\ Digits \in 1..Room

\* char payload[1501], (+1) for '\0'.
PayloadCells == 1..(Room + 1)

\* A byte is '\0' or comes from the UDP message that is handled, from a line
\* of the terminal, from a client, or from what was there before: an earlier
\* round of the loop, an earlier message, or memory never written.
Bytes == {"NUL", "now", "line", "client", "old"}

VARIABLES
    buf,       \* the cells of buf that u_msg->payload stands for
    payload,   \* t_msg.payload
    d_type,    \* "number", "STRING", "unknown": of the message handled last
    round,     \* "select", "cleared", "sent", "clients": where the loop is
    typed      \* a line was read from the terminal in this round

payloadVars == <<buf, payload, d_type, round, typed>>

PayloadInit ==
    /\ buf = [i \in PayloadCells |-> "old"]
    /\ payload = [i \in PayloadCells |-> "old"]
    /\ d_type = "unknown"
    /\ round = "select"
    /\ typed = FALSE

\* Bytes that later messages find.
Aged(cells) == [i \in PayloadCells |-> IF cells[i] = "NUL" THEN "NUL" ELSE "old"]

\* n bytes of one kind at the start, m '\0' behind them, the rest as it was.
Written(cells, byte, n, m) ==
    [i \in PayloadCells |-> IF i <= n THEN byte
                            ELSE IF i <= n + m THEN "NUL"
                            ELSE cells[i]]

\* Mutant: the memset at 250 is missing.
NotCleared(cells) == Aged(cells)

\* The memset at 250.
Cleared(cells) == [i \in PayloadCells |-> "NUL"]

\* select() returns, and the next round begins.
Select ==
    /\ buf' = Cleared(buf)
    /\ round' = "cleared"
    /\ typed' = FALSE
    /\ UNCHANGED <<payload, d_type>>

\* fgets: a line that is not exit, and its '\0'.  It leaves the last byte but
\* one for that; a short line ends before the payload, and at the end of the
\* input nothing is read.
Terminal ==
    /\ round = "cleared"
    /\ ~typed
    /\ typed' = TRUE
    /\ \/ \E n \in 0..(Room - 1) : buf' = Written(buf, "line", n, 1)
       \/ UNCHANGED buf
    /\ UNCHANGED <<payload, d_type, round>>

\* Types 0 to 2: sprintf ends what it writes.
DecodeNumber ==
    /\ d_type' = "number"
    /\ \E n \in 1..Digits : payload' = Written(Aged(payload), "now", n, 1)

\* Type 3: memcpy takes all cells, whether the text ends or not.
DecodeString ==
    /\ d_type' = "STRING"
    /\ payload' = buf'

\* Any other type leaves d_type and payload of t_msg alone.
DecodeUnknown ==
    /\ d_type' = "unknown"
    /\ payload' = Aged(payload)

decode_udp == DecodeNumber \/ DecodeString \/ DecodeUnknown

\* recvfrom: n bytes of data, and m of '\0' if the sender put some behind
\* them.  The message is decoded and sent.
HandleUdp ==
    /\ round = "cleared"
    /\ \E n, m \in 0..Room : n + m <= Room /\ buf' = Written(buf, "now", n, m)
    /\ decode_udp
    /\ round' = "sent"
    /\ UNCHANGED typed

\* recv of an id or of commands, up to BUFLEN - 1 bytes.
HandleClient ==
    /\ round # "select"
    /\ \E n \in 0..Room : buf' = Written(buf, "client", n, 0)
    /\ round' = "clients"
    /\ UNCHANGED <<payload, d_type, typed>>

PayloadNext == Select \/ Terminal \/ HandleUdp \/ HandleClient

PayloadSpec == PayloadInit /\ [][PayloadNext]_payloadVars

(***************************************************************************)
(* Properties                                                              *)
(***************************************************************************)

\* What a subscriber prints of a payload: the bytes before the first '\0'.
Shown(cells) ==
    {cells[i] : i \in {j \in PayloadCells : \A k \in 1..j : cells[k] # "NUL"}}

\* A message of a known type shows its own bytes and nothing that an earlier
\* message, an earlier round or a client has left in buf or in t_msg, and it
\* ends in the payload.  Only a line typed in the same round can be seen
\* behind a STRING that is sent without its '\0'.
OwnBytes ==
    round = "sent" /\ d_type # "unknown" =>
        /\ Shown(payload) \subseteq IF typed THEN {"now", "line"} ELSE {"now"}
        /\ \E i \in PayloadCells : payload[i] = "NUL"
=============================================================================
