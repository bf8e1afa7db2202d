------------------------- MODULE UdpPayload_proofs -------------------------
(***************************************************************************)
(* OwnBytes for payloads and numbers of any length.  It is inductive only  *)
(* with what is known of buf before the message is read: nothing but what  *)
(* was typed in this round.                                                *)
(***************************************************************************)
EXTENDS UdpPayload, TLAPS

PayloadTypes ==
    /\ buf \in [PayloadCells -> Bytes]
    /\ payload \in [PayloadCells -> Bytes]
    /\ d_type \in {"number", "STRING", "unknown"}
    /\ round \in {"select", "cleared", "sent", "clients"}
    /\ typed \in BOOLEAN

\* Before the message is read buf holds a line of this round or nothing, and
\* nobody has written its last cell.
BufFresh ==
    round = "cleared" =>
        /\ \A i \in PayloadCells : buf[i] = "NUL" \/ (typed /\ buf[i] = "line")
        /\ buf[Room + 1] = "NUL"

PInv == PayloadTypes /\ BufFresh /\ OwnBytes

LEMMA WrittenTyped ==
    ASSUME NEW cells \in [PayloadCells -> Bytes], NEW byte \in Bytes, NEW n, NEW m
    PROVE  Written(cells, byte, n, m) \in [PayloadCells -> Bytes]
  BY DEF Written, Bytes

LEMMA AgedTyped ==
    ASSUME NEW cells \in [PayloadCells -> Bytes]
    PROVE  Aged(cells) \in [PayloadCells -> Bytes]
  BY DEF Aged, Bytes

\* The message is what it consists of up to the first '\0'.
LEMMA NumberIsOwn ==
    ASSUME NEW cells, NEW n \in 1..Digits
    PROVE  /\ Shown(Written(cells, "now", n, 1)) \subseteq {"now"}
           /\ \E i \in PayloadCells : Written(cells, "now", n, 1)[i] = "NUL"
  <1> DEFINE w == Written(cells, "now", n, 1)
  <1>1. n \in Nat /\ n <= Room /\ Room \in Nat
    BY PayloadAssumption
  <1>2. n + 1 \in PayloadCells /\ w[n + 1] = "NUL"
    BY <1>1 DEF Written, PayloadCells
  <1>3. \A i \in PayloadCells : i <= n => w[i] = "now"
    BY DEF Written
  <1> HIDE DEF w
  <1>4. ASSUME NEW j \in PayloadCells, \A k \in 1..j : w[k] # "NUL" PROVE w[j] = "now"
    <2>1. j \in Nat
      BY <1>1 DEF PayloadCells
    <2>2. ~(n + 1 <= j)
      BY <1>1, <1>2, <1>4, <2>1
    <2> QED
      BY <1>1, <1>3, <2>1, <2>2
  <1>5. Shown(w) \subseteq {"now"}
    BY <1>4 DEF Shown
  <1> QED
    BY <1>2, <1>5 DEF w

\* A text shows itself and, if its end was not sent, what buf had behind it.
LEMMA StringIsOwn ==
    ASSUME PInv, round = "cleared",
           NEW n \in 0..Room, NEW m \in 0..Room, n + m <= Room
    PROVE  LET w == Written(buf, "now", n, m) IN
           /\ Shown(w) \subseteq IF typed THEN {"now", "line"} ELSE {"now"}
           /\ \E i \in PayloadCells : w[i] = "NUL"
  <1> DEFINE w == Written(buf, "now", n, m)
  <1>1. n \in Nat /\ m \in Nat /\ Room \in Nat
    BY PayloadAssumption
  <1>2. \A i \in PayloadCells : w[i] = "NUL" \/ w[i] = "now" \/ w[i] = buf[i]
    BY DEF Written
  <1>3. \A i \in PayloadCells : buf[i] = "NUL" \/ (typed /\ buf[i] = "line")
    BY DEF PInv, BufFresh
  <1>4. Room + 1 \in PayloadCells /\ w[Room + 1] = "NUL"
    <2>1. Room + 1 \in PayloadCells /\ ~(Room + 1 <= n) /\ ~(Room + 1 <= n + m)
      BY <1>1 DEF PayloadCells
    <2>2. w[Room + 1] = buf[Room + 1]
      BY <2>1 DEF Written
    <2> QED
      BY <2>1, <2>2 DEF PInv, BufFresh
  <1> HIDE DEF w
  <1>5. ASSUME NEW j \in PayloadCells, \A k \in 1..j : w[k] # "NUL"
        PROVE  w[j] = "now" \/ (typed /\ w[j] = "line")
    <2>1. j \in 1..j
      BY <1>1 DEF PayloadCells
    <2> QED
      BY <1>2, <1>3, <1>5, <2>1
  <1>6. Shown(w) \subseteq IF typed THEN {"now", "line"} ELSE {"now"}
    BY <1>5 DEF Shown
  <1> QED
    BY <1>4, <1>6 DEF w

LEMMA PayloadInitInv == PayloadInit => PInv
  BY DEF PayloadInit, PInv, PayloadTypes, BufFresh, OwnBytes, Bytes

LEMMA PayloadNextInv == PInv /\ [PayloadNext]_payloadVars => PInv'
  <1> SUFFICES ASSUME PInv, [PayloadNext]_payloadVars PROVE PInv'
    OBVIOUS
  <1>0. Room \in Nat /\ PayloadTypes
    BY PayloadAssumption DEF PInv
  <1>1. CASE Select
    <2>1. buf' = [i \in PayloadCells |-> "NUL"] /\ round' = "cleared" /\ ~typed'
          /\ UNCHANGED <<payload, d_type>> /\ Room + 1 \in PayloadCells
      BY <1>0, <1>1 DEF Select, Cleared, PayloadCells
    <2>2. PayloadTypes'
      BY <1>0, <1>1, <2>1 DEF PayloadTypes, Bytes, Select
    <2> QED
      BY <2>1, <2>2 DEF PInv, BufFresh, OwnBytes
  <1>2. CASE Terminal
    <2>1. round = "cleared" /\ typed' /\ typed' \in BOOLEAN /\ UNCHANGED <<payload, d_type, round>>
      BY <1>2 DEF Terminal
    <2>2. \A i \in PayloadCells : buf[i] = "NUL"
      BY <1>2 DEF Terminal, PInv, BufFresh
    <2>3. Room + 1 \in PayloadCells
      BY <1>0 DEF PayloadCells
    <2>4. CASE UNCHANGED buf
      BY <1>0, <2>1, <2>2, <2>3, <2>4 DEF PInv, PayloadTypes, BufFresh, OwnBytes
    <2>5. ASSUME NEW n \in 0..(Room - 1), buf' = Written(buf, "line", n, 1) PROVE PInv'
      <3>1. PayloadTypes'
        <4>1. buf' \in [PayloadCells -> Bytes]
          BY <1>0, <2>5, WrittenTyped DEF PayloadTypes, Bytes
        <4> QED
          BY <1>0, <2>1, <4>1 DEF PayloadTypes
      <3>2. \A i \in PayloadCells : buf'[i] = "NUL" \/ buf'[i] = "line"
        BY <2>2, <2>5 DEF Written
      <3>3. buf'[Room + 1] = "NUL"
        <4>1. ~(Room + 1 <= n) /\ n \in Nat
          BY <1>0
        <4> QED
          BY <2>2, <2>3, <2>5, <4>1 DEF Written
      <3> QED
        BY <2>1, <3>1, <3>2, <3>3 DEF PInv, BufFresh, OwnBytes
    <2> QED
      BY <1>2, <2>4, <2>5 DEF Terminal
  <1>3. CASE HandleUdp
    <2>1. round = "cleared" /\ round' = "sent" /\ typed' = typed /\ decode_udp
      BY <1>3 DEF HandleUdp
    <2>2. PICK n \in 0..Room, m \in 0..Room : n + m <= Room /\ buf' = Written(buf, "now", n, m)
      BY <1>3 DEF HandleUdp
    <2>3. buf' \in [PayloadCells -> Bytes]
      BY <1>0, <2>2, WrittenTyped DEF PayloadTypes, Bytes
    <2>4. BufFresh'
      BY <2>1 DEF BufFresh
    <2>5. CASE DecodeNumber
      <3>1. PICK k \in 1..Digits : payload' = Written(Aged(payload), "now", k, 1)
        BY <2>5 DEF DecodeNumber
      <3>2. payload' \in [PayloadCells -> Bytes]
        BY <1>0, <3>1, AgedTyped, WrittenTyped DEF PayloadTypes, Bytes
      <3>3. Shown(payload') \subseteq {"now"} /\ \E i \in PayloadCells : payload'[i] = "NUL"
        BY <3>1, NumberIsOwn
      <3>4. OwnBytes'
        BY <3>3 DEF OwnBytes, Shown
      <3> QED
        BY <1>0, <2>1, <2>3, <2>4, <2>5, <3>2, <3>4 DEF PInv, PayloadTypes, DecodeNumber
    <2>6. CASE DecodeString
      <3>1. payload' = Written(buf, "now", n, m) /\ d_type' = "STRING"
        BY <2>2, <2>6 DEF DecodeString
      <3>2. /\ Shown(payload') \subseteq IF typed' THEN {"now", "line"} ELSE {"now"}
            /\ \E i \in PayloadCells : payload'[i] = "NUL"
        BY <2>1, <2>2, <3>1, StringIsOwn
      <3>3. OwnBytes'
        BY <3>2 DEF OwnBytes, Shown
      <3> QED
        BY <1>0, <2>1, <2>2, <2>3, <2>4, <3>1, <3>3 DEF PInv, PayloadTypes
    <2>7. CASE DecodeUnknown
      <3>1. payload' \in [PayloadCells -> Bytes] /\ d_type' = "unknown"
        BY <1>0, <2>7, AgedTyped DEF PayloadTypes, DecodeUnknown
      <3> QED
        BY <1>0, <2>1, <2>3, <2>4, <3>1 DEF PInv, PayloadTypes, OwnBytes
    <2> QED
      BY <2>1, <2>5, <2>6, <2>7 DEF decode_udp
  <1>4. CASE HandleClient
    <2>1. PICK n \in 0..Room : buf' = Written(buf, "client", n, 0)
      BY <1>4 DEF HandleClient
    <2>2. buf' \in [PayloadCells -> Bytes]
      BY <1>0, <2>1, WrittenTyped DEF PayloadTypes, Bytes
    <2> QED
      BY <1>0, <1>4, <2>2 DEF HandleClient, PInv, PayloadTypes, BufFresh, OwnBytes
  <1>5. CASE UNCHANGED payloadVars
    BY <1>0, <1>5 DEF payloadVars, PInv, PayloadTypes, BufFresh, OwnBytes, Shown
  <1> QED
    BY <1>1, <1>2, <1>3, <1>4, <1>5 DEF PayloadNext

\* On any sequence of rounds, lines, UDP messages and commands, for payloads
\* of any length, a message of a known type shows nothing but its own bytes,
\* or a line typed in the same round, and ends in the payload.
THEOREM AlwaysOwnBytes == PayloadSpec => []OwnBytes
  <1>1. PInv => OwnBytes
    BY DEF PInv
  <1> QED
    BY <1>1, PayloadInitInv, PayloadNextInv, PTL DEF PayloadSpec
=============================================================================
