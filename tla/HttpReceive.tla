----------------------------- MODULE HttpReceive -----------------------------
(***************************************************************************)
(* 03-REST API/helpers.c, receive_from_server, with the buffer of          *)
(* buffer.c: one HTTP response is read from a TCP connection, in pieces of *)
(* any size, until it is complete or the peer has closed.                  *)
(*                                                                         *)
(* A response is a sequence of segments <<kind, value>>, the units that    *)
(* the code tells apart; lengths are counted in segments.  A header line is *)
(* one segment, without its CRLF but for the last; the terminator of the   *)
(* header is two CRLF segments in a row, which a read may separate.        *)
(***************************************************************************)
EXTENDS Integers, Sequences, FiniteSets, FiniteSetsExt

VARIABLES
    arriving,  \* segments of the response that were not read yet
    ended,     \* whether the server has closed its end of the connection
    buffer,    \* segments read
    total      \* Header in the first loop, then the length that is waited for

receiver == <<arriving, ended, buffer, total>>

Seg(kind) == <<kind, 0>>
CrLf == Seg("crlf")
HEADER_TERMINATOR == <<CrLf, CrLf>>
HEADER_TERMINATOR_SIZE == Len(HEADER_TERMINATOR)

Header == -1          \* no length is known yet
Endless == 1000       \* (size_t) -1, more than any response has

\* A Content-Length line, in the spelling of the code or in lower case.
Spellings == {"Content-Length", "content-length"}
\* Mutant: only the spelling of the code is understood.
IsCodeLength(segment) == segment[1] = "Content-Length"

IsLength(segment) == segment[1] \in Spellings

(***************************************************************************)
(* buffer.c                                                                *)
(***************************************************************************)

\* The positions, from 0, at which data starts in buf.
Found(buf, data) ==
    {i \in 0..(Len(buf) - Len(data)) : SubSeq(buf, i + 1, i + Len(data)) = data}

buffer_find(buf, data) == IF Found(buf, data) = {} THEN -1 ELSE Min(Found(buf, data))

\* The value of the first Content-Length line, whatever its case; -1 if there
\* is none.
ContentLength(buf) ==
    LET lines == {i \in DOMAIN buf : IsLength(buf[i])}
    IN  IF lines = {} THEN -1 ELSE buf[Min(lines)][2]

(***************************************************************************)
(* receive_from_server                                                     *)
(***************************************************************************)

\* Where the header ends, once its terminator is in buf.
HeaderEnd(buf) == buffer_find(buf, HEADER_TERMINATOR) + HEADER_TERMINATOR_SIZE
HeaderComplete(buf) == buffer_find(buf, HEADER_TERMINATOR) >= 0

\* The first loop is left with the terminator and a length.
HeaderRead(buf) == HeaderComplete(buf) /\ ContentLength(buf) >= 0

\* Mutant: the body alone is counted.
BodyLength(buf) == ContentLength(buf)

ResponseLength(buf) == ContentLength(buf) + HeaderEnd(buf)

InitReceiver ==
    /\ arriving = <<>>
    /\ ended = FALSE
    /\ buffer = <<>>
    /\ total = Header

\* A new connection: the buffer of receive_from_server is a new one.
OpenReceiver ==
    /\ arriving' = <<>>
    /\ ended' = FALSE
    /\ buffer' = <<>>
    /\ total' = Header

\* read() returns the next n segments.
Read(n) ==
    /\ arriving' = SubSeq(arriving, n + 1, Len(arriving))
    /\ buffer' = buffer \o SubSeq(arriving, 1, n)
    /\ UNCHANGED ended

AtEof == arriving = <<>> /\ ended

\* The first loop.  A header without a length is read on, together with its
\* body, until the peer closes.
ReadHeader ==
    /\ total = Header
    /\ \E n \in 1..Len(arriving) :
          /\ Read(n)
          /\ total' = IF HeaderRead(buffer') THEN ResponseLength(buffer') ELSE Header

\* The peer closes first: content_length is 0, and header_end is what the last
\* search has left in it: the end of the header, -1, or 0 if nothing came.
HeaderEof ==
    /\ total = Header
    /\ AtEof
    /\ total' = IF buffer = <<>> THEN 0
                ELSE IF HeaderComplete(buffer) THEN HeaderEnd(buffer) ELSE Endless
    /\ UNCHANGED <<arriving, ended, buffer>>

\* The second loop waits for the rest of the body.
ReadBody ==
    /\ total # Header
    /\ Len(buffer) < total
    /\ \E n \in 1..Len(arriving) : Read(n)
    /\ UNCHANGED total

ReadStep == ReadHeader \/ HeaderEof \/ ReadBody

\* receive_from_server returns buffer.data.
Received == total # Header /\ (Len(buffer) >= total \/ AtEof)

\* Between two responses of a kept-alive connection the server may close.
ServerCloses ==
    /\ arriving = <<>>
    /\ ~ended
    /\ ended' = TRUE
    /\ UNCHANGED <<arriving, buffer, total>>
=============================================================================
