------------------------- MODULE RestSession_proofs -------------------------
(***************************************************************************)
(* The REST client, for any users, books and number of sessions: the       *)
(* credentials it holds, the length of what it reads, and what it tells    *)
(* the user.                                                               *)
(***************************************************************************)
EXTENDS RestSession, SequenceTheorems, WellFoundedInduction, TLAPS

(***************************************************************************)
(* The inductive invariant                                                 *)
(***************************************************************************)

\* The response in progress: what was read of it and what was not, which a
\* read only divides in another way.
Whole == buffer \o arriving
First(n) == SubSeq(Whole, 1, n)

Entries(q) == {q[i] : i \in DOMAIN q}
Carried == Entries(Whole)
Carries(kind) == \E seg \in Carried : seg[1] = kind
CarriesJson == \E seg \in Carried : seg[1] \in JsonKinds

\* What is asked is asked with the credentials the client still has, and a
\* login or a registration without any.
RequestMade ==
    client \in {"sent", "reading"} =>
        /\ request.cookie \in {NULL, curr_cookie}
        /\ request.token \in {NULL, token}
        /\ request.url \in {"register", "login"} => curr_cookie = NULL
        /\ request.url = "register" => request.arg \in Users
        /\ request.url = "books" /\ request.method = "POST" => request.arg \in Books

\* Nothing is on its way but while a response is read, and a client that is
\* gone has no credentials.
Between ==
    /\ client # "reading" => arriving = <<>> /\ buffer = <<>> /\ total = Header
    /\ client \in {"exited", "crashed"} => curr_cookie = NULL /\ token = NULL

\* The session of the cookie is closed only while the answer to the logout is
\* read, which then carries no JSON, whole or cut.
SessionHeld ==
    curr_cookie \in SessionIds =>
        \/ Open(curr_cookie)
        \/ client = "reading" /\ request.url = "logout" /\ ~CarriesJson

\* A token on its way is that of the cookie, a cookie that of an open session.
CredentialsCarried ==
    \A seg \in Carried :
        /\ seg[1] = "{token" => seg[2] \in SessionIds /\ seg[2] = curr_cookie
        /\ seg[1] = "Set-Cookie" => request.url = "login" /\ Open(seg[2])

\* However much was read when the length got known, the length is not short
\* of the response.
LengthKnown ==
    /\ \A n \in 0..Len(Whole) : HeaderRead(First(n)) => ResponseLength(First(n)) >= Len(Whole)
    /\ total # Header => arriving = <<>> \/ total >= Len(Whole)

\* What an answer that is not cut says of what the service did.
AnswerMeans ==
    client = "reading" /\ outcome \in {"done", "refused"} =>
        /\ Carried # {}
        /\ ~Carries("429")
        /\ outcome = "refused" => {Seg("{error"), Seg("}")} \subseteq Carried
        /\ outcome = "done" =>
            /\ ~Carries("{error")
            /\ request.url \in {"register", "login", "logout"} => ~CarriesJson
            /\ request.url = "login" => Carries("Set-Cookie")
            /\ request.url = "books" /\ request.method = "GET"
                   => (CarriesJson <=> shelf[Owner] # {})
            /\ request.url = "book" /\ request.method = "GET"
                   => {Seg("{book"), Seg("}")} \subseteq Carried

RInv ==
    /\ TypeOK
    /\ RequestMade
    /\ Between
    /\ TokenOfSession
    /\ SessionHeld
    /\ CredentialsCarried
    /\ LengthKnown
    /\ AnswerMeans

(***************************************************************************)
(* Reading a response                                                      *)
(***************************************************************************)

\* The least element of a set of naturals, as it is chosen by Min.
LEMMA MinOfNaturals ==
    ASSUME NEW S \in SUBSET Nat, S # {}
    PROVE  Min(S) \in S
<1>1. PICK m \in S : \A k \in S : ~ (<<k, m>> \in OpToRel(<, Nat))
    BY WFMin, NatLessThanWellFounded
<1>2. \A k \in S : ~ (k < m)
    BY <1>1 DEF OpToRel
<1>3. \A k \in S : m <= k
    BY <1>2
<1> QED
    BY <1>3 DEF Min

\* What is looked for in a buffer are numbers.
LEMMA LengthsAreNumbers ==
    ASSUME NEW buf \in Seq(Segments)
    PROVE  /\ buffer_find(buf, HEADER_TERMINATOR) \in Int
           /\ HeaderEnd(buf) \in Int
           /\ ContentLength(buf) \in Int
<1>1. HEADER_TERMINATOR_SIZE = 2 /\ Len(HEADER_TERMINATOR) = 2
    BY DEF HEADER_TERMINATOR_SIZE, HEADER_TERMINATOR
<1>2. Found(buf, HEADER_TERMINATOR) \subseteq Nat
    BY <1>1 DEF Found
<1>3. buffer_find(buf, HEADER_TERMINATOR) \in Int
    BY <1>2, MinOfNaturals DEF buffer_find
<1>4. ContentLength(buf) \in Int
    <2> DEFINE lines == {i \in DOMAIN buf : IsLength(buf[i])}
    <2>1. lines \subseteq Nat
        OBVIOUS
    <2>2. ASSUME lines # {} PROVE buf[Min(lines)][2] \in Nat
        <3>1. Min(lines) \in lines
            BY <2>1, <2>2, MinOfNaturals
        <3>2. buf[Min(lines)] \in Segments
            BY <3>1
        <3> QED
            BY <3>2 DEF Segments
    <2> QED
        BY <2>2 DEF ContentLength
<1> QED
    BY <1>1, <1>3, <1>4 DEF HeaderEnd

LEMMA TwoOfSequence ==
    ASSUME NEW S, NEW s \in Seq(S), NEW i \in Nat, i + 2 <= Len(s)
    PROVE  SubSeq(s, i + 1, i + 2)[1] = s[i + 1] /\ SubSeq(s, i + 1, i + 2)[2] = s[i + 2]
<1>1. \A k \in i + 1..i + 2 : s[k] \in S
    OBVIOUS
<1>2. i + 1 \in Int /\ i + 2 \in Int /\ (i + 2) - (i + 1) + 1 = 2
    OBVIOUS
<1>3. \A k \in 1..2 : SubSeq(s, i + 1, i + 2)[k] = s[i + 1 + k - 1]
    BY <1>1, <1>2, SubSeqProperties
<1>4. 1 \in 1..2 /\ 2 \in 1..2 /\ i + 1 + 1 - 1 = i + 1 /\ i + 1 + 2 - 1 = i + 2
    OBVIOUS
<1> QED
    BY <1>3, <1>4

\* The words of a header that has no CRLF of its own, its terminator and a
\* body: from any part in which the length is found, the whole length comes.
LEMMA PartTellsLength ==
    ASSUME NEW h \in Seq(Segments), NEW body \in Seq(Segments),
           \A i \in DOMAIN h : h[i] # CrLf,
           \A i \in DOMAIN h : IsLength(h[i]) => h[i][2] = Len(body),
           \A i \in DOMAIN body : body[i] # CrLf /\ ~IsLength(body[i]),
           NEW w, w = (h \o HEADER_TERMINATOR) \o body,
           NEW n \in 0..Len(w),
           HeaderRead(SubSeq(w, 1, n))
    PROVE  ResponseLength(SubSeq(w, 1, n)) = Len(w)
<1> DEFINE buf == SubSeq(w, 1, n)
<1>1. /\ HEADER_TERMINATOR_SIZE = 2
      /\ Len(HEADER_TERMINATOR) = 2
      /\ HEADER_TERMINATOR = <<CrLf, CrLf>>
      /\ CrLf \in Segments /\ ~IsLength(CrLf)
    BY DEF HEADER_TERMINATOR_SIZE, HEADER_TERMINATOR, CrLf, Seg, Segments, Kinds, IsLength, Spellings
<1>2. /\ w \in Seq(Segments)
      /\ Len(w) = Len(h) + 2 + Len(body)
      /\ \A i \in 1..Len(h) : w[i] = h[i]
      /\ w[Len(h) + 1] = CrLf /\ w[Len(h) + 2] = CrLf
      /\ \A i \in Len(h) + 3..Len(w) : w[i] = body[i - (Len(h) + 2)]
    BY <1>1
<1>3. /\ buf \in Seq(Segments) /\ Len(buf) = n /\ n \in Nat
      /\ \A i \in 1..n : buf[i] = w[i]
    BY <1>2
<1>4. \A i \in 1..n : buf[i] = CrLf => i \in {Len(h) + 1, Len(h) + 2}
    <2>1. \A i \in Len(h) + 3..Len(w) : w[i] # CrLf
        BY <1>2
    <2> QED
        BY <1>2, <1>3, <2>1
<1>5. \A i \in 1..n : IsLength(buf[i]) => buf[i][2] = Len(body)
    <2>1. \A i \in Len(h) + 3..Len(w) : ~IsLength(w[i])
        BY <1>2
    <2>2. \A i \in 1..Len(h) : IsLength(w[i]) => w[i][2] = Len(body)
        BY <1>2
    <2>3. ~IsLength(w[Len(h) + 1]) /\ ~IsLength(w[Len(h) + 2])
        BY <1>1, <1>2
    <2> QED
        BY <1>2, <1>3, <2>1, <2>2, <2>3
<1> HIDE DEF buf
<1>6. Found(buf, HEADER_TERMINATOR) \subseteq {Len(h)}
    <2> SUFFICES ASSUME NEW i \in Found(buf, HEADER_TERMINATOR)
                 PROVE  i = Len(h)
        OBVIOUS
    <2>1. /\ i \in Nat /\ i + 2 <= n
          /\ SubSeq(buf, i + 1, i + 2) = <<CrLf, CrLf>>
        BY <1>1, <1>3 DEF Found
    <2>2. buf[i + 1] = CrLf /\ buf[i + 2] = CrLf
        <3>1. /\ SubSeq(buf, i + 1, i + 2)[1] = buf[i + 1]
              /\ SubSeq(buf, i + 1, i + 2)[2] = buf[i + 2]
            BY <1>3, <2>1, TwoOfSequence
        <3>2. <<CrLf, CrLf>>[1] = CrLf /\ <<CrLf, CrLf>>[2] = CrLf
            OBVIOUS
        <3> QED
            BY <2>1, <3>1, <3>2
    <2>3. i + 1 \in 1..n /\ i + 2 \in 1..n /\ Len(h) \in Nat
        BY <1>3, <2>1
    <2>4. i + 1 \in {Len(h) + 1, Len(h) + 2} /\ i + 2 \in {Len(h) + 1, Len(h) + 2}
        BY <1>4, <2>2, <2>3
    <2> QED
        BY <2>1, <2>3, <2>4
<1>7. HeaderEnd(buf) = Len(h) + 2
    <2>1. buffer_find(buf, HEADER_TERMINATOR) >= 0
        BY DEF HeaderRead, HeaderComplete, buf
    <2>2. Found(buf, HEADER_TERMINATOR) # {}
        BY <2>1 DEF buffer_find
    <2>3. buffer_find(buf, HEADER_TERMINATOR) = Len(h)
        BY <1>6, <2>2, MinOfNaturals DEF buffer_find
    <2> QED
        BY <1>1, <2>3 DEF HeaderEnd
<1>8. ContentLength(buf) = Len(body)
    <2> DEFINE lines == {i \in DOMAIN buf : IsLength(buf[i])}
    <2>1. ContentLength(buf) >= 0
        BY DEF HeaderRead, buf
    <2>2. lines # {}
        BY <2>1 DEF ContentLength
    <2>3. Min(lines) \in lines
        <3>1. lines \subseteq Nat
            BY <1>3
        <3> QED
            BY <2>2, <3>1, MinOfNaturals
    <2>4. buf[Min(lines)][2] = Len(body)
        BY <1>3, <1>5, <2>3
    <2> QED
        BY <2>2, <2>4 DEF ContentLength
<1>9. ResponseLength(buf) = Len(w)
    BY <1>2, <1>7, <1>8 DEF ResponseLength
<1> QED
    BY <1>9 DEF buf

LEMMA BoundIsNatural == MaxSessions \in Nat
BY RestAssumption

LEMMA NothingRead == <<>> \in Seq(Segments) /\ Header \in Int
BY DEF Header

LEMMA Regroup ==
    ASSUME NEW S, NEW b \in Seq(S), NEW f \in Seq(S), NEW k \in Seq(S)
    PROVE  (b \o f) \o k = b \o (f \o k)
BY ConcatAssociative

\* Where a sequence is cut does not change what its parts make together.
LEMMA MovePart ==
    ASSUME NEW S, NEW b \in Seq(S), NEW f \in Seq(S), NEW k \in Seq(S), Len(f) > 0,
           NEW bf, bf = b \o f,
           NEW v, v = b \o (f \o k)
    PROVE  /\ bf \o k = v
           /\ bf \in Seq(S)
           /\ Len(bf) \in 0..Len(v)
           /\ bf = SubSeq(v, 1, Len(bf))
<1>1. bf \o k = v
    BY Regroup
<1>2. /\ bf \in Seq(S) /\ Len(bf) = Len(b) + Len(f)
      /\ Len(b) \in Nat /\ Len(f) \in Nat /\ Len(k) \in Nat
    OBVIOUS
<1>3. Len(v) = Len(bf) + Len(k)
    BY <1>1, <1>2
<1>4. SubSeq(bf \o k, 1, Len(bf)) = SubSeq(bf, 1, Len(bf))
    BY <1>2, SubSeqOfConcat1
<1>5. bf = SubSeq(v, 1, Len(bf))
    BY <1>1, <1>2, <1>4, SubSeqFull
<1> QED
    BY <1>1, <1>2, <1>3, <1>5

\* A read moves the next part of what arrives to the buffer.
LEMMA ReadKeepsWhole ==
    ASSUME arriving \in Seq(Segments), buffer \in Seq(Segments),
           NEW n \in 1..Len(arriving), Read(n)
    PROVE  /\ Whole' = Whole
           /\ arriving' \in Seq(Segments) /\ buffer' \in Seq(Segments)
           /\ Len(buffer') \in 0..Len(Whole)
           /\ buffer' = First(Len(buffer'))
<1>1. arriving = SubSeq(arriving, 1, n) \o SubSeq(arriving, n + 1, Len(arriving))
    OBVIOUS
<1>2. /\ SubSeq(arriving, 1, n) \in Seq(Segments) /\ Len(SubSeq(arriving, 1, n)) > 0
      /\ SubSeq(arriving, n + 1, Len(arriving)) \in Seq(Segments)
    OBVIOUS
<1>3. PICK f \in Seq(Segments), k \in Seq(Segments) :
          /\ Len(f) > 0
          /\ arriving = f \o k
          /\ buffer' = buffer \o f
          /\ arriving' = k
    BY <1>1, <1>2, Zenon DEF Read
<1>4. PICK v : v = buffer \o (f \o k)
    OBVIOUS
<1>5. /\ buffer' \o k = v
      /\ buffer' \in Seq(Segments)
      /\ Len(buffer') \in 0..Len(v)
      /\ buffer' = SubSeq(v, 1, Len(buffer'))
    BY <1>3, <1>4, MovePart
<1>6. Whole = v /\ Whole' = v
    BY <1>3, <1>4, <1>5, Zenon DEF Whole
<1> QED
    BY <1>3, <1>5, <1>6, Zenon DEF First

\* The parts of the invariant that a read leaves alone.
LEMMA SameResponse ==
    ASSUME RInv, Whole' = Whole, UNCHANGED <<clientVars, service, outcome>>
    PROVE  /\ RequestMade' /\ TokenOfSession' /\ SessionHeld' /\ CredentialsCarried'
           /\ AnswerMeans'
<1>1. /\ UNCHANGED <<client, request, curr_cookie, token, strtok_rest, claim>>
      /\ UNCHANGED <<accounts, sessions, closed, shelf, outcome>>
      /\ Carried' = Carried
    BY DEF clientVars, service, Carried
<1>2. /\ \A kind : Carries(kind)' <=> Carries(kind)
      /\ CarriesJson' <=> CarriesJson
      /\ Owner' = Owner
    BY <1>1 DEF Carries, CarriesJson, Owner
<1>3. RequestMade' /\ TokenOfSession'
    BY <1>1 DEF RInv, RequestMade, TokenOfSession
<1>4. SessionHeld'
    BY <1>1, <1>2 DEF RInv, SessionHeld, Open
<1>5. CredentialsCarried'
    BY <1>1 DEF RInv, CredentialsCarried, Open
<1>6. AnswerMeans'
    BY <1>1, <1>2 DEF RInv, AnswerMeans
<1> QED
    BY <1>3, <1>4, <1>5, <1>6

LEMMA ReceiveStep == RInv /\ (Receive \/ KeptAliveCloses) => RInv'
<1> SUFFICES ASSUME RInv, Receive \/ KeptAliveCloses
             PROVE  RInv'
    OBVIOUS
<1>1. /\ client = "reading"
      /\ UNCHANGED <<clientVars, service, outcome>>
      /\ UNCHANGED <<client, request, curr_cookie, token, strtok_rest, claim>>
      /\ UNCHANGED <<accounts, sessions, closed, shelf, outcome>>
    BY DEF Receive, KeptAliveCloses, clientVars, service
<1>2. /\ arriving \in Seq(Segments) /\ buffer \in Seq(Segments) /\ ended \in BOOLEAN /\ total \in Int
      /\ Len(Whole) = Len(buffer) + Len(arriving)
      /\ LengthKnown
    BY DEF RInv, TypeOK, Whole
<1>3. /\ Whole' = Whole
      /\ arriving' \in Seq(Segments) /\ buffer' \in Seq(Segments)
      /\ ended' \in BOOLEAN /\ total' \in Int
      /\ total' # Header => arriving' = <<>> \/ total' >= Len(Whole)
    <2>1. CASE ReadHeader
        <3>1. PICK n \in 1..Len(arriving) :
                  /\ Read(n)
                  /\ total' = IF HeaderRead(buffer') THEN ResponseLength(buffer') ELSE Header
            BY <2>1 DEF ReadHeader
        <3>2. /\ Whole' = Whole
              /\ arriving' \in Seq(Segments) /\ buffer' \in Seq(Segments)
              /\ buffer' = First(Len(buffer'))
              /\ Len(buffer') \in 0..Len(Whole)
            BY <1>2, <3>1, ReadKeepsWhole
        <3>3. HeaderRead(buffer') => total' \in Int /\ total' >= Len(Whole)
            <4>1. HeaderRead(buffer') => ResponseLength(buffer') >= Len(Whole)
                BY <1>2, <3>2 DEF LengthKnown
            <4>2. ResponseLength(buffer') \in Int
                BY <3>2, LengthsAreNumbers DEF ResponseLength
            <4> QED
                BY <3>1, <4>1, <4>2
        <3>4. ended' = ended /\ Header \in Int
            BY <3>1 DEF Read, Header
        <3> QED
            BY <1>2, <3>1, <3>2, <3>3, <3>4
    <2>2. CASE HeaderEof
        <3>1. UNCHANGED <<arriving, ended, buffer>> /\ arriving = <<>>
            BY <2>2 DEF HeaderEof, AtEof
        <3>2. total' \in Int
            BY <1>2, <2>2, LengthsAreNumbers DEF HeaderEof, Endless
        <3> QED
            BY <1>2, <3>1, <3>2 DEF Whole
    <2>3. CASE ReadBody
        <3>1. PICK n \in 1..Len(arriving) : Read(n)
            BY <2>3 DEF ReadBody
        <3>2. /\ Whole' = Whole
              /\ arriving' \in Seq(Segments) /\ buffer' \in Seq(Segments)
              /\ Len(arriving) > 0
            BY <1>2, <3>1, ReadKeepsWhole
        <3>3. total' = total /\ total # Header /\ ended' = ended
            BY <2>3, <3>1 DEF ReadBody, Read
        <3> QED
            BY <1>2, <3>2, <3>3 DEF LengthKnown
    <2>4. CASE ServerCloses
        BY <1>2, <2>4 DEF ServerCloses, Whole
    <2> QED
        BY <2>1, <2>2, <2>3, <2>4 DEF Receive, KeptAliveCloses, ReadStep
<1>4. TypeOK'
    BY <1>1, <1>3 DEF RInv, TypeOK, SessionIds, Credentials
<1>5. LengthKnown'
    BY <1>2, <1>3 DEF LengthKnown, First
<1>6. Between'
    BY <1>1 DEF RInv, Between
<1> QED
    BY <1>1, <1>3, <1>4, <1>5, <1>6, SameResponse DEF RInv

(***************************************************************************)
(* Answers                                                                 *)
(***************************************************************************)

\* Lines of a header and a body that neither end a header nor give a length.
Plain(seg) == seg \in Segments /\ seg # CrLf /\ ~IsLength(seg)
Given(seg) == Plain(seg) /\ seg[1] # "429"

LEMMA EntriesOfFew ==
    /\ Entries(<<>>) = {}
    /\ \A e : Entries(<<e>>) = {e}
    /\ \A d, e : Entries(<<d, e>>) = {d, e}
BY DEF Entries

LEMMA EntriesOfConcatenation ==
    ASSUME NEW S, NEW s \in Seq(S), NEW t \in Seq(S)
    PROVE  Entries(s \o t) = Entries(s) \cup Entries(t)
<1> DEFINE w == s \o t
<1>1. /\ w \in Seq(S) /\ Len(w) = Len(s) + Len(t) /\ Len(s) \in Nat /\ Len(t) \in Nat
      /\ \A i \in 1..Len(s) : w[i] = s[i]
      /\ \A i \in 1..Len(t) : w[Len(s) + i] = t[i]
    OBVIOUS
<1> HIDE DEF w
<1>2. ASSUME NEW i \in 1..Len(w) PROVE w[i] \in Entries(s) \cup Entries(t)
    <2>1. CASE i <= Len(s)
        BY <1>1, <2>1 DEF Entries
    <2>2. CASE i > Len(s)
        <3>1. PICK j \in 1..Len(t) : i = Len(s) + j
            <4>1. i - Len(s) \in 1..Len(t) /\ i = Len(s) + (i - Len(s))
                BY <1>1, <2>2
            <4> QED
                BY <4>1
        <3> QED
            BY <1>1, <3>1 DEF Entries
    <2> QED
        BY <1>1, <2>1, <2>2
<1>3. ASSUME NEW i \in 1..Len(s) PROVE s[i] \in Entries(w)
    BY <1>1 DEF Entries
<1>4. ASSUME NEW i \in 1..Len(t) PROVE t[i] \in Entries(w)
    <2>1. Len(s) + i \in 1..Len(w)
        BY <1>1
    <2> QED
        BY <1>1, <2>1 DEF Entries
<1>5. Entries(w) \subseteq Entries(s) \cup Entries(t)
    <2>1. DOMAIN w = 1..Len(w)
        BY <1>1
    <2> QED
        BY <1>2, <2>1 DEF Entries
<1>6. Entries(s) \subseteq Entries(w)
    <2>1. DOMAIN s = 1..Len(s)
        OBVIOUS
    <2> SUFFICES ASSUME NEW e \in Entries(s) PROVE e \in Entries(w)
        OBVIOUS
    <2>2. PICK i \in 1..Len(s) : e = s[i]
        BY <2>1 DEF Entries
    <2> QED
        BY <1>3, <2>2
<1>7. Entries(t) \subseteq Entries(w)
    <2>1. DOMAIN t = 1..Len(t)
        OBVIOUS
    <2> SUFFICES ASSUME NEW e \in Entries(t) PROVE e \in Entries(w)
        OBVIOUS
    <2>2. PICK i \in 1..Len(t) : e = t[i]
        BY <2>1 DEF Entries
    <2> QED
        BY <1>4, <2>2
<1> QED
    BY <1>5, <1>6, <1>7 DEF w

LEMMA ResponseShape ==
    ASSUME NEW status \in {"2xx", "4xx", "429"},
           NEW fields \in Seq(Segments), NEW body \in Seq(Segments),
           \A seg \in Entries(fields) \cup Entries(body) : Plain(seg),
           NEW spelling \in Spellings \cup {"none"},
           NEW w, w = Response(status, fields, body, spelling)
    PROVE  /\ w \in Seq(Segments)
           /\ Entries(w) = {Seg(status), CrLf} \cup Entries(fields) \cup Entries(body)
                  \cup (IF spelling \in Spellings THEN {<<spelling, Len(body)>>} ELSE {})
           /\ \A n \in 0..Len(w) :
                  HeaderRead(SubSeq(w, 1, n)) => ResponseLength(SubSeq(w, 1, n)) = Len(w)
<1> DEFINE first == <<Seg(status)>>
           length == IF spelling \in Spellings THEN <<<<spelling, Len(body)>>>> ELSE <<>>
           lines == first \o length
           h == lines \o fields
           head == h \o HEADER_TERMINATOR
<1>1. w = head \o body
    BY DEF Response
<1>2. /\ first \in Seq(Segments) /\ Entries(first) = {Seg(status)}
      /\ Plain(Seg(status))
    <2>1. Seg(status) \in Segments
        BY DEF Segments, Kinds, Seg
    <2>2. Plain(Seg(status))
        BY <2>1 DEF Seg, Plain, CrLf, IsLength, Spellings
    <2> QED
        BY <2>1, <2>2, EntriesOfFew
<1>3. /\ length \in Seq(Segments)
      /\ Entries(length) = IF spelling \in Spellings THEN {<<spelling, Len(body)>>} ELSE {}
      /\ spelling \in Spellings => <<spelling, Len(body)>> # CrLf
    <2>1. CASE spelling \in Spellings
        <3>1. <<spelling, Len(body)>> \in Segments
            <4>1. spelling \in Kinds
                BY <2>1 DEF Kinds
            <4>2. Len(body) \in Nat
                OBVIOUS
            <4> QED
                BY <4>1, <4>2 DEF Segments
        <3>2. <<spelling, Len(body)>> # CrLf
            BY <2>1 DEF Spellings, CrLf, Seg
        <3> QED
            BY <2>1, <3>1, <3>2, EntriesOfFew
    <2>2. CASE spelling \notin Spellings
        BY <2>2, EntriesOfFew
    <2> QED
        BY <2>1, <2>2
<1>4. HEADER_TERMINATOR \in Seq(Segments) /\ Entries(HEADER_TERMINATOR) = {CrLf}
    <2>1. CrLf \in Segments
        BY DEF CrLf, Seg, Segments, Kinds
    <2> QED
        BY <2>1, EntriesOfFew DEF HEADER_TERMINATOR
<1> HIDE DEF first, length
<1>5. lines \in Seq(Segments) /\ Entries(lines) = Entries(first) \cup Entries(length)
    BY <1>2, <1>3, EntriesOfConcatenation
<1> HIDE DEF lines
<1>6. h \in Seq(Segments) /\ Entries(h) = Entries(lines) \cup Entries(fields)
    BY <1>5, EntriesOfConcatenation
<1> HIDE DEF h
<1>7. head \in Seq(Segments) /\ Entries(head) = Entries(h) \cup {CrLf}
    BY <1>4, <1>6, EntriesOfConcatenation
<1>8. w = (h \o HEADER_TERMINATOR) \o body
    BY <1>1
<1> HIDE DEF head
<1>9. w \in Seq(Segments) /\ Entries(w) = Entries(head) \cup Entries(body)
    BY <1>1, <1>7, EntriesOfConcatenation
<1>10. /\ \A i \in DOMAIN h : h[i] # CrLf
       /\ \A i \in DOMAIN h : IsLength(h[i]) => h[i][2] = Len(body)
       /\ \A i \in DOMAIN body : body[i] # CrLf /\ ~IsLength(body[i])
    <2>1. \A seg \in Entries(h) : Plain(seg) \/ (spelling \in Spellings /\ seg = <<spelling, Len(body)>>)
        BY <1>2, <1>3, <1>5, <1>6
    <2>2. \A seg \in Entries(h) : seg # CrLf /\ (IsLength(seg) => seg[2] = Len(body))
        BY <1>3, <2>1 DEF Plain
    <2>3. \A i \in DOMAIN h : h[i] \in Entries(h)
        BY DEF Entries
    <2>4. \A i \in DOMAIN body : Plain(body[i])
        BY DEF Entries
    <2> QED
        BY <2>2, <2>3, <2>4 DEF Plain
<1>11. \A n \in 0..Len(w) :
           HeaderRead(SubSeq(w, 1, n)) => ResponseLength(SubSeq(w, 1, n)) = Len(w)
    BY <1>6, <1>8, <1>10, PartTellsLength
<1> QED
    BY <1>2, <1>3, <1>5, <1>6, <1>7, <1>9, <1>11

LEMMA PartOfPart ==
    ASSUME NEW S, NEW w \in Seq(S), NEW k \in 0..Len(w)
    PROVE  /\ SubSeq(w, 1, k) \in Seq(S) /\ Len(SubSeq(w, 1, k)) = k
           /\ Entries(SubSeq(w, 1, k)) \subseteq Entries(w)
           /\ \A n \in 0..k : SubSeq(SubSeq(w, 1, k), 1, n) = SubSeq(w, 1, n)
<1> DEFINE part == SubSeq(w, 1, k)
<1>1. /\ part \in Seq(S) /\ Len(part) = k /\ k \in Nat /\ k <= Len(w) /\ Len(w) \in Nat
      /\ DOMAIN part = 1..k /\ DOMAIN w = 1..Len(w)
      /\ \A i \in 1..k : part[i] = w[i]
    OBVIOUS
<1> HIDE DEF part
<1>2. Entries(part) \subseteq Entries(w)
    BY <1>1 DEF Entries
<1>3. ASSUME NEW n \in 0..k PROVE SubSeq(part, 1, n) = SubSeq(w, 1, n)
    <2>1. /\ SubSeq(part, 1, n) \in Seq(S) /\ Len(SubSeq(part, 1, n)) = n
          /\ \A i \in 1..n : SubSeq(part, 1, n)[i] = part[i]
        BY <1>1
    <2>2. /\ SubSeq(w, 1, n) \in Seq(S) /\ Len(SubSeq(w, 1, n)) = n
          /\ \A i \in 1..n : SubSeq(w, 1, n)[i] = w[i]
        BY <1>1
    <2>3. \A i \in 1..n : SubSeq(part, 1, n)[i] = SubSeq(w, 1, n)[i]
        BY <1>1, <2>1, <2>2
    <2> QED
        BY <2>1, <2>2, <2>3, SeqEqual
<1> QED
    BY <1>1, <1>2, <1>3 DEF part

\* An answer, whole or cut: what it carries, and what is told of its length.
LEMMA AnsweredStep ==
    ASSUME RInv,
           NEW how \in {"done", "refused", "busy"},
           NEW fields \in Seq(Segments), NEW body \in Seq(Segments),
           \A seg \in Entries(fields) \cup Entries(body) : Plain(seg),
           Answered(how, fields, body)
    PROVE  /\ client = "sent" /\ client' = "reading"
           /\ UNCHANGED <<request, curr_cookie, token, strtok_rest, claim>>
           /\ arriving' \in Seq(Segments) /\ ended' \in BOOLEAN
           /\ buffer' = <<>> /\ total' = Header
           /\ LengthKnown'
           /\ \A seg \in Carried' :
                  \/ seg \in Entries(fields) \cup Entries(body)
                  \/ seg[1] \in Spellings \cup {"2xx", "4xx", "crlf"}
                  \/ seg[1] = "429" /\ how = "busy"
           /\ outcome' \in {how, "cut"}
           /\ outcome' = how => /\ Entries(fields) \cup Entries(body) \subseteq Carried'
                                /\ Carried' # {}
<1>1. /\ client = "sent" /\ client' = "reading"
      /\ UNCHANGED <<buffer, total, request, curr_cookie, token, strtok_rest, claim>>
    BY DEF Answered
<1>2. buffer = <<>> /\ total = Header
    BY <1>1 DEF RInv, Between
<1> DEFINE status == IF how = "done" THEN "2xx" ELSE IF how = "refused" THEN "4xx" ELSE "429"
           whole(spelling) == Response(status, fields, body, spelling)
<1>3. /\ status \in {"2xx", "4xx", "429"}
      /\ status = "429" => how = "busy"
    OBVIOUS
<1>4. \/ \E spelling \in Spellings \cup {"none"} :
            arriving' = whole(spelling) /\ ended' = (spelling = "none") /\ outcome' = how
      \/ /\ arriving' \in {SubSeq(whole("Content-Length"), 1, k) : k \in 0..(Len(whole("Content-Length")) - 1)}
         /\ ended' = TRUE /\ outcome' = "cut"
    BY DEF Answered
<1> HIDE DEF status
<1>5. ASSUME NEW spelling \in Spellings \cup {"none"}
      PROVE  /\ whole(spelling) \in Seq(Segments)
             /\ \A seg \in Entries(whole(spelling)) :
                    \/ seg \in Entries(fields) \cup Entries(body)
                    \/ seg[1] \in Spellings \cup {"2xx", "4xx", "crlf"}
                    \/ seg[1] = "429" /\ how = "busy"
             /\ Entries(fields) \cup Entries(body) \cup {CrLf} \subseteq Entries(whole(spelling))
             /\ \A n \in 0..Len(whole(spelling)) :
                    HeaderRead(SubSeq(whole(spelling), 1, n))
                        => ResponseLength(SubSeq(whole(spelling), 1, n)) = Len(whole(spelling))
    <2>1. PICK w : w = whole(spelling)
        OBVIOUS
    <2>2. /\ w \in Seq(Segments)
          /\ Entries(w) = {Seg(status), CrLf} \cup Entries(fields) \cup Entries(body)
                  \cup (IF spelling \in Spellings THEN {<<spelling, Len(body)>>} ELSE {})
          /\ \A n \in 0..Len(w) :
                  HeaderRead(SubSeq(w, 1, n)) => ResponseLength(SubSeq(w, 1, n)) = Len(w)
        BY <1>3, <2>1, ResponseShape
    <2>3. ASSUME NEW seg \in Entries(w)
          PROVE  \/ seg \in Entries(fields) \cup Entries(body)
                 \/ seg[1] \in Spellings \cup {"2xx", "4xx", "crlf"}
                 \/ seg[1] = "429" /\ how = "busy"
        <3>1. CASE seg = Seg(status)
            BY <1>3, <3>1 DEF Seg
        <3>2. CASE seg = CrLf
            BY <3>2 DEF CrLf, Seg
        <3>3. CASE spelling \in Spellings /\ seg = <<spelling, Len(body)>>
            BY <3>3
        <3> QED
            BY <2>2, <3>1, <3>2, <3>3
    <2> QED
        BY <2>1, <2>2, <2>3
<1> HIDE DEF whole
<1>6. /\ arriving' \in Seq(Segments) /\ ended' \in BOOLEAN
      /\ outcome' \in {how, "cut"}
      /\ \A seg \in Entries(arriving') :
             \/ seg \in Entries(fields) \cup Entries(body)
             \/ seg[1] \in Spellings \cup {"2xx", "4xx", "crlf"}
             \/ seg[1] = "429" /\ how = "busy"
      /\ outcome' = how => Entries(fields) \cup Entries(body) \cup {CrLf} \subseteq Entries(arriving')
      /\ \A n \in 0..Len(arriving') :
             HeaderRead(SubSeq(arriving', 1, n)) => ResponseLength(SubSeq(arriving', 1, n)) >= Len(arriving')
    <2>1. ASSUME NEW spelling \in Spellings \cup {"none"},
                 arriving' = whole(spelling), ended' = (spelling = "none"), outcome' = how
          PROVE  <1>6
        BY <1>5, <2>1
    <2>2. ASSUME NEW k \in 0..(Len(whole("Content-Length")) - 1),
                 arriving' = SubSeq(whole("Content-Length"), 1, k), ended' = TRUE, outcome' = "cut"
          PROVE  <1>6
        <3>1. PICK w : w = whole("Content-Length")
            OBVIOUS
        <3>2. /\ w \in Seq(Segments)
              /\ \A seg \in Entries(w) :
                    \/ seg \in Entries(fields) \cup Entries(body)
                    \/ seg[1] \in Spellings \cup {"2xx", "4xx", "crlf"}
                    \/ seg[1] = "429" /\ how = "busy"
              /\ \A n \in 0..Len(w) :
                    HeaderRead(SubSeq(w, 1, n)) => ResponseLength(SubSeq(w, 1, n)) = Len(w)
            BY <1>5, <3>1 DEF Spellings
        <3>3. k \in 0..Len(w) /\ k <= Len(w) /\ k \in Nat /\ Len(w) \in Nat
            BY <3>1, <3>2
        <3>4. /\ arriving' \in Seq(Segments) /\ Len(arriving') = k
              /\ Entries(arriving') \subseteq Entries(w)
              /\ \A n \in 0..k : SubSeq(arriving', 1, n) = SubSeq(w, 1, n)
            BY <2>2, <3>1, <3>2, <3>3, PartOfPart
        <3>5. \A n \in 0..Len(arriving') :
                  HeaderRead(SubSeq(arriving', 1, n)) => ResponseLength(SubSeq(arriving', 1, n)) >= Len(arriving')
            <4> TAKE n \in 0..Len(arriving')
            <4>1. n \in 0..k /\ n \in 0..Len(w)
                BY <3>3, <3>4
            <4>2. SubSeq(arriving', 1, n) = SubSeq(w, 1, n)
                BY <3>4, <4>1
            <4>3. HeaderRead(SubSeq(w, 1, n)) => ResponseLength(SubSeq(w, 1, n)) = Len(w)
                BY <3>2, <4>1
            <4> QED
                BY <3>3, <3>4, <4>2, <4>3
        <3> QED
            BY <2>2, <3>2, <3>4, <3>5
    <2> QED
        BY <1>4, <2>1, <2>2
<1>7. Whole' = arriving' /\ Carried' = Entries(arriving')
    BY <1>1, <1>2, <1>6 DEF Whole, Carried
<1>8. LengthKnown'
    BY <1>1, <1>2, <1>6, <1>7 DEF LengthKnown, First
<1> QED
    BY <1>1, <1>2, <1>6, <1>7, <1>8

\* What the service gives, by how it answers, is what the client will be told.
LEMMA AnswerKept ==
    ASSUME RInv,
           NEW how \in {"done", "refused", "busy"},
           NEW fields \in Seq(Segments), NEW body \in Seq(Segments),
           NEW given, given = Entries(fields) \cup Entries(body),
           \A seg \in given : Given(seg),
           Answered(how, fields, body),
           /\ accounts' \subseteq Users
           /\ sessions' \in Seq(Users) /\ Len(sessions') <= MaxSessions
           /\ closed' \subseteq DOMAIN sessions'
           /\ shelf' \in [Users -> SUBSET Books],
           \/ Open(curr_cookie) => curr_cookie \in DOMAIN sessions' \ closed'
           \/ request.url = "logout" /\ \A seg \in given : seg[1] \notin JsonKinds,
           \A seg \in given :
               /\ seg[1] = "{token" => seg[2] \in SessionIds /\ seg[2] = curr_cookie
               /\ seg[1] = "Set-Cookie" => request.url = "login" /\ seg[2] \in DOMAIN sessions' \ closed',
           how = "refused" => {Seg("{error"), Seg("}")} \subseteq given,
           how = "done" =>
               /\ \A seg \in given : seg[1] # "{error"
               /\ request.url \in {"register", "login", "logout"} =>
                      \A seg \in given : seg[1] \notin JsonKinds
               /\ request.url = "login" => \E seg \in given : seg[1] = "Set-Cookie"
               /\ request.url = "books" /\ request.method = "GET" =>
                      ((\E seg \in given : seg[1] \in JsonKinds) <=> shelf'[sessions'[request.token]] # {})
               /\ request.url = "book" /\ request.method = "GET" =>
                      {Seg("{book"), Seg("}")} \subseteq given
    PROVE  RInv'
<1>1. /\ client = "sent" /\ client' = "reading"
      /\ UNCHANGED <<request, curr_cookie, token, strtok_rest, claim>>
      /\ arriving' \in Seq(Segments) /\ ended' \in BOOLEAN
      /\ buffer' = <<>> /\ total' = Header
      /\ LengthKnown'
      /\ \A seg \in Carried' :
             \/ seg \in given
             \/ seg[1] \in Spellings \cup {"2xx", "4xx", "crlf"}
             \/ seg[1] = "429" /\ how = "busy"
      /\ outcome' \in {how, "cut"}
      /\ outcome' = how => given \subseteq Carried' /\ Carried' # {}
    <2>1. \A seg \in Entries(fields) \cup Entries(body) : Plain(seg)
        BY DEF Given
    <2>2. /\ client = "sent" /\ client' = "reading"
          /\ UNCHANGED <<request, curr_cookie, token, strtok_rest, claim>>
          /\ arriving' \in Seq(Segments) /\ ended' \in BOOLEAN
          /\ buffer' = <<>> /\ total' = Header
          /\ LengthKnown'
          /\ \A seg \in Carried' :
                 \/ seg \in Entries(fields) \cup Entries(body)
                 \/ seg[1] \in Spellings \cup {"2xx", "4xx", "crlf"}
                 \/ seg[1] = "429" /\ how = "busy"
          /\ outcome' \in {how, "cut"}
          /\ outcome' = how => /\ Entries(fields) \cup Entries(body) \subseteq Carried'
                               /\ Carried' # {}
        BY <2>1, AnsweredStep, Zenon
    <2> QED
        BY <2>2
<1>2. \A seg \in Carried' : seg[1] \in JsonKinds \cup {"Set-Cookie"} => seg \in given
    BY <1>1 DEF JsonKinds, Spellings
<1>3. TypeOK'
    <2>1. buffer' \in Seq(Segments) /\ total' \in Int
        BY <1>1, NothingRead, Zenon
    <2> QED
        BY <1>1, <2>1 DEF RInv, TypeOK, Credentials, SessionIds
<1>4. RequestMade' /\ Between' /\ TokenOfSession'
    BY <1>1 DEF RInv, RequestMade, Between, TokenOfSession
<1>5. SessionHeld'
    <2>1. curr_cookie \in SessionIds => Open(curr_cookie)
        BY <1>1 DEF RInv, SessionHeld
    <2>2. (\A seg \in given : seg[1] \notin JsonKinds) => ~CarriesJson'
        BY <1>2 DEF CarriesJson
    <2> QED
        BY <1>1, <2>1, <2>2 DEF SessionHeld, Open, SessionIds
<1>6. CredentialsCarried'
    <2>1. ASSUME NEW seg \in Carried'
          PROVE  /\ seg[1] = "{token" => seg[2] \in SessionIds' /\ seg[2] = curr_cookie'
                 /\ seg[1] = "Set-Cookie" => request'.url = "login" /\ seg[2] \in DOMAIN sessions' \ closed'
        BY <1>1, <1>2, <2>1 DEF JsonKinds, SessionIds
    <2> QED
        BY <2>1 DEF CredentialsCarried, Open, SessionIds
<1>7. AnswerMeans'
    <2> SUFFICES ASSUME outcome' \in {"done", "refused"} PROVE AnswerMeans'
        BY DEF AnswerMeans
    <2>1. outcome' = how /\ given \subseteq Carried' /\ Carried' # {}
        BY <1>1
    <2>2. \A kind \in JsonKinds \cup {"Set-Cookie"} :
              Carries(kind)' <=> \E seg \in given : seg[1] = kind
        BY <1>2, <2>1 DEF Carries
    <2>3. CarriesJson' <=> \E seg \in given : seg[1] \in JsonKinds
        BY <1>2, <2>1 DEF CarriesJson
    <2>4. ~Carries("429")'
        <3>1. \A seg \in given : seg[1] # "429"
            BY DEF Given
        <3> QED
            BY <1>1, <2>1, <3>1 DEF Carries, Spellings
    <2> QED
        BY <1>1, <2>1, <2>2, <2>3, <2>4 DEF AnswerMeans, JsonKinds, Owner
<1> QED
    BY <1>1, <1>3, <1>4, <1>5, <1>6, <1>7 DEF RInv

LEMMA Bodies ==
    /\ <<>> \in Seq(Segments) /\ Entries(<<>>) = {}
    /\ Text \in Seq(Segments) /\ Entries(Text) = {Seg("text")} /\ Given(Seg("text"))
    /\ <<Seg("[]")>> \in Seq(Segments) /\ Entries(<<Seg("[]")>>) = {Seg("[]")} /\ Given(Seg("[]"))
    /\ \A kind \in JsonKinds : \A value \in Nat :
           /\ Json(kind, value) \in Seq(Segments)
           /\ Entries(Json(kind, value)) = {<<kind, value>>, Seg("}")}
           /\ Given(<<kind, value>>) /\ Given(Seg("}"))
    /\ \A value \in Nat :
           /\ <<<<"Set-Cookie", value>>>> \in Seq(Segments)
           /\ Entries(<<<<"Set-Cookie", value>>>>) = {<<"Set-Cookie", value>>}
           /\ Given(<<"Set-Cookie", value>>)
<1>1. \A kind \in JsonKinds \cup {"text", "[]", "}", "Set-Cookie"} :
          \A value \in Nat : Given(<<kind, value>>)
    <2> TAKE kind \in JsonKinds \cup {"text", "[]", "}", "Set-Cookie"}
    <2> TAKE value \in Nat
    <2>1. <<kind, value>> \in Segments
        BY DEF Segments, Kinds
    <2>2. kind \notin Spellings \cup {"crlf", "429"}
        BY DEF JsonKinds, Spellings
    <2> QED
        BY <2>1, <2>2 DEF Given, Plain, CrLf, Seg, IsLength
<1>2. \A seg : Given(seg) => seg \in Segments
    BY DEF Given, Plain
<1>3. /\ Given(Seg("text")) /\ Given(Seg("[]")) /\ Given(Seg("}"))
    BY <1>1 DEF Seg
<1>4. <<>> \in Seq(Segments)
    BY NothingRead
<1>5. \A seg \in Segments : <<seg>> \in Seq(Segments)
    OBVIOUS
<1>6. \A seg, teg \in Segments : <<seg, teg>> \in Seq(Segments)
    OBVIOUS
<1>7. \A value \in Nat :
           /\ <<<<"Set-Cookie", value>>>> \in Seq(Segments)
           /\ Entries(<<<<"Set-Cookie", value>>>>) = {<<"Set-Cookie", value>>}
           /\ Given(<<"Set-Cookie", value>>)
    BY <1>1, <1>2, <1>5, EntriesOfFew, Zenon
<1>8. \A kind \in JsonKinds : \A value \in Nat :
           /\ Json(kind, value) \in Seq(Segments)
           /\ Entries(Json(kind, value)) = {<<kind, value>>, Seg("}")}
           /\ Given(<<kind, value>>) /\ Given(Seg("}"))
    BY <1>1, <1>2, <1>3, <1>6, EntriesOfFew, Zenon DEF Json
<1>9. Text \in Seq(Segments) /\ Entries(Text) = {Seg("text")}
    BY <1>2, <1>3, <1>5, EntriesOfFew, Zenon DEF Text
<1>10. <<Seg("[]")>> \in Seq(Segments) /\ Entries(<<Seg("[]")>>) = {Seg("[]")}
    BY <1>2, <1>3, <1>5, EntriesOfFew, Zenon
<1> QED
    BY <1>3, <1>4, <1>7, <1>8, <1>9, <1>10, EntriesOfFew, Zenon

\* What is given without a field of the header.
LEMMA JsonGiven ==
    ASSUME NEW kind \in JsonKinds, NEW value \in Nat
    PROVE  /\ <<>> \in Seq(Segments) /\ Json(kind, value) \in Seq(Segments)
           /\ Entries(<<>>) \cup Entries(Json(kind, value)) = {<<kind, value>>, Seg("}")}
           /\ \A seg \in {<<kind, value>>, Seg("}")} : Given(seg) /\ seg[1] \in {kind, "}"}
<1>1. /\ <<>> \in Seq(Segments) /\ Json(kind, value) \in Seq(Segments)
      /\ Entries(<<>>) = {} /\ Entries(Json(kind, value)) = {<<kind, value>>, Seg("}")}
      /\ Given(<<kind, value>>) /\ Given(Seg("}"))
    BY Bodies, Zenon
<1>2. <<kind, value>>[1] = kind /\ Seg("}")[1] = "}"
    BY DEF Seg
<1> QED
    BY <1>1, <1>2

LEMMA TextGiven ==
    /\ <<>> \in Seq(Segments) /\ Text \in Seq(Segments)
    /\ Entries(<<>>) \cup Entries(Text) = {Seg("text")}
    /\ \A seg \in {Seg("text")} : Given(seg) /\ seg[1] = "text"
<1>1. /\ <<>> \in Seq(Segments) /\ Text \in Seq(Segments)
      /\ Entries(<<>>) = {} /\ Entries(Text) = {Seg("text")}
      /\ Given(Seg("text"))
    BY Bodies, Zenon
<1>2. Seg("text")[1] = "text"
    BY DEF Seg
<1> QED
    BY <1>1, <1>2

\* The service as its types have it, and the session of the cookie.
LEMMA BeforeAnswer ==
    ASSUME RInv, client = "sent"
    PROVE  /\ accounts \subseteq Users
           /\ sessions \in Seq(Users) /\ Len(sessions) <= MaxSessions /\ Len(sessions) \in Nat
           /\ DOMAIN sessions = 1..Len(sessions) /\ 1..Len(sessions) \subseteq SessionIds
           /\ closed \subseteq DOMAIN sessions
           /\ shelf \in [Users -> SUBSET Books]
           /\ curr_cookie \in SessionIds => Open(curr_cookie)
           /\ Authorized => /\ request.token = token /\ token = curr_cookie
                            /\ token \in SessionIds /\ Open(token)
                            /\ Owner \in Users
           /\ \A s \in 1..Len(sessions) : s \in Nat /\ s # NULL
<1>1. /\ accounts \subseteq Users
      /\ sessions \in Seq(Users) /\ Len(sessions) <= MaxSessions /\ Len(sessions) \in Nat
      /\ closed \subseteq DOMAIN sessions
      /\ shelf \in [Users -> SUBSET Books]
      /\ token \in {NULL} \cup SessionIds
    BY DEF RInv, TypeOK
<1>2. DOMAIN sessions = 1..Len(sessions) /\ 1..Len(sessions) \subseteq SessionIds
    BY <1>1, RestAssumption DEF SessionIds
<1>3. curr_cookie \in SessionIds => Open(curr_cookie)
    BY DEF RInv, SessionHeld
<1>4. ASSUME Authorized
      PROVE  request.token = token /\ token = curr_cookie /\ token \in SessionIds
    BY <1>1, <1>4 DEF RInv, RequestMade, TokenOfSession, Authorized
<1>5. Authorized => Open(token) /\ Owner \in Users
    BY <1>1, <1>3, <1>4 DEF Open, Owner
<1>6. \A s \in 1..Len(sessions) : s \in Nat /\ s # NULL
    BY <1>1 DEF NULL
<1> QED
    BY <1>1, <1>2, <1>3, <1>4, <1>5, <1>6

LEMMA RefusedStep ==
    ASSUME RInv, Refused, UNCHANGED <<accounts, sessions, closed, shelf>>
    PROVE  RInv'
<1> DEFINE body == Json("{error", NULL)
           given == Entries(<<>>) \cup Entries(body)
<1>1. client = "sent"
    BY DEF Refused, Answered
<1>2. /\ <<>> \in Seq(Segments) /\ body \in Seq(Segments)
      /\ given = {Seg("{error"), Seg("}")}
      /\ \A seg \in given : Given(seg)
      /\ \A seg \in given : seg[1] \in {"{error", "}"}
    <2>1. "{error" \in JsonKinds /\ NULL \in Nat /\ Seg("{error") = <<"{error", NULL>>
        BY DEF JsonKinds, NULL, Seg
    <2>2. /\ <<>> \in Seq(Segments) /\ body \in Seq(Segments)
          /\ given = {<<"{error", NULL>>, Seg("}")}
          /\ \A seg \in {<<"{error", NULL>>, Seg("}")} : Given(seg) /\ seg[1] \in {"{error", "}"}
        BY <2>1, JsonGiven, Zenon
    <2> QED
        BY <2>1, <2>2, Zenon
<1>3. Answered("refused", <<>>, body)
    BY DEF Refused
<1> HIDE DEF body
<1>4. /\ accounts' \subseteq Users
      /\ sessions' \in Seq(Users) /\ Len(sessions') <= MaxSessions
      /\ closed' \subseteq DOMAIN sessions'
      /\ shelf' \in [Users -> SUBSET Books]
      /\ Open(curr_cookie) => curr_cookie \in DOMAIN sessions' \ closed'
    BY <1>1, BeforeAnswer DEF Open
<1>5. /\ \A seg \in given : /\ seg[1] # "{token"
                            /\ seg[1] # "Set-Cookie"
      /\ {Seg("{error"), Seg("}")} \subseteq given
    BY <1>2
<1>6. given = Entries(<<>>) \cup Entries(body)
    OBVIOUS
<1> HIDE DEF given
<1> QED
    BY <1>2, <1>3, <1>4, <1>5, <1>6, AnswerKept

LEMMA BusyStep ==
    ASSUME RInv, ServeBusy
    PROVE  RInv'
<1> DEFINE given == Entries(<<>>) \cup Entries(Text)
<1>1. /\ client = "sent"
      /\ Answered("busy", <<>>, Text)
      /\ UNCHANGED <<accounts, sessions, closed, shelf>>
    BY DEF ServeBusy, Answered
<1>2. /\ <<>> \in Seq(Segments) /\ Text \in Seq(Segments)
      /\ given = {Seg("text")}
      /\ \A seg \in given : Given(seg)
      /\ \A seg \in given : seg[1] = "text"
    BY TextGiven, Zenon
<1>4. /\ accounts' \subseteq Users
      /\ sessions' \in Seq(Users) /\ Len(sessions') <= MaxSessions
      /\ closed' \subseteq DOMAIN sessions'
      /\ shelf' \in [Users -> SUBSET Books]
      /\ Open(curr_cookie) => curr_cookie \in DOMAIN sessions' \ closed'
    BY <1>1, BeforeAnswer DEF Open
<1>5. \A seg \in given : seg[1] # "{token" /\ seg[1] # "Set-Cookie"
    BY <1>2
<1>6. given = Entries(<<>>) \cup Entries(Text)
    OBVIOUS
<1> HIDE DEF given
<1> QED
    BY <1>1, <1>2, <1>4, <1>5, <1>6, AnswerKept

\* Where nothing is to be given, a text is.
LEMMA TextStep ==
    ASSUME RInv, Done(<<>>, Text),
           request.url # "login",
           ~(request.url \in {"books", "book"} /\ request.method = "GET"),
           /\ accounts' \subseteq Users
           /\ sessions' \in Seq(Users) /\ Len(sessions') <= MaxSessions
           /\ closed' \subseteq DOMAIN sessions'
           /\ shelf' \in [Users -> SUBSET Books],
           \/ Open(curr_cookie) => curr_cookie \in DOMAIN sessions' \ closed'
           \/ request.url = "logout"
    PROVE  RInv'
<1> DEFINE given == Entries(<<>>) \cup Entries(Text)
<1>1. /\ <<>> \in Seq(Segments) /\ Text \in Seq(Segments)
      /\ \A seg \in given : Given(seg) /\ seg[1] = "text"
      /\ given = Entries(<<>>) \cup Entries(Text)
    BY TextGiven, Zenon
<1>2. Answered("done", <<>>, Text)
    BY DEF Done
<1> HIDE DEF given
<1>3. \A seg \in given :
          seg[1] \notin JsonKinds /\ seg[1] # "{token" /\ seg[1] # "Set-Cookie" /\ seg[1] # "{error"
    BY <1>1 DEF JsonKinds
<1> QED
    BY <1>1, <1>2, <1>3, AnswerKept

LEMMA ServeRegisterStep == RInv /\ ServeRegister => RInv'
<1> SUFFICES ASSUME RInv, ServeRegister PROVE RInv'
    OBVIOUS
<1>1. request.url = "register" /\ UNCHANGED <<sessions, closed, shelf>>
    BY DEF ServeRegister
<1>2. CASE request.arg \in accounts
    BY <1>1, <1>2, RefusedStep DEF ServeRegister
<1>3. CASE request.arg \notin accounts
    <2>1. Done(<<>>, Text) /\ accounts' = accounts \cup {request.arg}
        BY <1>3 DEF ServeRegister
    <2>2. client = "sent" /\ request.arg \in Users
        BY <1>1, <2>1 DEF Done, Answered, RInv, RequestMade
    <2>3. /\ accounts' \subseteq Users
          /\ sessions' \in Seq(Users) /\ Len(sessions') <= MaxSessions
          /\ closed' \subseteq DOMAIN sessions'
          /\ shelf' \in [Users -> SUBSET Books]
          /\ Open(curr_cookie) => curr_cookie \in DOMAIN sessions' \ closed'
        BY <1>1, <2>1, <2>2, BeforeAnswer DEF Open
    <2> QED
        BY <1>1, <2>1, <2>3, TextStep
<1> QED
    BY <1>2, <1>3

LEMMA ServeLoginStep == RInv /\ ServeLogin => RInv'
<1> SUFFICES ASSUME RInv, ServeLogin PROVE RInv'
    OBVIOUS
<1>1. request.url = "login" /\ UNCHANGED <<accounts, closed, shelf>>
    BY DEF ServeLogin
<1>2. CASE request.arg \notin accounts \/ Len(sessions) = MaxSessions
    BY <1>1, <1>2, RefusedStep DEF ServeLogin
<1>3. CASE ~(request.arg \notin accounts \/ Len(sessions) = MaxSessions)
    <2> DEFINE number == Len(sessions) + 1
               fields == <<<<"Set-Cookie", number>>>>
               given == Entries(fields) \cup Entries(Text)
    <2>1. /\ Answered("done", fields, Text)
          /\ sessions' = Append(sessions, request.arg)
        BY <1>3 DEF ServeLogin, Done
    <2>2. client = "sent" /\ request.arg \in Users
        BY <1>3, <2>1, BeforeAnswer DEF Answered
    <2>3. /\ accounts' \subseteq Users
          /\ sessions' \in Seq(Users) /\ Len(sessions') <= MaxSessions
          /\ closed' \subseteq DOMAIN sessions'
          /\ shelf' \in [Users -> SUBSET Books]
          /\ Open(curr_cookie) => curr_cookie \in DOMAIN sessions' \ closed'
          /\ number \in Nat /\ number \in DOMAIN sessions' \ closed'
        <3>1. /\ sessions \in Seq(Users) /\ Len(sessions) <= MaxSessions /\ Len(sessions) \in Nat
              /\ DOMAIN sessions = 1..Len(sessions)
              /\ closed \subseteq DOMAIN sessions
              /\ accounts \subseteq Users /\ shelf \in [Users -> SUBSET Books]
            BY <2>2, BeforeAnswer
        <3>2. /\ sessions' \in Seq(Users) /\ Len(sessions') = Len(sessions) + 1
              /\ DOMAIN sessions' = 1..(Len(sessions) + 1)
            BY <2>1, <2>2, <3>1
        <3>3. Len(sessions') <= MaxSessions
            <4>1. Len(sessions) # MaxSessions
                BY <1>3
            <4>2. Len(sessions) + 1 <= MaxSessions
                <5>1. \A m, k \in Nat : m <= k /\ m # k => m + 1 <= k
                    OBVIOUS
                <5> QED
                    BY <3>1, <4>1, <5>1, BoundIsNatural, Zenon
            <4> QED
                BY <3>2, <4>2
        <3> QED
            BY <1>1, <3>1, <3>2, <3>3 DEF Open
    <2> HIDE DEF number
    <2>4. /\ fields \in Seq(Segments) /\ Text \in Seq(Segments)
          /\ Entries(fields) = {<<"Set-Cookie", number>>} /\ Entries(Text) = {Seg("text")}
          /\ Given(<<"Set-Cookie", number>>) /\ Given(Seg("text"))
        BY <2>3, Bodies, Zenon
    <2>5. given = {<<"Set-Cookie", number>>, Seg("text")}
        BY <2>4
    <2>6. given = Entries(fields) \cup Entries(Text)
        OBVIOUS
    <2> HIDE DEF fields, given
    <2>7. /\ \A seg \in given : Given(seg)
          /\ \A seg \in given : seg[1] \notin JsonKinds /\ seg[1] # "{token" /\ seg[1] # "{error"
          /\ \A seg \in given : seg[1] = "Set-Cookie" => seg[2] = number
          /\ \E seg \in given : seg[1] = "Set-Cookie"
        BY <2>4, <2>5 DEF Seg, JsonKinds
    <2>8. \A seg \in given :
               /\ seg[1] = "{token" => seg[2] \in SessionIds /\ seg[2] = curr_cookie
               /\ seg[1] = "Set-Cookie" => request.url = "login" /\ seg[2] \in DOMAIN sessions' \ closed'
        BY <1>1, <2>3, <2>7
    <2>9. "login" \notin {"books", "book"}
        OBVIOUS
    <2> HIDE <1>3
    <2> QED
        BY <1>1, <2>1, <2>3, <2>4, <2>6, <2>7, <2>8, <2>9, AnswerKept
<1> QED
    BY <1>2, <1>3

\* Nothing changes in the service where an object is given.
LEMMA ObjectStep ==
    ASSUME RInv, UNCHANGED <<accounts, sessions, closed, shelf>>,
           NEW kind \in JsonKinds \ {"{error"}, NEW value \in Nat,
           Done(<<>>, Json(kind, value)),
           kind = "{token" => value \in SessionIds /\ value = curr_cookie,
           request.url \notin {"register", "login", "logout"},
           request.url = "books" /\ request.method = "GET" => shelf[Owner] # {},
           request.url = "book" /\ request.method = "GET" => kind = "{book" /\ value = NULL
    PROVE  RInv'
<1> DEFINE body == Json(kind, value)
           given == Entries(<<>>) \cup Entries(body)
<1>1. client = "sent" /\ Answered("done", <<>>, body)
    BY DEF Done, Answered
<1>2. /\ <<>> \in Seq(Segments) /\ body \in Seq(Segments)
      /\ given = {<<kind, value>>, Seg("}")}
      /\ \A seg \in given : Given(seg) /\ seg[1] \in {kind, "}"}
    <2>1. kind \in JsonKinds
        OBVIOUS
    <2>2. /\ <<>> \in Seq(Segments) /\ body \in Seq(Segments)
          /\ given = {<<kind, value>>, Seg("}")}
          /\ \A seg \in {<<kind, value>>, Seg("}")} : Given(seg) /\ seg[1] \in {kind, "}"}
        BY <2>1, JsonGiven, Zenon
    <2> QED
        BY <2>2, Zenon
<1>3. given = Entries(<<>>) \cup Entries(body)
    OBVIOUS
<1> HIDE DEF body, given
<1>4. /\ accounts' \subseteq Users
      /\ sessions' \in Seq(Users) /\ Len(sessions') <= MaxSessions
      /\ closed' \subseteq DOMAIN sessions'
      /\ shelf' \in [Users -> SUBSET Books]
      /\ Open(curr_cookie) => curr_cookie \in DOMAIN sessions' \ closed'
    BY <1>1, BeforeAnswer DEF Open
<1>5. /\ \A seg \in given : seg[1] = "{token" => seg[2] \in SessionIds /\ seg[2] = curr_cookie
      /\ \A seg \in given : seg[1] # "Set-Cookie" /\ seg[1] # "{error"
      /\ \E seg \in given : seg[1] \in JsonKinds
      /\ kind = "{book" /\ value = NULL => {Seg("{book"), Seg("}")} \subseteq given
    <2>1. kind # "}" /\ kind # "Set-Cookie" /\ "}" # "{token" /\ "}" # "Set-Cookie" /\ "}" # "{error"
        BY DEF JsonKinds
    <2>2. <<kind, value>>[1] = kind /\ <<kind, value>>[2] = value /\ Seg("}")[1] = "}"
        BY DEF Seg
    <2>3. kind = "{book" /\ value = NULL => Seg("{book") = <<kind, value>>
        BY DEF Seg, NULL
    <2>4. \A seg \in given : seg = <<kind, value>> \/ seg = Seg("}")
        BY <1>2
    <2> QED
        BY <1>2, <2>1, <2>2, <2>3, <2>4
<1>6. request.url = "books" /\ request.method = "GET" => shelf'[sessions'[request.token]] # {}
    BY DEF Owner
<1> QED
    BY <1>1, <1>2, <1>3, <1>4, <1>5, <1>6, AnswerKept

LEMMA ServeAccessStep == RInv /\ ServeAccess => RInv'
<1> SUFFICES ASSUME RInv, ServeAccess PROVE RInv'
    OBVIOUS
<1>1. request.url = "access" /\ UNCHANGED <<accounts, sessions, closed, shelf>>
    BY DEF ServeAccess
<1>2. CASE ~Open(request.cookie)
    BY <1>1, <1>2, RefusedStep DEF ServeAccess
<1>3. CASE Open(request.cookie)
    <2>1. Done(<<>>, Json("{token", request.cookie))
        BY <1>3 DEF ServeAccess
    <2>2. client = "sent"
        BY <2>1 DEF Done, Answered
    <2>3. /\ request.cookie \in 1..Len(sessions)
          /\ request.cookie \in SessionIds /\ request.cookie \in Nat
          /\ request.cookie # NULL
        BY <1>3, <2>2, BeforeAnswer DEF Open
    <2>4. request.cookie = curr_cookie
        BY <2>2, <2>3 DEF RInv, RequestMade
    <2>5. "{token" \in JsonKinds \ {"{error"}
        BY DEF JsonKinds
    <2>6. /\ request.url \notin {"register", "login", "logout"}
          /\ request.url # "books" /\ request.url # "book"
        BY <1>1
    <2> QED
        BY <1>1, <2>1, <2>3, <2>4, <2>5, <2>6, ObjectStep
<1> QED
    BY <1>2, <1>3

\* An empty shelf is given as [], which is no object.
LEMMA ServeBooksStep == RInv /\ ServeBooks => RInv'
<1> SUFFICES ASSUME RInv, ServeBooks PROVE RInv'
    OBVIOUS
<1>1. /\ request.url = "books" /\ request.method = "GET"
      /\ UNCHANGED <<accounts, sessions, closed, shelf>>
    BY DEF ServeBooks
<1>2. CASE ~Authorized
    BY <1>1, <1>2, RefusedStep DEF ServeBooks
<1>3. CASE Authorized /\ shelf[Owner] # {}
    <2>1. Done(<<>>, Json("{books", NULL))
        BY <1>3 DEF ServeBooks
    <2>2. "{books" \in JsonKinds \ {"{error"} /\ NULL \in Nat /\ "{books" # "{token"
        BY DEF JsonKinds, NULL
    <2>3. request.url \notin {"register", "login", "logout"} /\ request.url # "book"
        BY <1>1
    <2> QED
        BY <1>1, <1>3, <2>1, <2>2, <2>3, ObjectStep
<1>4. CASE Authorized /\ shelf[Owner] = {}
    <2> DEFINE body == <<Seg("[]")>>
               given == Entries(<<>>) \cup Entries(body)
    <2>1. Answered("done", <<>>, body) /\ client = "sent"
        BY <1>4 DEF ServeBooks, Done, Answered
    <2>2. /\ <<>> \in Seq(Segments) /\ body \in Seq(Segments)
          /\ Entries(<<>>) = {} /\ Entries(body) = {Seg("[]")}
          /\ Given(Seg("[]"))
        BY Bodies, Zenon
    <2>3. given = {Seg("[]")}
        BY <2>2
    <2>4. given = Entries(<<>>) \cup Entries(body)
        OBVIOUS
    <2> HIDE DEF body, given
    <2>5. /\ \A seg \in given : Given(seg)
          /\ \A seg \in given : seg[1] # "{token" /\ seg[1] # "Set-Cookie" /\ seg[1] # "{error"
          /\ ~\E seg \in given : seg[1] \in JsonKinds
        BY <2>2, <2>3 DEF Seg, JsonKinds
    <2>6. /\ accounts' \subseteq Users
          /\ sessions' \in Seq(Users) /\ Len(sessions') <= MaxSessions
          /\ closed' \subseteq DOMAIN sessions'
          /\ shelf' \in [Users -> SUBSET Books]
          /\ Open(curr_cookie) => curr_cookie \in DOMAIN sessions' \ closed'
        BY <1>1, <2>1, BeforeAnswer DEF Open
    <2>7. shelf'[sessions'[request.token]] = {}
        BY <1>1, <1>4 DEF Owner
    <2>8. request.url \notin {"register", "login", "logout", "book"}
        BY <1>1
    <2> QED
        BY <1>1, <2>1, <2>2, <2>4, <2>5, <2>6, <2>7, <2>8, AnswerKept
<1> QED
    BY <1>2, <1>3, <1>4

LEMMA ServeBookStep == RInv /\ ServeBook => RInv'
<1> SUFFICES ASSUME RInv, ServeBook PROVE RInv'
    OBVIOUS
<1>1. /\ request.url = "book" /\ request.method = "GET"
      /\ UNCHANGED <<accounts, sessions, closed, shelf>>
    BY DEF ServeBook
<1>2. CASE ~(Authorized /\ request.arg \in shelf[Owner])
    BY <1>1, <1>2, RefusedStep DEF ServeBook
<1>3. CASE Authorized /\ request.arg \in shelf[Owner]
    <2>1. Done(<<>>, Json("{book", NULL))
        BY <1>3 DEF ServeBook
    <2>2. "{book" \in JsonKinds \ {"{error"} /\ NULL \in Nat /\ "{book" # "{token"
        BY DEF JsonKinds, NULL
    <2>3. request.url \notin {"register", "login", "logout"} /\ request.url # "books"
        BY <1>1
    <2> QED
        BY <1>1, <2>1, <2>2, <2>3, ObjectStep
<1> QED
    BY <1>2, <1>3

\* Only the shelf of the owner changes, whose session is that of the token.
LEMMA ShelfStep ==
    ASSUME RInv, ServeAdd \/ ServeDelete
    PROVE  RInv'
<1>1. /\ request.url \in {"books", "book"} /\ request.method # "GET"
      /\ UNCHANGED <<accounts, sessions, closed>>
    BY DEF ServeAdd, ServeDelete
<1>2. CASE Refused /\ UNCHANGED shelf
    BY <1>1, <1>2, RefusedStep
<1>3. CASE /\ Done(<<>>, Text) /\ Authorized
           /\ \/ /\ request.url = "books" /\ request.method = "POST"
                 /\ shelf' = [shelf EXCEPT ![Owner] = @ \cup {request.arg}]
              \/ shelf' = [shelf EXCEPT ![Owner] = @ \ {request.arg}]
    <2>1. client = "sent"
        BY <1>3 DEF Done, Answered
    <2>2. shelf \in [Users -> SUBSET Books] /\ Owner \in Users
        BY <1>3, <2>1, BeforeAnswer
    <2>3. request.url = "books" /\ request.method = "POST" => request.arg \in Books
        BY <2>1 DEF RInv, RequestMade
    <2>4. shelf' \in [Users -> SUBSET Books]
        BY <1>3, <2>2, <2>3
    <2>5. /\ accounts' \subseteq Users
          /\ sessions' \in Seq(Users) /\ Len(sessions') <= MaxSessions
          /\ closed' \subseteq DOMAIN sessions'
          /\ Open(curr_cookie) => curr_cookie \in DOMAIN sessions' \ closed'
        BY <1>1, <2>1, BeforeAnswer DEF Open
    <2>6. /\ request.url # "login" /\ Done(<<>>, Text)
          /\ ~(request.url \in {"books", "book"} /\ request.method = "GET")
        BY <1>1, <1>3
    <2> QED
        BY <2>4, <2>5, <2>6, TextStep
<1>4. \/ Refused /\ UNCHANGED shelf
      \/ /\ Done(<<>>, Text) /\ Authorized
         /\ \/ /\ request.url = "books" /\ request.method = "POST"
               /\ shelf' = [shelf EXCEPT ![Owner] = @ \cup {request.arg}]
            \/ shelf' = [shelf EXCEPT ![Owner] = @ \ {request.arg}]
    <2>1. CASE ServeAdd
        BY <2>1, Zenon DEF ServeAdd
    <2>2. CASE ServeDelete
        BY <2>2, Zenon DEF ServeDelete
    <2> QED
        BY <2>1, <2>2
<1> QED
    BY <1>2, <1>3, <1>4

LEMMA ServeLogoutStep == RInv /\ ServeLogout => RInv'
<1> SUFFICES ASSUME RInv, ServeLogout PROVE RInv'
    OBVIOUS
<1>1. request.url = "logout" /\ UNCHANGED <<accounts, sessions, shelf>>
    BY DEF ServeLogout
<1>2. CASE ~Open(request.cookie)
    BY <1>1, <1>2, RefusedStep DEF ServeLogout
<1>3. CASE Open(request.cookie)
    <2>1. Done(<<>>, Text) /\ closed' = closed \cup {request.cookie}
        BY <1>3 DEF ServeLogout
    <2>2. client = "sent"
        BY <2>1 DEF Done, Answered
    <2>3. /\ accounts' \subseteq Users
          /\ sessions' \in Seq(Users) /\ Len(sessions') <= MaxSessions
          /\ closed' \subseteq DOMAIN sessions'
          /\ shelf' \in [Users -> SUBSET Books]
        BY <1>1, <1>3, <2>1, <2>2, BeforeAnswer DEF Open
    <2>4. request.url # "login" /\ request.url \notin {"books", "book"}
        BY <1>1
    <2> QED
        BY <1>1, <2>1, <2>3, <2>4, TextStep
<1> QED
    BY <1>2, <1>3

LEMMA ServeStep == RInv /\ Serve => RInv'
BY ServeRegisterStep, ServeLoginStep, ServeAccessStep, ServeBooksStep, ServeBookStep,
   ShelfStep, ServeLogoutStep, BusyStep DEF Serve

(***************************************************************************)
(* The client                                                              *)
(***************************************************************************)

\* No length is found where nothing was read.
LEMMA NoHeaderInNothing == \A n \in 0..Len(<<>>) : ~HeaderRead(SubSeq(<<>>, 1, n))
<1>1. ContentLength(<<>>) = -1
    BY DEF ContentLength
<1>2. \A n \in 0..Len(<<>>) : SubSeq(<<>>, 1, n) = <<>>
    OBVIOUS
<1>3. ~HeaderRead(<<>>)
    BY <1>1 DEF HeaderRead
<1> QED
    BY <1>2, <1>3

\* With a new connection, or none, nothing is on its way.
LEMMA NothingOnItsWay ==
    ASSUME OpenReceiver
    PROVE  /\ arriving' = <<>> /\ buffer' = <<>> /\ total' = Header
           /\ arriving' \in Seq(Segments) /\ ended' \in BOOLEAN
           /\ buffer' \in Seq(Segments) /\ total' \in Int
           /\ Carried' = {} /\ CredentialsCarried' /\ LengthKnown'
<1>1. arriving' = <<>> /\ buffer' = <<>> /\ total' = Header /\ ended' = FALSE
    BY DEF OpenReceiver
<1>2. /\ arriving' \in Seq(Segments) /\ buffer' \in Seq(Segments) /\ total' \in Int
    BY <1>1, NothingRead, Zenon
<1>3. Whole' = <<>>
    BY <1>1 DEF Whole
<1>4. Carried' = {}
    BY <1>3, EntriesOfFew DEF Carried
<1>5. CredentialsCarried'
    BY <1>4 DEF CredentialsCarried
<1>6. LengthKnown'
    BY <1>1, <1>3, NoHeaderInNothing DEF LengthKnown, First
<1> QED
    BY <1>1, <1>2, <1>4, <1>5, <1>6

\* Back at the prompt, or gone, with a session that is open or none.
LEMMA PromptStep ==
    ASSUME RInv, OpenReceiver, UNCHANGED <<accounts, sessions, closed, shelf>>,
           client' \in {"prompt", "exited", "crashed"},
           request' = NoRequest,
           curr_cookie' \in Credentials,
           curr_cookie' \in SessionIds => curr_cookie' \in DOMAIN sessions \ closed,
           token' \in {NULL} \cup SessionIds,
           token' # NULL => token' = curr_cookie',
           client' # "prompt" => curr_cookie' = NULL /\ token' = NULL,
           strtok_rest' \in {"unset", "text", "end", "freed"}
    PROVE  RInv'
<1>1. request'.cookie = NULL /\ request'.token = NULL
    BY DEF NoRequest, compute_request
<1>2. TypeOK'
    BY <1>1, NothingOnItsWay DEF RInv, TypeOK, Credentials, SessionIds
<1>3. RequestMade' /\ TokenOfSession' /\ AnswerMeans'
    BY DEF RequestMade, TokenOfSession, AnswerMeans
<1>4. Between'
    BY NothingOnItsWay DEF Between
<1>5. SessionHeld'
    BY DEF SessionHeld, Open, SessionIds
<1> QED
    BY <1>2, <1>3, <1>4, <1>5, NothingOnItsWay DEF RInv

LEMMA SendStep ==
    ASSUME RInv, NEW r, Send(r),
           r.cookie \in {NULL, curr_cookie}, r.token \in {NULL, token},
           r.url \in {"register", "login"} => curr_cookie = NULL,
           r.url = "register" => r.arg \in Users,
           r.url = "books" /\ r.method = "POST" => r.arg \in Books
    PROVE  RInv'
<1>1. /\ client = "prompt" /\ client' = "sent" /\ request' = r /\ OpenReceiver
      /\ UNCHANGED <<curr_cookie, token, strtok_rest>>
      /\ UNCHANGED <<accounts, sessions, closed, shelf>>
    BY DEF Send, service
<1>2. TypeOK'
    <2>1. r.cookie \in Credentials /\ r.token \in {NULL} \cup SessionIds
        BY DEF RInv, TypeOK, Credentials
    <2> QED
        BY <1>1, <2>1, NothingOnItsWay DEF RInv, TypeOK, Credentials, SessionIds
<1>3. RequestMade' /\ TokenOfSession' /\ AnswerMeans'
    BY <1>1 DEF RInv, RequestMade, TokenOfSession, AnswerMeans
<1>5. Between'
    BY <1>1, NothingOnItsWay DEF Between
<1>4. SessionHeld'
    BY <1>1 DEF RInv, SessionHeld, Open, SessionIds
<1> QED
    BY <1>1, <1>2, <1>3, <1>4, <1>5, NothingOnItsWay DEF RInv

\* A message to the user, or the client started again.
LEMMA NoticeStep ==
    ASSUME RInv, client \notin {"sent", "reading"}, client' = "prompt",
           UNCHANGED <<receiver, request, curr_cookie, token, strtok_rest, service>>
    PROVE  RInv'
<1>1. /\ UNCHANGED <<arriving, ended, buffer, total>>
      /\ UNCHANGED <<request, curr_cookie, token, strtok_rest, accounts, sessions, closed, shelf>>
    BY DEF receiver, service
<1>2. TypeOK'
    BY <1>1 DEF RInv, TypeOK, Credentials, SessionIds
<1>3. RequestMade' /\ AnswerMeans'
    BY DEF RequestMade, AnswerMeans
<1>8. TokenOfSession' /\ Between'
    BY <1>1 DEF RInv, TokenOfSession, Between
<1>4. SessionHeld'
    BY <1>1 DEF RInv, SessionHeld, Open, SessionIds
<1>5. Whole' = Whole /\ Carried' = Carried
    BY <1>1 DEF Whole, Carried
<1>6. CredentialsCarried'
    BY <1>1, <1>5 DEF RInv, CredentialsCarried, Open, SessionIds
<1>7. LengthKnown'
    BY <1>1, <1>5 DEF RInv, LengthKnown, First
<1> QED
    BY <1>2, <1>3, <1>4, <1>6, <1>7, <1>8 DEF RInv

LEMMA CommandStep == RInv /\ Command => RInv'
<1> SUFFICES ASSUME RInv, Command PROVE RInv'
    OBVIOUS
<1> USE DEF compute_get_request, compute_post_request, compute_delete_request, compute_request
<1>1. ASSUME NEW u \in Users, Register(u) \/ Login(u) PROVE RInv'
    BY <1>1, SendStep DEF Register, Login
<1>2. CASE LogoutFirst \/ BadInput
    <2>1. /\ client = "prompt" /\ client' = "prompt"
          /\ UNCHANGED <<receiver, request, curr_cookie, token, strtok_rest, service>>
        BY <1>2 DEF LogoutFirst, BadInput, Tell
    <2> QED
        BY <2>1, NoticeStep
<1>3. CASE EnterLibrary
    BY <1>3, SendStep DEF EnterLibrary
<1>4. CASE GetBooks
    BY <1>4, SendStep DEF GetBooks
<1>5. ASSUME NEW b \in Books, GetBook(b) PROVE RInv'
    BY <1>5, SendStep DEF GetBook
<1>6. ASSUME NEW b \in Books, AddBook(b) PROVE RInv'
    BY <1>6, SendStep DEF AddBook
<1>7. ASSUME NEW b \in Books, DeleteBook(b) PROVE RInv'
    BY <1>7, SendStep DEF DeleteBook
<1>8. CASE Logout
    BY <1>8, SendStep DEF Logout
<1> QED
    BY <1>1, <1>2, <1>3, <1>4, <1>5, <1>6, <1>7, <1>8 DEF Command

LEMMA LeaveStep ==
    ASSUME RInv, NEW how \in {"exited", "crashed"}, Leave(how)
    PROVE  RInv'
<1>1. /\ client' = how /\ request' = NoRequest /\ curr_cookie' = NULL /\ token' = NULL
      /\ strtok_rest' = "unset" /\ OpenReceiver
      /\ UNCHANGED <<accounts, sessions, closed, shelf>>
    BY DEF Leave, service
<1>2. NULL \in Credentials /\ NULL \notin SessionIds
    BY DEF Credentials, NULL, SessionIds
<1> QED
    BY <1>1, <1>2, PromptStep

\* What was read is part of the response.
LEMMA ReadIsCarried ==
    ASSUME RInv
    PROVE  /\ \A i \in DOMAIN buffer : buffer[i] \in Carried
           /\ HasJson => CarriesJson
           /\ \A kind : (\E i \in DOMAIN buffer : buffer[i][1] = kind) =>
                  FieldOf(kind) \in {seg[2] : seg \in {e \in Carried : e[1] = kind}}
<1>1. buffer \in Seq(Segments) /\ arriving \in Seq(Segments)
    BY DEF RInv, TypeOK
<1>2. Carried = Entries(buffer) \cup Entries(arriving)
    BY <1>1, EntriesOfConcatenation DEF Carried, Whole
<1>3. \A i \in DOMAIN buffer : buffer[i] \in Carried
    BY <1>2 DEF Entries
<1>4. HasJson => CarriesJson
    BY <1>3 DEF HasJson, CarriesJson
<1>5. ASSUME NEW kind, \E i \in DOMAIN buffer : buffer[i][1] = kind
      PROVE  FieldOf(kind) \in {seg[2] : seg \in {e \in Carried : e[1] = kind}}
    <2>1. PICK i \in DOMAIN buffer : buffer[i][1] = kind /\ FieldOf(kind) = buffer[i][2]
        BY <1>5 DEF FieldOf
    <2> QED
        BY <1>3, <2>1
<1> QED
    BY <1>3, <1>4, <1>5

\* The answer is dealt with, and the client keeps what it has.
LEMMA KeepStep ==
    ASSUME RInv, NEW method, NEW url, NEW what, Handled(method, url, what),
           UNCHANGED curr_cookie,
           url # "logout" \/ HasJson,
           token' \in {NULL, token},
           strtok_rest' \in {"unset", "text", "end", "freed"}
    PROVE  RInv'
<1>1. /\ client = "reading" /\ request.url = url
      /\ client' = "prompt" /\ request' = NoRequest /\ OpenReceiver
      /\ UNCHANGED <<accounts, sessions, closed, shelf>>
    BY DEF Handled, Returned, service
<1>2. curr_cookie \in SessionIds => curr_cookie \in DOMAIN sessions \ closed
    BY <1>1, ReadIsCarried DEF RInv, SessionHeld, Open
<1>3. /\ curr_cookie \in Credentials /\ token \in {NULL} \cup SessionIds
      /\ token # NULL => token = curr_cookie
    BY DEF RInv, TypeOK, TokenOfSession
<1> QED
    BY <1>1, <1>2, <1>3, PromptStep

LEMMA LoginDoneStep == RInv /\ LoginDone => RInv'
<1> SUFFICES ASSUME RInv, LoginDone PROVE RInv'
    OBVIOUS
<1>1. /\ client = "reading" /\ request.url = "login"
      /\ client' = "prompt" /\ request' = NoRequest /\ OpenReceiver
      /\ UNCHANGED <<accounts, sessions, closed, shelf>>
      /\ curr_cookie' = FieldOf("Set-Cookie") /\ token' = token
      /\ strtok_rest' \in {"text", "end"}
      /\ HasCookie
    BY DEF LoginDone, Handled, Returned, service
<1>2. PICK seg \in Carried : seg[1] = "Set-Cookie" /\ curr_cookie' = seg[2]
    BY <1>1, ReadIsCarried DEF HasCookie
<1>3. curr_cookie' \in DOMAIN sessions \ closed
    BY <1>2 DEF RInv, CredentialsCarried, Open
<1>4. curr_cookie' \in Credentials
    <2>1. sessions \in Seq(Users) /\ Len(sessions) <= MaxSessions /\ Len(sessions) \in Nat
        BY DEF RInv, TypeOK
    <2>2. DOMAIN sessions \subseteq SessionIds
        BY <2>1, BoundIsNatural DEF SessionIds
    <2> QED
        BY <1>3, <2>2 DEF Credentials
<1>5. token = NULL
    <2>1. curr_cookie = NULL
        BY <1>1 DEF RInv, RequestMade
    <2> QED
        BY <2>1 DEF RInv, TokenOfSession
<1> QED
    BY <1>1, <1>3, <1>4, <1>5, PromptStep

LEMMA LoginOldTextStep == RInv /\ LoginOldText => RInv'
<1> SUFFICES ASSUME RInv, LoginOldText PROVE RInv'
    OBVIOUS
<1>1. /\ client = "reading" /\ request.url = "login"
      /\ client' = "prompt" /\ request' = NoRequest /\ OpenReceiver
      /\ UNCHANGED <<accounts, sessions, closed, shelf>>
      /\ curr_cookie' = Garbage /\ token' = token
      /\ strtok_rest' \in {"text", "freed", "end"}
    BY DEF LoginOldText, Handled, Returned, service
<1>2. Garbage \in Credentials /\ Garbage \notin SessionIds
    BY RestAssumption DEF Credentials, Garbage, SessionIds, Endless
<1>3. token = NULL
    <2>1. curr_cookie = NULL
        BY <1>1 DEF RInv, RequestMade
    <2> QED
        BY <2>1 DEF RInv, TokenOfSession
<1> QED
    BY <1>1, <1>2, <1>3, PromptStep

LEMMA LibAccessStep == RInv /\ LibAccess => RInv'
<1> SUFFICES ASSUME RInv, LibAccess PROVE RInv'
    OBVIOUS
<1>1. /\ client = "reading" /\ request.url = "access"
      /\ client' = "prompt" /\ request' = NoRequest /\ OpenReceiver
      /\ UNCHANGED <<accounts, sessions, closed, shelf>>
      /\ curr_cookie' = curr_cookie /\ strtok_rest' = strtok_rest
      /\ token' = IF Error THEN token ELSE NewToken
    BY DEF LibAccess, Handled, Returned, service
<1>2. /\ curr_cookie \in Credentials /\ token \in {NULL} \cup SessionIds
      /\ token # NULL => token = curr_cookie
      /\ strtok_rest \in {"unset", "text", "end", "freed"}
    BY DEF RInv, TypeOK, TokenOfSession
<1>3. curr_cookie \in SessionIds => curr_cookie \in DOMAIN sessions \ closed
    BY <1>1 DEF RInv, SessionHeld, Open
<1>4. NewToken # NULL => NewToken \in SessionIds /\ NewToken = curr_cookie
    <2> SUFFICES ASSUME NewToken # NULL PROVE NewToken \in SessionIds /\ NewToken = curr_cookie
        OBVIOUS
    <2>1. ParsedAs("{token") /\ NewToken = FieldOf("{token")
        BY DEF NewToken
    <2>2. PICK seg \in Carried : seg[1] = "{token" /\ NewToken = seg[2]
        BY <2>1, ReadIsCarried DEF ParsedAs
    <2> QED
        BY <2>2 DEF RInv, CredentialsCarried
<1>5. token' \in {NULL} \cup SessionIds /\ (token' # NULL => token' = curr_cookie')
    BY <1>1, <1>2, <1>4
<1> QED
    BY <1>1, <1>2, <1>3, <1>5, PromptStep

LEMMA LogoutDoneStep == RInv /\ LogoutDone => RInv'
<1> SUFFICES ASSUME RInv, LogoutDone PROVE RInv'
    OBVIOUS
<1>1. /\ client' = "prompt" /\ request' = NoRequest /\ OpenReceiver
      /\ UNCHANGED <<accounts, sessions, closed, shelf>>
      /\ curr_cookie' = NULL /\ token' = NULL /\ strtok_rest' = strtok_rest
    BY DEF LogoutDone, ForgetSession, Handled, service
<1>2. NULL \in Credentials /\ NULL \notin SessionIds
    BY DEF Credentials, NULL, SessionIds
<1>3. strtok_rest \in {"unset", "text", "end", "freed"}
    BY DEF RInv, TypeOK
<1> QED
    BY <1>1, <1>2, <1>3, PromptStep

LEMMA HandleStep == RInv /\ Handle => RInv'
<1> SUFFICES ASSUME RInv, Handle PROVE RInv'
    OBVIOUS
<1>1. strtok_rest \in {"unset", "text", "end", "freed"}
    BY DEF RInv, TypeOK
<1>2. CASE RegisterAnswer
    BY <1>1, <1>2, KeepStep DEF RegisterAnswer
<1>3. CASE LoginError
    BY <1>1, <1>3, KeepStep DEF LoginError
<1>4. CASE BooksCheck
    BY <1>1, <1>4, KeepStep DEF BooksCheck
<1>5. CASE IdBookCheck
    BY <1>1, <1>5, KeepStep DEF IdBookCheck
<1>6. CASE AddCheck
    BY <1>1, <1>6, KeepStep DEF AddCheck
<1>7. CASE DeleteCheck
    BY <1>1, <1>7, KeepStep DEF DeleteCheck
<1>8. CASE LogoutError
    BY <1>1, <1>8, KeepStep DEF LogoutError, LogoutAccepted
<1>9. CASE LoginCrash \/ IdBookCrash \/ AddCrash
    BY <1>9, LeaveStep DEF LoginCrash, IdBookCrash, AddCrash, Crashed
<1> QED
    BY <1>2, <1>3, <1>4, <1>5, <1>6, <1>7, <1>8, <1>9, LoginDoneStep, LoginOldTextStep,
       LibAccessStep, LogoutDoneStep DEF Handle

(***************************************************************************)
(* The invariants                                                          *)
(***************************************************************************)

LEMMA InitRInv == Init => RInv
<1> SUFFICES ASSUME Init PROVE RInv
    OBVIOUS
<1>1. /\ arriving = <<>> /\ ended = FALSE /\ buffer = <<>> /\ total = Header
      /\ client = "prompt" /\ request = NoRequest /\ curr_cookie = NULL /\ token = NULL
      /\ strtok_rest = "unset"
      /\ accounts = {} /\ sessions = <<>> /\ closed = {} /\ shelf = [u \in Users |-> {}]
    BY DEF Init, InitReceiver
<1>2. TypeOK
    <2>1. arriving \in Seq(Segments) /\ buffer \in Seq(Segments) /\ total \in Int
        BY <1>1, NothingRead, Zenon
    <2>2. sessions \in Seq(Users) /\ Len(sessions) <= MaxSessions /\ closed \subseteq DOMAIN sessions
        BY <1>1, BoundIsNatural
    <2>3. request.cookie = NULL /\ request.token = NULL
        BY <1>1 DEF NoRequest, compute_request
    <2> QED
        BY <1>1, <2>1, <2>2, <2>3 DEF TypeOK, Credentials
<1>3. Whole = <<>>
    BY <1>1 DEF Whole
<1>4. CredentialsCarried
    BY <1>3, EntriesOfFew DEF CredentialsCarried, Carried
<1>5. LengthKnown
    BY <1>1, <1>3, NoHeaderInNothing DEF LengthKnown, First
<1>6. SessionHeld
    BY <1>1 DEF SessionHeld, SessionIds, NULL
<1>7. RequestMade /\ Between /\ TokenOfSession /\ AnswerMeans
    BY <1>1 DEF RequestMade, Between, TokenOfSession, AnswerMeans
<1> QED
    BY <1>2, <1>4, <1>5, <1>6, <1>7 DEF RInv

LEMMA NextStep == RInv /\ [Next]_vars => RInv'
<1> SUFFICES ASSUME RInv, [Next]_vars PROVE RInv'
    OBVIOUS
<1>1. CASE Command
    BY <1>1, CommandStep
<1>2. CASE Exit
    BY <1>2, LeaveStep DEF Exit
<1>3. CASE ConnectionError
    BY <1>3, LeaveStep DEF ConnectionError
<1>4. CASE Restart
    BY <1>4, NoticeStep DEF Restart
<1>5. CASE Serve
    BY <1>5, ServeStep
<1>6. CASE Receive \/ KeptAliveCloses
    BY <1>6, ReceiveStep
<1>7. CASE Handle
    BY <1>7, HandleStep
<1>8. CASE UNCHANGED vars
    <2>1. /\ UNCHANGED <<arriving, ended, buffer, total, client, request, curr_cookie, token>>
          /\ UNCHANGED <<strtok_rest, claim, accounts, sessions, closed, shelf, outcome>>
        BY <1>8 DEF vars, receiver, clientVars, service
    <2>2. Whole' = Whole /\ UNCHANGED <<clientVars, service, outcome>>
        BY <2>1 DEF Whole, clientVars, service
    <2>3. TypeOK' /\ Between'
        BY <2>1 DEF RInv, TypeOK, Between, Credentials, SessionIds
    <2>4. LengthKnown'
        BY <2>1, <2>2 DEF RInv, LengthKnown, First
    <2> QED
        BY <2>2, <2>3, <2>4, SameResponse DEF RInv
<1> QED
    BY <1>1, <1>2, <1>3, <1>4, <1>5, <1>6, <1>7, <1>8 DEF Next

\* The inductive invariant holds in every behaviour.
THEOREM RestInvariant == Spec => []RInv
<1>1. Init => RInv
    BY InitRInv
<1>2. RInv /\ [Next]_vars => RInv'
    BY NextStep
<1> QED
    BY <1>1, <1>2, PTL DEF Spec

\* The types of client.c's credentials, its request and what it reads.
THEOREM RestTypes == Spec => []TypeOK
<1>1. RInv => TypeOK
    BY DEF RInv
<1> QED
    BY <1>1, RestInvariant, PTL

\* lib_access and the logout in client.c: the token is that of the cookie.
THEOREM TokenAlwaysOfSession == Spec => []TokenOfSession
<1>1. RInv => TokenOfSession
    BY DEF RInv
<1> QED
    BY <1>1, RestInvariant, PTL

\* The logout in client.c: no session is closed behind the client's back.
THEOREM CookieAlwaysOpen == Spec => []CookieOpen
<1>1. RInv => CookieOpen
    BY DEF RInv, SessionHeld, CookieOpen
<1> QED
    BY <1>1, RestInvariant, PTL

\* receive_from_server reads a response to its end, in whatever pieces.
LEMMA ReceivedIsWhole ==
    ASSUME RInv
    PROVE  /\ ReceivedWhole
           /\ client = "reading" /\ Received => Carried = Entries(buffer)
<1>1. /\ buffer \in Seq(Segments) /\ arriving \in Seq(Segments) /\ total \in Int
      /\ total # Header => arriving = <<>> \/ total >= Len(Whole)
    BY DEF RInv, TypeOK, LengthKnown
<1>2. Len(Whole) = Len(buffer) + Len(arriving) /\ Len(buffer) \in Nat /\ Len(arriving) \in Nat
    BY <1>1 DEF Whole
<1>3. Received => arriving = <<>>
    BY <1>1, <1>2 DEF Received, AtEof
<1>4. arriving = <<>> => Carried = Entries(buffer)
    <2>1. Carried = Entries(buffer) \cup Entries(arriving)
        BY <1>1, EntriesOfConcatenation DEF Carried, Whole
    <2> QED
        BY <2>1, EntriesOfFew
<1> QED
    BY <1>3, <1>4 DEF ReceivedWhole

THEOREM AlwaysReceivedWhole == Spec => []ReceivedWhole
<1>1. RInv => ReceivedWhole
    BY ReceivedIsWhole
<1> QED
    BY <1>1, RestInvariant, PTL

(***************************************************************************)
(* What the user is told                                                   *)
(***************************************************************************)

\* An answer that is not cut, as the client finds it in its buffer.
LEMMA AnswerRead ==
    ASSUME RInv, client = "reading", Received, outcome \in {"done", "refused"}
    PROVE  /\ ~Received429 /\ buffer # <<>>
           /\ outcome = "refused" => Error /\ HasJson
           /\ outcome = "done" =>
               /\ ~Error
               /\ request.url \in {"register", "login", "logout"} => ~HasJson
               /\ request.url = "login" => HasCookie
               /\ request.url = "books" /\ request.method = "GET" => (HasJson <=> shelf[Owner] # {})
               /\ request.url = "book" /\ request.method = "GET" => ParsedAs("{book")
<1>1. Carried = Entries(buffer) /\ AnswerMeans
    BY ReceivedIsWhole DEF RInv
<1>2. \A kind : Carries(kind) <=> \E i \in DOMAIN buffer : buffer[i][1] = kind
    BY <1>1 DEF Carries, Entries
<1>3. CarriesJson <=> HasJson
    BY <1>1 DEF CarriesJson, HasJson, Entries
<1>4. \A kind : {Seg(kind), Seg("}")} \subseteq Carried => ParsedAs(kind)
    <2> SUFFICES ASSUME NEW kind, {Seg(kind), Seg("}")} \subseteq Carried PROVE ParsedAs(kind)
        OBVIOUS
    <2>1. PICK i \in DOMAIN buffer : buffer[i] = Seg(kind)
        BY <1>1 DEF Entries
    <2>2. Seg("}") \in {buffer[j] : j \in DOMAIN buffer}
        BY <1>1 DEF Entries
    <2>3. buffer[i][1] = kind
        <3>1. <<kind, 0>>[1] = kind
            OBVIOUS
        <3> QED
            BY <2>1, <3>1, Zenon DEF Seg
    <2> QED
        BY <2>2, <2>3 DEF ParsedAs
<1>5. ~Received429 /\ buffer # <<>>
    <2>1. ~Carries("429") /\ Carried # {}
        BY <1>1 DEF AnswerMeans
    <2> QED
        BY <1>1, <1>2, <2>1, EntriesOfFew DEF Received429
<1>6. ASSUME outcome = "refused" PROVE Error /\ HasJson
    <2>1. Error
        BY <1>1, <1>4, <1>6 DEF AnswerMeans, Error
    <2> QED
        BY <2>1 DEF Error, ParsedAs, HasJson, JsonKinds
<1>7. ASSUME outcome = "done" PROVE ~Error
    <2>1. ~Carries("{error")
        BY <1>1, <1>7 DEF AnswerMeans
    <2> QED
        BY <1>2, <2>1 DEF Error, ParsedAs
<1>8. ASSUME outcome = "done"
      PROVE  /\ request.url \in {"register", "login", "logout"} => ~HasJson
             /\ request.url = "login" => HasCookie
             /\ request.url = "books" /\ request.method = "GET" => (HasJson <=> shelf[Owner] # {})
             /\ request.url = "book" /\ request.method = "GET" => ParsedAs("{book")
    BY <1>1, <1>2, <1>3, <1>4, <1>8 DEF AnswerMeans, HasCookie
<1> QED
    BY <1>5, <1>6, <1>7, <1>8

LEMMA ClaimStep ==
    ASSUME RInv, Next, client = "reading", outcome \in {"done", "refused"}
    PROVE  ClaimTrue
<1>1. CASE Command \/ Exit \/ Restart \/ Serve
    <2>1. client # "reading"
        BY <1>1 DEF Command, Register, Login, LogoutFirst, EnterLibrary, GetBooks, GetBook, AddBook,
           DeleteBook, Logout, BadInput, Send, Tell, Exit, Restart, Serve, ServeRegister, ServeLogin,
           ServeAccess, ServeBooks, ServeBook, ServeAdd, ServeDelete, ServeLogout, ServeBusy,
           Refused, Done, Answered
    <2> QED
        BY <2>1
<1>2. CASE ConnectionError \/ Receive \/ KeptAliveCloses
    BY <1>2 DEF ConnectionError, Leave, Receive, KeptAliveCloses, clientVars, ClaimTrue
<1>3. CASE Handle
    <2>1. Received
        BY <1>3 DEF Handle, RegisterAnswer, LoginError, LoginDone, LoginOldText, LoginCrash, LibAccess,
           BooksCheck, IdBookCheck, IdBookCrash, AddCheck, AddCrash, DeleteCheck, LogoutError, LogoutDone,
           Handled, Crashed, Returned
    <2>2. CASE RegisterAnswer
        BY <2>1, <2>2, AnswerRead DEF RegisterAnswer, Handled, Returned, LogResult, ClaimTrue
    <2>3. CASE LoginError \/ LoginDone
        BY <2>1, <2>3, AnswerRead DEF LoginError, LoginDone, Handled, Returned, LogResult, ClaimTrue
    <2>4. CASE LoginOldText \/ LoginCrash
        BY <2>1, <2>4, AnswerRead DEF LoginOldText, LoginCrash, Handled, Crashed, Returned
    <2>5. CASE LibAccess
        BY <2>1, <2>5, AnswerRead DEF LibAccess, Handled, Returned, ClaimTrue
    <2>6. CASE BooksCheck
        BY <2>1, <2>6, AnswerRead DEF BooksCheck, Handled, Returned, ClaimTrue
    <2>7. CASE IdBookCheck
        BY <2>1, <2>7, AnswerRead DEF IdBookCheck, Handled, Returned, ClaimTrue
    <2>8. CASE IdBookCrash
        <3>1. "{book" \in JsonKinds /\ "{error" \in JsonKinds
            BY DEF JsonKinds
        <3> QED
            BY <2>1, <2>8, <3>1, AnswerRead DEF IdBookCrash, Crashed, Returned, Error
    <2>9. CASE AddCheck \/ AddCrash
        BY <2>1, <2>9, AnswerRead DEF AddCheck, AddCrash, Handled, Crashed, Returned, ClaimTrue
    <2>10. CASE DeleteCheck
        BY <2>1, <2>10, AnswerRead DEF DeleteCheck, Handled, Returned, ClaimTrue
    <2>11. CASE LogoutError \/ LogoutDone
        BY <2>1, <2>11, AnswerRead DEF LogoutError, LogoutDone, LogoutAccepted, Handled, Returned,
           LogResult, ClaimTrue
    <2> QED
        BY <1>3, <2>2, <2>3, <2>4, <2>5, <2>6, <2>7, <2>8, <2>9, <2>10, <2>11 DEF Handle
<1> QED
    BY <1>1, <1>2, <1>3 DEF Next

\* The checks of client.c on what it has received: a whole answer, busy
\* excepted, is reported as what the service did.
THEOREM ClaimsAlwaysTrue == Spec => ClaimsTrue
<1>1. RInv /\ [Next]_vars
          => [client = "reading" /\ outcome \in {"done", "refused"} => ClaimTrue]_vars
    BY ClaimStep
<1> QED
    BY <1>1, RestInvariant, PTL DEF Spec, ClaimsTrue
=============================================================================
