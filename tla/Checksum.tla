------------------------------ MODULE Checksum ------------------------------
(***************************************************************************)
(* The header checksum of 01-Router: ip_checksum of skel.c, which adds the *)
(* header up, and check_1624 of router.c, which updates the checksum from  *)
(* the one field that changes when ttl is decremented.  A packet crosses   *)
(* one router after another that runs this code.                           *)
(*                                                                         *)
(* A word of 16 bits is a number below Word = Byte^2; with a smaller Byte  *)
(* the arithmetic is the same.  Words are in network order.                *)
(***************************************************************************)
EXTENDS Integers, Sequences

CONSTANTS Byte,        \* 2^8
          Fields       \* what the words of a header besides ttl may hold

Word == Byte * Byte
DWord == Word * Word

ASSUME ChecksumAssumption ==
    /\ Byte \in Nat /\ Byte > 1
    /\ Fields \subseteq 0..(Word - 1)

\* The header: a word, ttl and protocol, checksum, a word.
Ttl == 2
Check == 3

VARIABLES
    header,    \* the words of the header
    offset,    \* its address modulo 4 in the router that handles it: 0 or 2
    borrowed,  \* history: an update had to borrow
    fate       \* "none", "on its way", "expired" or "dropped"

checksumVars == <<header, offset, borrowed, fate>>

\* ~w of a word.
Not(w) == Word - 1 - w

\* A carry is added to the low word; a word stays as it is.
Carry(n) == (n \div Word) + (n % Word)

\* Carries are added until there are none: of 32 bits and the carries of a
\* header, two rounds leave a word.
Fold(n) == Carry(Carry(n))

\* A borrow of a 32-bit subtraction.
Borrows(check, m_prev, m_curr) == check - m_prev + m_curr < 0

\* Mutant: the difference is taken the wrong way round.
Updated(check, m_prev, m_curr) == (check - m_curr + m_prev) % DWord

\* 110-112, in 32 bits.
Changed(check, m_prev, m_curr) == (check - m_prev + m_curr) % DWord

\* The new checksum from the old one, and the word of ttl before and after.
check_1624(old_check, m_prev, m_curr) == Not(Fold(Changed(Not(old_check), m_prev, m_curr)))

\* The sum of the 32-bit blocks at aligned addresses that the header is cut
\* into; what is missing of the first and the last one is 0.
Accumulated(words, off) ==
    IF off = 0
    THEN (words[1] * Word + words[2]) + (words[3] * Word + words[4])
    ELSE words[1] + (words[2] * Word + words[3]) + words[4] * Word

Folded(acc) == Fold((acc \div DWord) + (acc % DWord))

\* 0 if the header is right.
ip_checksum(words, off) == Not(Folded(Word - 1 + Accumulated(words, off)))

\* A sender computes the checksum with the field at 0.
Sealed(words) == [words EXCEPT ![Check] = ip_checksum([words EXCEPT ![Check] = 0], 0)]

ChecksumInit ==
    /\ header = <<>>
    /\ offset = 0
    /\ borrowed = FALSE
    /\ fate = "none"

\* A host sends a packet.
Emit ==
    /\ fate = "none"
    /\ \E a, b \in Fields, ttl \in 0..(Word - 1) : header' = Sealed(<<a, ttl, 0, b>>)
    /\ offset' \in {0, 2}
    /\ fate' = "on its way"
    /\ UNCHANGED borrowed

\* The router at 179.
Expire ==
    /\ fate = "on its way"
    /\ header[Ttl] < 2 * Byte
    /\ fate' = "expired"
    /\ UNCHANGED <<header, offset, borrowed>>

\* 192: the packet is dropped.
Drop ==
    /\ fate = "on its way"
    /\ header[Ttl] >= 2 * Byte
    /\ ip_checksum(header, offset) # 0
    /\ fate' = "dropped"
    /\ UNCHANGED <<header, offset, borrowed>>

\* 206-214: ttl, the high byte of its word, is decremented; the packet goes on
\* to the next router.
Forward ==
    LET m_prev == header[Ttl]
        m_curr == header[Ttl] - Byte
    IN
    /\ fate = "on its way"
    /\ header[Ttl] >= 2 * Byte
    /\ ip_checksum(header, offset) = 0
    /\ header' = [header EXCEPT ![Ttl] = m_curr,
                                ![Check] = check_1624(@, m_prev, m_curr)]
    /\ borrowed' = (borrowed \/ Borrows(Not(header[Check]), m_prev, m_curr))
    /\ offset' \in {0, 2}
    /\ UNCHANGED fate

ChecksumNext == Emit \/ Expire \/ Drop \/ Forward

ChecksumSpec == ChecksumInit /\ [][ChecksumNext]_checksumVars

(***************************************************************************)
(* Properties                                                              *)
(***************************************************************************)

\* The sum does not depend on where the header lies in memory; and as long as
\* no update had to borrow, a packet that no host has damaged verifies at the
\* next router and is not dropped, however many routers it has crossed.
ChecksumRight ==
    fate # "none" =>
        /\ ip_checksum(header, 0) = ip_checksum(header, 2)
        /\ ~borrowed => ip_checksum(header, offset) = 0 /\ fate # "dropped"

\* README:77-85 and router.c:188-191: check_1624 is the incremental update of
\* RFC 1624, ~(old_check - m + m') cut to 16 bits, and a right checksum is one
\* for which ip_checksum gives 0.  A packet that nobody has damaged verifies,
\* whichever routers have updated it.
UpdateVerifies == fate = "on its way" => ip_checksum(header, offset) = 0
=============================================================================
