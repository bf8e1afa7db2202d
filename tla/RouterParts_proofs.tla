------------------------- MODULE RouterParts_proofs -------------------------
(***************************************************************************)
(* The parts that Router takes as given.  What the search of the routing   *)
(* table returns, for any table, mask operation and width of an address:   *)
(* SearchFindsLast and LookupRight.  The linked list of queue.c implements *)
(* a first-in-first-out queue, for any number of cells and elements:       *)
(* QueueIsFifo.  The checksum of a header, for words of any even number of *)
(* bits and paths of any length: ChecksumRight.                            *)
(***************************************************************************)
EXTENDS RouteLookup, WaitingQueue, Checksum, FiniteSetTheorems, WellFoundedInduction, TLAPS

LEMMA LeastNatural ==
    ASSUME NEW S, S \subseteq Nat, S # {}
    PROVE  \E x \in S : \A y \in S : x <= y
  <1>1. PICK x \in S : \A y \in S : ~ (<<y, x>> \in OpToRel(<, Nat))
    BY NatLessThanWellFounded, WFMin
  <1>2. \A y \in S : ~ (y < x)
    BY <1>1 DEF OpToRel
  <1> QED
    BY <1>2

(***************************************************************************)
(* The search of the routing table                                         *)
(***************************************************************************)

LookupTypeOK ==
    /\ rtable \in Seq(Routes)
    /\ dest_ip \in Addresses
    /\ l \in Nat /\ r \in Nat /\ ind \in Nat
    /\ lookup \in {"unloaded", "idle", "search", "done"}

\* The entries below l are behind the search and those above r as well: ind
\* is the one just below l, and fits; the one just above r does not.
SearchInv ==
    lookup \in {"search", "done"} =>
        /\ l \in 1..(r + 1)
        /\ r <= Len(rtable)
        /\ ind = l - 1
        /\ ind # 0 => Fits(ind)
        /\ r < Len(rtable) => ~Fits(r + 1)
        /\ lookup = "done" => l = r + 1

\* The table is the one qsort has left.
TableInv == Sorted(rtable)

LInv == LookupTypeOK /\ TableInv /\ SearchInv

LEMMA LookupInitInv == LookupInit => LInv
  <1> SUFFICES ASSUME LookupInit PROVE LInv
    OBVIOUS
  <1>1. LookupTypeOK
    BY LookupAssumption DEF LookupInit, LookupTypeOK, Addresses
  <1>2. TableInv
    BY DEF LookupInit, TableInv, Sorted
  <1>3. SearchInv
    BY DEF LookupInit, SearchInv
  <1> QED
    BY <1>1, <1>2, <1>3 DEF LInv

LEMMA LookupNextInv == LInv /\ [LookupNext]_lookupVars => LInv'
  <1> SUFFICES ASSUME LInv, [LookupNext]_lookupVars PROVE LInv'
    OBVIOUS
  <1> USE DEF LInv, LookupTypeOK, TableInv
  <1>1. CASE LoadTable
    <2>1. PICK n \in 0..MaxRoutes : rtable' \in [1..n -> Routes] /\ Sorted(rtable')
      BY <1>1 DEF LoadTable
    <2>2. rtable' \in Seq(Routes)
      BY <2>1, LookupAssumption
    <2> QED
      BY <1>1, <2>1, <2>2 DEF LoadTable, SearchInv
  <1>2. ASSUME NEW d \in Addresses, Call(d) PROVE LInv'
    <2>1. LookupTypeOK' /\ TableInv'
      BY <1>2 DEF Call, Sorted
    <2>2. SearchInv'
      BY <1>2 DEF Call, SearchInv
    <2> QED
      BY <2>1, <2>2
  <1>3. CASE Probe
    <2> DEFINE m == l + (r - l) \div 2
    <2>1. lookup = "search" /\ l <= r
      BY <1>3 DEF Probe
    <2>2. m \in l..r
      BY <2>1 DEF SearchInv
    <2>3. TableInv'
      BY <1>3 DEF Probe, Sorted
    <2>4. CASE Fits(m)
      <3>1. ind' = m /\ l' = m + 1 /\ r' = r
        BY <1>3, <2>4 DEF Probe
      <3>2. rtable' = rtable /\ dest_ip' = dest_ip /\ lookup' = lookup
        BY <1>3 DEF Probe
      <3>3. Fits(ind)'
        BY <2>4, <3>1, <3>2 DEF Fits
      <3> HIDE DEF m
      <3>4. LookupTypeOK'
        BY <2>1, <2>2, <3>1, <3>2
      <3>5. SearchInv'
        BY <2>1, <2>2, <3>1, <3>2, <3>3 DEF SearchInv, Fits
      <3> QED
        BY <2>3, <3>4, <3>5
    <2>5. CASE ~Fits(m)
      <3>1. r' = m - 1 /\ ind' = ind /\ l' = l
        BY <1>3, <2>5 DEF Probe
      <3>2. rtable' = rtable /\ dest_ip' = dest_ip /\ lookup' = lookup
        BY <1>3 DEF Probe
      <3> HIDE DEF m
      <3>3. r' + 1 = m
        BY <2>1, <2>2, <3>1
      <3>4. ~Fits(r + 1)'
        BY <2>5, <3>2, <3>3 DEF Fits
      <3>5. LookupTypeOK'
        BY <2>1, <2>2, <3>1, <3>2 DEF SearchInv
      <3>6. SearchInv'
        BY <2>1, <2>2, <3>1, <3>2, <3>4 DEF SearchInv, Fits
      <3> QED
        BY <2>3, <3>5, <3>6
    <2> QED
      BY <2>4, <2>5
  <1>4. CASE Return
    BY <1>4 DEF Return, SearchInv, Fits, Sorted
  <1>5. CASE UNCHANGED lookupVars
    BY <1>5 DEF lookupVars, SearchInv, Fits, Sorted
  <1> QED
    BY <1>1, <1>2, <1>3, <1>4, <1>5 DEF LookupNext

\* The search keeps its place between the entries it has passed.
THEOREM SearchInductive == LookupSpec => []LInv
  BY LookupInitInv, LookupNextInv, PTL DEF LookupSpec

\* If the fitting entries come first, the search of get_best_route returns
\* the last of them, or none if there is none.
THEOREM SearchAlwaysFindsLast == LookupSpec => []SearchFindsLast
  <1>1. LInv => SearchFindsLast
    <2> SUFFICES ASSUME LInv, lookup = "done", Monotone
                 PROVE  /\ ind = 0 \/ (ind \in DOMAIN rtable /\ Fits(ind))
                        /\ \A k \in DOMAIN rtable : k > ind => ~Fits(k)
      BY DEF SearchFindsLast
    <2>1. DOMAIN rtable = 1..Len(rtable) /\ Len(rtable) \in Nat
      BY DEF LInv, LookupTypeOK
    <2>2. ind = r /\ ind \in 0..Len(rtable) /\ (ind # 0 => Fits(ind))
      BY <2>1 DEF LInv, LookupTypeOK, SearchInv
    <2>3. r < Len(rtable) => ~Fits(r + 1)
      BY DEF LInv, SearchInv
    <2>4. ASSUME NEW k \in DOMAIN rtable, k > ind, Fits(k) PROVE FALSE
      <3>1. ind + 1 \in DOMAIN rtable /\ (k = ind + 1 \/ ind + 1 < k) /\ r < Len(rtable)
        BY <2>1, <2>2, <2>4
      <3>2. Fits(ind + 1)
        BY <2>4, <3>1 DEF Monotone
      <3> QED
        BY <2>2, <2>3, <3>1, <3>2
    <2> QED
      BY <2>1, <2>2, <2>4
  <1> QED
    BY <1>1, SearchInductive, PTL

(***************************************************************************)
(* The routed entry                                                        *)
(***************************************************************************)

\* Where no difference overflows, cmp puts the smaller prefix first.
LEMMA CmpOrders ==
    ASSUME NEW p, NEW q, p.prefix \in Addresses, q.prefix \in Addresses,
           2 * (p.prefix - q.prefix) < Top, cmp(p, q) <= 0
    PROVE  p.prefix <= q.prefix
  <1> DEFINE a == p.prefix
             b == q.prefix
  <1> SUFFICES ASSUME a > b PROVE FALSE
    BY DEF Addresses
  <1>1. Top \in Nat /\ a \in 0..(Top - 1) /\ b \in 0..(Top - 1)
    BY LookupAssumption DEF Addresses
  <1>2. cmp(p, q) = Difference(a, b)
    BY <1>1 DEF cmp
  <1> HIDE DEF a, b
  <1>3. (a - b) % Top = a - b
    BY <1>1
  <1>4. 2 * (a - b) < Top
    BY DEF a, b
  <1>5. Difference(a, b) = a - b
    BY <1>1, <1>3, <1>4 DEF Difference
  <1> QED
    BY <1>1, <1>2, <1>5

\* The prefixes of the table are then ascending: there is no least entry that
\* is smaller than one before it.
LEMMA TableAscending ==
    ASSUME LInv, NoOverflow
    PROVE  \A j, k \in DOMAIN rtable : j < k => rtable[j].prefix <= rtable[k].prefix
  <1>1. DOMAIN rtable = 1..Len(rtable) /\ Len(rtable) \in Nat
    BY DEF LInv, LookupTypeOK
  <1>2. \A k \in DOMAIN rtable : rtable[k].prefix \in Addresses
    BY LookupAssumption DEF LInv, LookupTypeOK
  <1>3. \A a \in Addresses : a \in Nat
    BY LookupAssumption DEF Addresses
  <1>4. ASSUME NEW i \in DOMAIN rtable, i + 1 \in DOMAIN rtable
        PROVE  rtable[i].prefix <= rtable[i + 1].prefix
    <2>1. cmp(rtable[i], rtable[i + 1]) <= 0
      BY <1>1, <1>4 DEF LInv, TableInv, Sorted
    <2>2. 2 * (rtable[i].prefix - rtable[i + 1].prefix) < Top
      BY <1>4 DEF NoOverflow
    <2> QED
      BY <1>2, <1>4, <2>1, <2>2, CmpOrders
  <1>5. SUFFICES ASSUME NEW j \in DOMAIN rtable
                 PROVE  \A k \in DOMAIN rtable : j < k => rtable[j].prefix <= rtable[k].prefix
    OBVIOUS
  <1> DEFINE Smaller == {k \in DOMAIN rtable : j < k /\ ~(rtable[j].prefix <= rtable[k].prefix)}
  <1>6. SUFFICES ASSUME Smaller # {} PROVE FALSE
    OBVIOUS
  <1>7. Smaller \subseteq Nat
    BY <1>1
  <1>8. PICK k \in Smaller : \A y \in Smaller : k <= y
    BY <1>6, <1>7, LeastNatural
  <1>9. k \in DOMAIN rtable /\ j < k /\ ~(rtable[j].prefix <= rtable[k].prefix)
    BY <1>8
  <1>10. k - 1 \in DOMAIN rtable /\ (k - 1 = j \/ j < k - 1) /\ (k - 1) + 1 = k
    BY <1>1, <1>5, <1>9
  <1>11. rtable[k - 1].prefix <= rtable[k].prefix
    BY <1>4, <1>9, <1>10
  <1>12. k - 1 \notin Smaller
    BY <1>1, <1>8, <1>9
  <1>13. rtable[j].prefix <= rtable[k - 1].prefix
    BY <1>2, <1>3, <1>5, <1>10, <1>12
  <1> QED
    BY <1>2, <1>3, <1>5, <1>9, <1>10, <1>11, <1>13

\* An address is masked to an address.
LEMMA MaskedIsAddress ==
    ASSUME LInv, NEW k \in DOMAIN rtable
    PROVE  /\ And(dest_ip, rtable[k].mask) \in Nat
           /\ rtable[k].prefix \in Nat
  <1>1. rtable[k] \in Routes
    BY DEF LInv, LookupTypeOK
  <1>2. dest_ip \in Addresses /\ rtable[k].mask \in Addresses /\ rtable[k].prefix \in Addresses
    BY <1>1, LookupAssumption DEF LInv, LookupTypeOK
  <1>3. And(dest_ip, rtable[k].mask) \in Addresses
    BY <1>2, LookupAssumption
  <1> QED
    BY <1>2, <1>3, LookupAssumption DEF Addresses

\* A default route always fits, and with one mask the others fit as long as
\* their prefix is not above the masked address.
LEMMA OneMaskMonotone ==
    ASSUME LInv, NoOverflow, OneMask
    PROVE  Monotone
  <1> SUFFICES ASSUME NEW j \in DOMAIN rtable, NEW k \in DOMAIN rtable, j < k, Fits(k)
               PROVE  Fits(j)
    BY DEF Monotone
  <1>1. rtable[j].prefix <= rtable[k].prefix
    BY TableAscending
  <1>2. CASE Default(j)
    BY <1>2, MaskedIsAddress DEF Default, Fits
  <1>3. CASE ~Default(j)
    <2>1. ~Default(k)
      BY <1>1, <1>3, MaskedIsAddress DEF Default
    <2>2. rtable[j].mask = rtable[k].mask
      BY <1>3, <2>1 DEF OneMask, Proper
    <2> QED
      BY <1>1, <2>2, MaskedIsAddress DEF Fits
  <1> QED
    BY <1>2, <1>3

\* With one mask and near prefixes, get_best_route gives an address that
\* matches an entry an entry that matches, and not the default route, although
\* it never tests for a match.
THEOREM LookupAlwaysRight == LookupSpec => []LookupRight
  <1>1. LInv /\ SearchFindsLast => LookupRight
    <2> SUFFICES ASSUME LInv, SearchFindsLast, lookup = "done", OneMask, NoOverflow,
                        NEW k \in Proper, Matches(k)
                 PROVE  ind \in Proper /\ Matches(ind)
      BY DEF LookupRight
    <2>1. Monotone
      BY OneMaskMonotone
    <2>2. k \in DOMAIN rtable /\ ~Default(k)
      BY DEF Proper
    <2>3. Fits(k)
      BY <2>2, MaskedIsAddress DEF Matches, Fits
    <2>4. DOMAIN rtable = 1..Len(rtable) /\ Len(rtable) \in Nat /\ ind \in Nat
      BY DEF LInv, LookupTypeOK
    <2>5. ind \in DOMAIN rtable /\ Fits(ind) /\ (k = ind \/ k < ind)
      BY <2>1, <2>2, <2>3, <2>4 DEF SearchFindsLast
    <2>6. rtable[k].prefix <= rtable[ind].prefix
      BY <2>2, <2>5, TableAscending, MaskedIsAddress
    <2>7. ~Default(ind)
      BY <2>2, <2>5, <2>6, MaskedIsAddress DEF Default
    <2>8. rtable[ind].mask = rtable[k].mask
      BY <2>2, <2>5, <2>7 DEF OneMask, Proper
    <2> QED
      BY <2>2, <2>5, <2>6, <2>7, <2>8, MaskedIsAddress DEF Matches, Fits, Proper
  <1> QED
    BY <1>1, SearchInductive, SearchAlwaysFindsLast, PTL

(***************************************************************************)
(* The waiting queue: its inductive invariant                              *)
(***************************************************************************)

QueueTypes ==
    /\ element \in [Cells -> Elements \cup {NoElement}]
    /\ next \in [Cells -> Cells \cup {NULL}]
    /\ allocated \subseteq Cells
    /\ head \in Cells \cup {NULL}
    /\ tail \in Cells \cup {NULL}

\* The list has each allocated cell once, and tail is the last one of it,
\* unless it is empty.
Linked(cells) ==
    /\ cells \in Seq(Cells)
    /\ IsList(cells)
    /\ \A i, j \in DOMAIN cells : cells[i] = cells[j] => i = j
    /\ \A c \in Cells : c \in allocated <=> \E i \in DOMAIN cells : cells[i] = c
    /\ cells # <<>> => tail = cells[Len(cells)]

QInv == QueueTypes /\ \E cells \in Seq(Cells) : Linked(cells)

(***************************************************************************)
(* There is one list from head to NULL                                     *)
(***************************************************************************)

\* A list from head to NULL goes as far as another one, with the same cells.
LEMMA ListGoesAlong ==
    ASSUME NEW p \in Seq(Cells), NEW q \in Seq(Cells), IsList(p), IsList(q)
    PROVE  \A i \in DOMAIN p : i \in DOMAIN q /\ q[i] = p[i]
  <1> DEFINE Bad == {i \in DOMAIN p : ~ (i \in DOMAIN q /\ q[i] = p[i])}
  <1> SUFFICES ASSUME Bad # {} PROVE FALSE
    OBVIOUS
  <1>1. /\ DOMAIN p = 1..Len(p) /\ Len(p) \in Nat
        /\ DOMAIN q = 1..Len(q) /\ Len(q) \in Nat
        /\ \A i \in 1..Len(p) : p[i] \in Cells
    OBVIOUS
  <1>2. PICK i \in Bad : \A j \in Bad : i <= j
    <2>1. Bad \subseteq Nat
      BY <1>1
    <2> HIDE DEF Bad
    <2> QED
      BY <2>1, LeastNatural
  <1>3. i \in 1..Len(p) /\ p[i] # NULL
    BY <1>1, QueueAssumption
  <1>4. CASE i = 1
    <2>1. p # <<>> /\ head = p[1]
      BY <1>3 DEF IsList
    <2>2. q # <<>> /\ q[1] = p[1]
      BY <1>3, <1>4, <2>1 DEF IsList
    <2>3. 1 \in DOMAIN q
      BY <1>1, <2>2
    <2> QED
      BY <1>4, <2>2, <2>3
  <1>5. CASE i # 1
    <2> DEFINE j == i - 1
    <2>1. j \in 1..Len(p) /\ j < Len(p) /\ j + 1 = i /\ j < i
      BY <1>3, <1>5
    <2>2. j \notin Bad
      BY <1>2, <2>1
    <2> HIDE DEF j
    <2>3. j \in 1..Len(q) /\ q[j] = p[j]
      BY <1>1, <2>1, <2>2
    <2>4. next[p[j]] = p[i]
      BY <1>1, <2>1 DEF IsList
    <2>5. next[p[j]] = IF j < Len(q) THEN q[j + 1] ELSE NULL
      BY <1>1, <2>3 DEF IsList
    <2>6. j < Len(q) /\ q[i] = p[i]
      BY <1>3, <2>1, <2>4, <2>5
    <2>7. i \in DOMAIN q
      BY <1>1, <2>1, <2>3, <2>6
    <2> QED
      BY <2>6, <2>7
  <1> QED
    BY <1>4, <1>5

\* There is no more than one list.
LEMMA OneList ==
    ASSUME NEW p \in Seq(Cells), NEW q \in Seq(Cells), IsList(p), IsList(q)
    PROVE  p = q
  <1>1. \A i \in DOMAIN p : i \in DOMAIN q /\ q[i] = p[i]
    BY ListGoesAlong
  <1>2. \A i \in DOMAIN q : i \in DOMAIN p
    BY ListGoesAlong
  <1>3. DOMAIN p = DOMAIN q
    BY <1>1, <1>2
  <1>4. Len(p) = Len(q)
    BY <1>3
  <1> QED
    BY <1>1, <1>4

\* The list without repetitions is no longer than there are cells, and is
\* what QueueCells finds.
LEMMA LinkedIsQueueCells ==
    ASSUME NEW cells, Linked(cells)
    PROVE  QueueCells = cells
  <1>1. cells \in Seq(Cells) /\ IsList(cells) /\ Len(cells) \in Nat /\ DOMAIN cells = 1..Len(cells)
    BY DEF Linked
  <1>2. IsFiniteSet(Cells) /\ Cardinality(Cells) \in Nat
    BY QueueAssumption, FS_CardinalityType
  <1>3. Len(cells) <= Cardinality(Cells)
    <2>1. cells \in Injection(1..Len(cells), Cells)
      BY <1>1 DEF Linked, Injection, IsInjective
    <2>2. Cardinality(1..Len(cells)) <= Cardinality(Cells)
      BY <1>2, <2>1, FS_Injection
    <2>3. Cardinality(1..Len(cells)) = Len(cells)
      BY <1>1, FS_Interval
    <2> QED
      BY <2>2, <2>3
  <1>4. cells \in CellSequences
    BY <1>1, <1>2, <1>3 DEF CellSequences
  <1>5. \A q \in CellSequences : q \in Seq(Cells)
    BY <1>2 DEF CellSequences
  <1>6. QueueCells \in CellSequences /\ IsList(QueueCells)
    BY <1>1, <1>4 DEF QueueCells
  <1> QED
    BY <1>1, <1>5, <1>6, OneList

OneQueue == \A cells \in Seq(Cells) : Linked(cells) => QueueCells = cells

\* So it is in a state and in the one that follows it.
LEMMA OneQueueAlways == OneQueue /\ OneQueue'
  <1>1. OneQueue
    BY LinkedIsQueueCells DEF OneQueue
  <1>2. OneQueue'
    BY <1>1, PTL
  <1> QED
    BY <1>1, <1>2

(***************************************************************************)
(* What queue_enq and queue_deq do to it                                   *)
(***************************************************************************)

LEMMA InitQInv == QueueInit => QueueTypes /\ Linked(<<>>)
  <1> SUFFICES ASSUME QueueInit PROVE QueueTypes /\ Linked(<<>>)
    OBVIOUS
  <1>1. QueueTypes
    BY DEF QueueInit, QueueTypes
  <1>2. Linked(<<>>)
    BY DEF QueueInit, Linked, IsList
  <1> QED
    BY <1>1, <1>2

\* A cell that is not in use becomes the last one; nothing that tail points
\* to is used unless the queue has cells.
LEMMA EnqStep ==
    ASSUME QueueTypes, NEW cells \in Seq(Cells), Linked(cells),
           NEW e \in Elements, queue_enq(e)
    PROVE  QueueTypes' /\ \E c \in Cells \ allocated :
               /\ Linked(Append(cells, c))'
               /\ allocated' = allocated \cup {c}
               /\ element' = [element EXCEPT ![c] = e]
               /\ UNCHANGED temp
  <1>1. PICK c \in Cells \ allocated :
          /\ allocated' = allocated \cup {c}
          /\ element' = [element EXCEPT ![c] = e]
          /\ Link(c)
          /\ UNCHANGED temp
    BY DEF queue_enq, cons
  <1>2. /\ Len(cells) \in Nat /\ DOMAIN cells = 1..Len(cells)
        /\ \A i \in DOMAIN cells : cells[i] \in Cells /\ cells[i] \in allocated /\ cells[i] # c
        /\ IsList(cells)
        /\ \A i, j \in DOMAIN cells : cells[i] = cells[j] => i = j
        /\ \A d \in Cells : d \in allocated <=> \E i \in DOMAIN cells : cells[i] = d
        /\ cells # <<>> => tail = cells[Len(cells)]
    BY <1>1 DEF Linked
  <1> DEFINE new == Append(cells, c)
  <1>3. /\ new \in Seq(Cells) /\ Len(new) = Len(cells) + 1 /\ DOMAIN new = 1..(Len(cells) + 1)
        /\ new[Len(cells) + 1] = c
        /\ \A i \in 1..Len(cells) : new[i] = cells[i]
    BY <1>1, <1>2
  <1> HIDE DEF new
  <1>3a. new # <<>>
    BY <1>2, <1>3
  <1>4. \A i \in DOMAIN new : i \in DOMAIN cells \/ i = Len(cells) + 1
    BY <1>2, <1>3
  <1>5. head = NULL <=> cells = <<>>
    <2>1. cells # <<>> => cells[1] \in Cells
      BY <1>2
    <2> QED
      BY <1>2, <2>1, QueueAssumption DEF IsList
  <1>6. CASE cells = <<>>
    <2>1. /\ tail' = c /\ head' = c /\ next' = [next EXCEPT ![c] = NULL]
      BY <1>1, <1>5, <1>6 DEF Link, queue_empty
    <2>2. Len(cells) = 0
      BY <1>6
    <2>3. next'[c] = NULL
      BY <1>1, <2>1 DEF QueueTypes
    <2>4. IsList(new)'
      BY <1>3, <1>3a, <2>1, <2>2, <2>3 DEF IsList
    <2>5. QueueTypes'
      BY <1>1, <2>1 DEF QueueTypes
    <2>6. \A d \in Cells : d \in allocated' <=> \E i \in DOMAIN new : new[i] = d
      BY <1>1, <1>2, <1>3, <2>2
    <2>7. Linked(new)'
      BY <1>3, <2>1, <2>2, <2>4, <2>6 DEF Linked
    <2> QED
      BY <1>1, <2>5, <2>7 DEF new
  <1>7. CASE cells # <<>>
    <2>1. /\ tail' = c /\ head' = head
          /\ next' = [next EXCEPT ![c] = NULL, ![tail] = c]
      BY <1>1, <1>5, <1>7 DEF Link, queue_empty
    <2>2. Len(cells) \in 1..Len(cells) /\ tail = cells[Len(cells)] /\ tail \in Cells /\ tail # c
      BY <1>2, <1>7
    <2>3. /\ next'[c] = NULL
          /\ next'[tail] = c
          /\ \A d \in Cells \ {c, tail} : next'[d] = next[d]
      BY <1>1, <2>1, <2>2 DEF QueueTypes
    <2>4. IsList(new)'
      <3>1. head' = new[1]
        BY <1>2, <1>3, <1>7, <2>1 DEF IsList
      <3> SUFFICES ASSUME NEW i \in DOMAIN new
                   PROVE  next'[new[i]] = IF i < Len(new) THEN new[i + 1] ELSE NULL
        BY <1>3, <1>3a, <3>1 DEF IsList
      <3>2. CASE i = Len(cells) + 1
        BY <1>3, <2>3, <3>2
      <3>3. CASE i = Len(cells)
        <4>1. new[i] = tail /\ new[i + 1] = c /\ i < Len(new)
          BY <1>2, <1>3, <2>2, <3>3
        <4> QED
          BY <2>3, <4>1
      <3>4. CASE i \in 1..(Len(cells) - 1)
        <4>1. i \in DOMAIN cells /\ i + 1 \in DOMAIN cells /\ i < Len(cells) /\ i < Len(new)
          BY <1>2, <1>3, <3>4
        <4>2. new[i] = cells[i] /\ new[i + 1] = cells[i + 1]
          BY <1>2, <1>3, <4>1
        <4>3. cells[i] # tail /\ cells[i] # c /\ cells[i] \in Cells
          BY <1>2, <2>2, <4>1
        <4>4. next[cells[i]] = cells[i + 1]
          BY <1>2, <4>1 DEF IsList
        <4> QED
          BY <2>3, <4>1, <4>2, <4>3, <4>4
      <3> QED
        BY <1>2, <1>3, <3>2, <3>3, <3>4
    <2>5. QueueTypes'
      <3>1. next' \in [Cells -> Cells \cup {NULL}]
        BY <1>1, <2>1, <2>2 DEF QueueTypes
      <3> QED
        BY <1>1, <2>1, <3>1 DEF QueueTypes
    <2>6. \A d \in Cells : d \in allocated' <=> \E i \in DOMAIN new : new[i] = d
      <3>1. \A d \in Cells : d \in allocated => \E i \in DOMAIN new : new[i] = d
        BY <1>2, <1>3
      <3>2. Len(cells) + 1 \in DOMAIN new
        BY <1>2, <1>3
      <3>3. \A i \in DOMAIN new : new[i] \in allocated'
        BY <1>1, <1>2, <1>3, <1>4
      <3> QED
        BY <1>1, <1>3, <3>1, <3>2, <3>3
    <2>7. \A i, j \in DOMAIN new : new[i] = new[j] => i = j
      BY <1>2, <1>3, <1>4
    <2>8. Linked(new)'
      BY <1>3, <2>1, <2>4, <2>6, <2>7 DEF Linked
    <2> QED
      BY <1>1, <2>5, <2>8 DEF new
  <1> QED
    BY <1>6, <1>7

\* The first cell leaves; tail may keep pointing to it.
LEMMA DeqStep ==
    ASSUME QueueTypes, NEW cells \in Seq(Cells), Linked(cells), queue_deq
    PROVE  /\ QueueTypes'
           /\ cells # <<>>
           /\ Linked(Tail(cells))'
           /\ cells[1] \in allocated
           /\ allocated' = allocated \ {cells[1]}
           /\ temp' = element[cells[1]]
           /\ UNCHANGED element
  <1>1. /\ head # NULL
        /\ temp' = element[head]
        /\ head' = next[head]
        /\ allocated' = allocated \ {head}
        /\ UNCHANGED <<element, next, tail>>
    BY DEF queue_deq, cdr_and_free, queue_empty, queue_front
  <1>2. /\ Len(cells) \in Nat /\ DOMAIN cells = 1..Len(cells)
        /\ \A i \in DOMAIN cells : cells[i] \in Cells /\ cells[i] \in allocated
        /\ IsList(cells)
        /\ \A i, j \in DOMAIN cells : cells[i] = cells[j] => i = j
        /\ \A d \in Cells : d \in allocated <=> \E i \in DOMAIN cells : cells[i] = d
        /\ cells # <<>> => tail = cells[Len(cells)]
    BY DEF Linked
  <1>3. cells # <<>> /\ head = cells[1]
    BY <1>1, <1>2 DEF IsList
  <1>4. Len(cells) \in Nat \ {0} /\ 1 \in DOMAIN cells
    BY <1>2, <1>3
  <1>5. QueueTypes'
    BY <1>1, <1>2, <1>3, <1>4 DEF QueueTypes
  <1> DEFINE rest == Tail(cells)
  <1>6. /\ rest \in Seq(Cells) /\ Len(rest) = Len(cells) - 1 /\ DOMAIN rest = 1..(Len(cells) - 1)
        /\ \A i \in DOMAIN rest : i + 1 \in DOMAIN cells /\ rest[i] = cells[i + 1]
    BY <1>2, <1>3, <1>4
  <1>7. rest = <<>> <=> Len(cells) = 1
    BY <1>4, <1>6
  <1> HIDE DEF rest
  <1>8. IsList(rest)'
    <2>1. head' = IF rest = <<>> THEN NULL ELSE rest[1]
      <3>1. next[cells[1]] = IF 1 < Len(cells) THEN cells[2] ELSE NULL
        BY <1>2, <1>4 DEF IsList
      <3>2. rest # <<>> => 1 < Len(cells) /\ rest[1] = cells[2]
        BY <1>4, <1>6, <1>7
      <3> QED
        BY <1>1, <1>3, <1>4, <1>7, <3>1, <3>2
    <2>2. ASSUME NEW i \in DOMAIN rest
          PROVE  next'[rest[i]] = IF i < Len(rest) THEN rest[i + 1] ELSE NULL
      <3>1. next[cells[i + 1]] = IF i + 1 < Len(cells) THEN cells[(i + 1) + 1] ELSE NULL
        BY <1>2, <1>6 DEF IsList
      <3>2. i + 1 < Len(cells) <=> i < Len(rest)
        BY <1>4, <1>6
      <3>3. i < Len(rest) => i + 1 \in DOMAIN rest /\ rest[i + 1] = cells[(i + 1) + 1]
        BY <1>4, <1>6
      <3> QED
        BY <1>1, <1>6, <3>1, <3>2, <3>3
    <2> QED
      BY <2>1, <2>2 DEF IsList
  <1>9. \A i, j \in DOMAIN rest : rest[i] = rest[j] => i = j
    <2> SUFFICES ASSUME NEW i \in DOMAIN rest, NEW j \in DOMAIN rest, rest[i] = rest[j] PROVE i = j
      OBVIOUS
    <2>1. i + 1 = j + 1
      BY <1>2, <1>6
    <2> QED
      BY <1>4, <1>6, <2>1
  <1>10. \A d \in Cells : d \in allocated' <=> \E i \in DOMAIN rest : rest[i] = d
    <2> SUFFICES ASSUME NEW d \in Cells
                 PROVE  d \in allocated' <=> \E i \in DOMAIN rest : rest[i] = d
      OBVIOUS
    <2>1. ASSUME d \in allocated' PROVE \E i \in DOMAIN rest : rest[i] = d
      <3>1. PICK i \in DOMAIN cells : cells[i] = d
        BY <1>1, <1>2, <2>1
      <3>2. i # 1
        BY <1>1, <1>3, <2>1, <3>1
      <3>3. i - 1 \in DOMAIN rest /\ (i - 1) + 1 = i
        BY <1>2, <1>4, <1>6, <3>2
      <3> QED
        BY <1>6, <3>1, <3>3
    <2>2. ASSUME NEW i \in DOMAIN rest, rest[i] = d PROVE d \in allocated'
      <3>1. i + 1 \in DOMAIN cells /\ cells[i + 1] = d /\ i + 1 # 1
        BY <1>4, <1>6, <2>2
      <3>2. d # cells[1]
        BY <1>2, <1>4, <3>1
      <3> QED
        BY <1>1, <1>2, <1>3, <3>1, <3>2
    <2> QED
      BY <2>1, <2>2
  <1>11. rest # <<>> => tail = rest[Len(rest)]
    <2> SUFFICES ASSUME rest # <<>> PROVE tail = rest[Len(rest)]
      OBVIOUS
    <2>1. Len(rest) \in DOMAIN rest /\ Len(rest) + 1 = Len(cells)
      BY <1>4, <1>6, <1>7
    <2> QED
      BY <1>2, <1>3, <1>6, <2>1
  <1>12. Linked(rest)'
    BY <1>1, <1>6, <1>8, <1>9, <1>10, <1>11 DEF Linked
  <1> QED
    BY <1>1, <1>2, <1>3, <1>4, <1>5, <1>12 DEF rest

LEMMA QueueRests ==
    ASSUME QueueTypes, NEW cells \in Seq(Cells), Linked(cells), UNCHANGED queueVars
    PROVE  QueueTypes' /\ Linked(cells)'
  <1>1. UNCHANGED <<element, next, allocated, head, tail>>
    BY DEF queueVars
  <1>2. QueueTypes'
    BY <1>1 DEF QueueTypes
  <1>3. IsList(cells)'
    BY <1>1 DEF IsList, Linked
  <1> QED
    BY <1>1, <1>2, <1>3 DEF Linked

(***************************************************************************)
(* The theorems of the queue                                               *)
(***************************************************************************)

\* Whichever cells malloc returns, the cells in use are linked in one list,
\* each of them once, and tail is its last one as long as there is one.
THEOREM ListInductive == QueueSpec => []QInv
  <1>1. QueueInit => QInv
    <2>1. <<>> \in Seq(Cells)
      OBVIOUS
    <2> QED
      BY <2>1, InitQInv DEF QInv
  <1>2. QInv /\ [QueueNext]_queueVars => QInv'
    <2> SUFFICES ASSUME QueueTypes, NEW cells \in Seq(Cells), Linked(cells), [QueueNext]_queueVars
                 PROVE  QInv'
      BY DEF QInv
    <2>1. ASSUME NEW e \in Elements, queue_enq(e) PROVE QInv'
      <3>1. PICK c \in Cells : Linked(Append(cells, c))' /\ QueueTypes'
        BY <2>1, EnqStep
      <3>2. Append(cells, c) \in Seq(Cells)
        OBVIOUS
      <3> QED
        BY <3>1, <3>2 DEF QInv
    <2>2. CASE queue_deq
      <3>1. QueueTypes' /\ Linked(Tail(cells))' /\ cells # <<>>
        BY <2>2, DeqStep
      <3>2. Tail(cells) \in Seq(Cells)
        BY <3>1
      <3> QED
        BY <3>1, <3>2 DEF QInv
    <2>3. CASE UNCHANGED queueVars
      BY <2>3, QueueRests DEF QInv
    <2> QED
      BY <2>1, <2>2, <2>3 DEF QueueNext
  <1> QED
    BY <1>1, <1>2, PTL DEF QueueSpec

\* Elements leave the list in the order in which they came, none is lost, and
\* no more cells are in use than there are elements in it, however often it
\* has become empty.
THEOREM QueueImplemented == QueueSpec => QueueIsFifo
  <1> DEFINE items == [k \in DOMAIN QueueCells |-> element[QueueCells[k]]]
             stored == Cardinality(allocated)
  <1>1. QueueInit => Abstract!Init
    <2> SUFFICES ASSUME QueueInit PROVE Abstract!Init
      OBVIOUS
    <2>1. QueueCells = <<>>
      <3>1. <<>> \in Seq(Cells)
        OBVIOUS
      <3> QED
        BY <3>1, InitQInv, OneQueueAlways DEF OneQueue
    <2>2. stored = 0
      BY FS_EmptySet DEF QueueInit
    <2>3. items = <<>>
      BY <2>1
    <2> QED
      BY <2>2, <2>3 DEF Abstract!Init, QueueInit
  <1>2. QInv /\ [QueueNext]_queueVars => [Abstract!Next]_(Abstract!fifoVars)
    <2> SUFFICES ASSUME QueueTypes, NEW cells \in Seq(Cells), Linked(cells), [QueueNext]_queueVars
                 PROVE  Abstract!Next \/ UNCHANGED (Abstract!fifoVars)
      BY DEF QInv
    <2>1. QueueCells = cells
      BY OneQueueAlways DEF OneQueue
    <2>2. IsFiniteSet(allocated)
      BY QueueAssumption, FS_Subset DEF QueueTypes
    <2>3. stored \in Nat
      BY <2>2, FS_CardinalityType
    <2>4. /\ Len(cells) \in Nat /\ DOMAIN cells = 1..Len(cells)
          /\ \A i \in DOMAIN cells : cells[i] \in Cells /\ cells[i] \in allocated
      BY DEF Linked
    <2>5. items = [k \in 1..Len(cells) |-> element[cells[k]]]
      BY <2>1, <2>4
    <2>6. ASSUME NEW e \in Elements, queue_enq(e) PROVE Abstract!Enq(e)
      <3>1. PICK c \in Cells \ allocated :
              /\ Linked(Append(cells, c))'
              /\ allocated' = allocated \cup {c}
              /\ element' = [element EXCEPT ![c] = e]
              /\ UNCHANGED temp
        BY <2>6, EnqStep
      <3> DEFINE new == Append(cells, c)
      <3>2. /\ new \in Seq(Cells) /\ DOMAIN new = 1..(Len(cells) + 1)
            /\ new[Len(cells) + 1] = c
            /\ \A i \in 1..Len(cells) : new[i] = cells[i]
        BY <2>4
      <3>3. QueueCells' = new
        BY <3>1, <3>2, OneQueueAlways DEF OneQueue
      <3> HIDE DEF new
      <3>4. items' = [k \in 1..(Len(cells) + 1) |-> element'[new[k]]]
        BY <3>2, <3>3
      <3>5. /\ element'[c] = e
            /\ \A i \in 1..Len(cells) : element'[cells[i]] = element[cells[i]]
        BY <2>4, <3>1 DEF QueueTypes
      <3>6. items' = Append(items, e)
        BY <2>4, <2>5, <3>2, <3>4, <3>5
      <3>7. stored' = stored + 1
        BY <2>2, <3>1, FS_AddElement
      <3> QED
        BY <3>1, <3>6, <3>7 DEF Abstract!Enq
    <2>7. CASE queue_deq
      <3>1. /\ cells # <<>>
            /\ Linked(Tail(cells))'
            /\ cells[1] \in allocated
            /\ allocated' = allocated \ {cells[1]}
            /\ temp' = element[cells[1]]
            /\ UNCHANGED element
        BY <2>7, DeqStep
      <3>2. /\ Len(cells) \in Nat \ {0}
            /\ Tail(cells) \in Seq(Cells) /\ DOMAIN Tail(cells) = 1..(Len(cells) - 1)
            /\ \A i \in 1..(Len(cells) - 1) : Tail(cells)[i] = cells[i + 1]
        BY <2>4, <3>1
      <3>3. QueueCells' = Tail(cells)
        BY <3>1, <3>2, OneQueueAlways DEF OneQueue
      <3>4. items' = [k \in 1..(Len(cells) - 1) |-> element[cells[k + 1]]]
        BY <3>1, <3>2, <3>3
      <3>5. items # <<>> /\ Head(items) = element[cells[1]]
        BY <2>5, <3>2
      <3>6. items' = Tail(items)
        BY <2>5, <3>2, <3>4
      <3>7. stored' = stored - 1
        BY <2>2, <3>1, FS_RemoveElement
      <3>8. Abstract!Deq
        BY <3>1, <3>5, <3>6, <3>7 DEF Abstract!Deq
      <3> QED
        BY <3>8 DEF Abstract!Next
    <2>8. CASE UNCHANGED queueVars
      <3>1. UNCHANGED <<element, allocated, temp>>
        BY <2>8 DEF queueVars
      <3>2. QueueCells' = cells
        BY <2>8, QueueRests, OneQueueAlways DEF OneQueue
      <3>3. UNCHANGED items /\ UNCHANGED stored
        BY <2>1, <3>1, <3>2
      <3> QED
        BY <3>1, <3>3 DEF Abstract!fifoVars
    <2> QED
      BY <2>6, <2>7, <2>8 DEF QueueNext, Abstract!Next
  <1> QED
    BY ListInductive, <1>1, <1>2, PTL DEF QueueSpec, QueueIsFifo, Abstract!Spec

(***************************************************************************)
(* The checksum: arithmetic modulo Word - 1                                *)
(***************************************************************************)

Congruent(a, b) == \E k \in Int : a - b = k * (Word - 1)

LEMMA WordSizes ==
    /\ Byte \in Nat /\ Word \in Nat /\ DWord \in Nat
    /\ Byte >= 2 /\ Word >= 2 * Byte /\ Word >= 4
    /\ DWord >= 4 * Word
    /\ DWord = Word * Word
  <1>1. Byte \in Nat /\ Byte >= 2
    BY ChecksumAssumption
  <1>2. \A b, c \in Nat : c >= 2 => b * c \in Nat /\ b * c >= 2 * b
    OBVIOUS
  <1>3. Word \in Nat /\ Word >= 2 * Byte
    BY <1>1, <1>2 DEF Word
  <1>4. Word >= 4
    BY <1>1, <1>3
  <1>5. \A w \in Nat : w >= 4 => w * w \in Nat /\ w * w >= 4 * w
    OBVIOUS
  <1> QED
    BY <1>1, <1>3, <1>4, <1>5 DEF DWord

\* Quotient and rest.
LEMMA QuotientAndRest ==
    ASSUME NEW n \in Int, NEW w \in Nat \ {0}
    PROVE  /\ n \div w \in Int /\ n % w \in 0..(w - 1)
           /\ n = (n \div w) * w + (n % w)
           /\ n \in Nat => n \div w \in Nat
  OBVIOUS

\* There is only one.
LEMMA QuotientUnique ==
    ASSUME NEW w \in Nat \ {0}, NEW q \in Int, NEW rest \in 0..(w - 1)
    PROVE  (q * w + rest) \div w = q /\ (q * w + rest) % w = rest
  <1> DEFINE n == q * w + rest
             p == n \div w
             s == n % w
  <1>1. n \in Int
    OBVIOUS
  <1>2. p \in Int /\ s \in 0..(w - 1) /\ n = p * w + s
    BY <1>1, QuotientAndRest
  <1>3. (p - q) * w = rest - s
    BY <1>2
  <1> HIDE DEF n, p, s
  <1>4. p - q < 1 /\ p - q > -1
    <2>1. \A d \in Int : d >= 1 => d * w >= w
      OBVIOUS
    <2>2. \A d \in Int : d <= -1 => d * w <= -w
      OBVIOUS
    <2>3. p - q \in Int
      BY <1>2
    <2> QED
      BY <1>2, <1>3, <2>1, <2>2, <2>3
  <1>5. p = q
    BY <1>2, <1>4
  <1>6. s = rest
    BY <1>2, <1>3, <1>5
  <1> QED
    BY <1>5, <1>6 DEF n, p, s

LEMMA CongruentSum ==
    ASSUME NEW a \in Int, NEW b \in Int, NEW c \in Int, NEW d \in Int,
           Congruent(a, b), Congruent(c, d)
    PROVE  Congruent(a + c, b + d)
  <1>1. PICK k \in Int : a - b = k * (Word - 1)
    BY DEF Congruent
  <1>2. PICK j \in Int : c - d = j * (Word - 1)
    BY DEF Congruent
  <1>3. Word - 1 \in Int
    BY WordSizes
  <1>4. (a + c) - (b + d) = (k + j) * (Word - 1)
    <2>1. \A x, y, z \in Int : (x + y) * z = x * z + y * z
      OBVIOUS
    <2>2. (k + j) * (Word - 1) = k * (Word - 1) + j * (Word - 1)
      BY <1>3, <2>1
    <2>3. (k + j) * (Word - 1) = (a - b) + (c - d)
      BY <1>1, <1>2, <2>2
    <2> QED
      BY <2>3
  <1>5. k + j \in Int
    OBVIOUS
  <1> QED
    BY <1>4, <1>5 DEF Congruent

LEMMA CongruentSymmetric ==
    ASSUME NEW a \in Int, NEW b \in Int, Congruent(a, b)
    PROVE  Congruent(b, a)
  <1>1. PICK k \in Int : a - b = k * (Word - 1)
    BY DEF Congruent
  <1>2. b - a = (-k) * (Word - 1) /\ -k \in Int
    BY <1>1, WordSizes
  <1> QED
    BY <1>2 DEF Congruent

LEMMA CongruentTransitive ==
    ASSUME NEW a \in Int, NEW b \in Int, NEW c \in Int, Congruent(a, b), Congruent(b, c)
    PROVE  Congruent(a, c)
  <1>1. PICK k \in Int : a - b = k * (Word - 1)
    BY DEF Congruent
  <1>2. PICK j \in Int : b - c = j * (Word - 1)
    BY DEF Congruent
  <1>3. a - c = (k + j) * (Word - 1) /\ k + j \in Int
    BY <1>1, <1>2, WordSizes
  <1> QED
    BY <1>3 DEF Congruent

\* Of the numbers from 1 to Word - 1 no two are congruent.
LEMMA CongruentUnique ==
    ASSUME NEW x \in 1..(Word - 1), NEW y \in 1..(Word - 1), Congruent(x, y)
    PROVE  x = y
  <1> DEFINE m == Word - 1
  <1>1. PICK k \in Int : x - y = k * m
    BY DEF Congruent
  <1>2. m \in Nat /\ m >= 3
    BY WordSizes
  <1>3. x - y < m /\ x - y > -m
    BY <1>2
  <1> HIDE DEF m
  <1>4. \A d \in Int : (d >= 1 => d * m >= m) /\ (d <= -1 => d * m <= -m)
    BY <1>2
  <1>5. k = 0
    BY <1>1, <1>2, <1>3, <1>4
  <1> QED
    BY <1>1, <1>2, <1>5 DEF m

\* Adding the carry changes nothing modulo Word - 1.
LEMMA CarryCongruent ==
    ASSUME NEW n \in Nat
    PROVE  /\ Carry(n) \in Nat
           /\ Congruent(n, Carry(n))
           /\ n > 0 => Carry(n) > 0
           /\ n < Word => Carry(n) = n
  <1> DEFINE q == n \div Word
             rest == n % Word
  <1>1. q \in Nat /\ rest \in 0..(Word - 1) /\ n = q * Word + rest
    <2>1. Word \in Nat \ {0} /\ n \in Int
      BY WordSizes
    <2> QED
      BY <2>1, QuotientAndRest
  <1>2. Carry(n) = q + rest
    BY DEF Carry
  <1>3. n < Word => q = 0 /\ rest = n
    <2> SUFFICES ASSUME n < Word PROVE q = 0 /\ rest = n
      OBVIOUS
    <2>1. n \in 0..(Word - 1) /\ 0 * Word + n = n /\ Word \in Nat \ {0} /\ 0 \in Int
      BY WordSizes
    <2> QED
      BY <2>1, QuotientUnique
  <1> HIDE DEF q, rest
  <1>4. n - (q + rest) = q * (Word - 1)
    BY <1>1, WordSizes
  <1>5. q + rest = 0 => n = 0
    BY <1>1, WordSizes
  <1> QED
    BY <1>1, <1>2, <1>3, <1>4, <1>5 DEF Congruent

\* Two rounds end the loop.
LEMMA FoldIsWord ==
    ASSUME NEW n \in Nat, n <= DWord + Word - 2
    PROVE  /\ Fold(n) \in 0..(Word - 1)
           /\ Congruent(n, Fold(n))
           /\ n > 0 => Fold(n) \in 1..(Word - 1)
  <1> DEFINE q == n \div Word
             rest == n % Word
             m == Carry(n)
  <1>1. q \in Nat /\ rest \in 0..(Word - 1) /\ n = q * Word + rest
    <2>1. Word \in Nat \ {0} /\ n \in Int
      BY WordSizes
    <2> QED
      BY <2>1, QuotientAndRest
  <1>2. m = q + rest
    BY DEF Carry
  <1>3. m \in Nat /\ Congruent(n, m) /\ (n > 0 => m > 0)
    BY CarryCongruent
  <1> HIDE DEF q, rest, m
  <1>4. m <= 2 * Word - 2
    <2>1. CASE q <= Word - 1
      BY <1>1, <1>2, <2>1, WordSizes
    <2>2. CASE q >= Word
      <3>1. q * Word = DWord + (q - Word) * Word
        BY <1>1, WordSizes
      <3>2. (q - Word) * Word >= 0 /\ (q - Word >= 1 => (q - Word) * Word >= Word)
        BY <1>1, <2>2, WordSizes
      <3>3. q = Word
        BY <1>1, <2>2, <3>1, <3>2, WordSizes
      <3>4. rest <= Word - 2
        BY <1>1, <3>3, WordSizes
      <3> QED
        BY <1>1, <1>2, <3>3, <3>4, WordSizes
    <2> QED
      BY <1>1, <2>1, <2>2, WordSizes
  <1>5. Carry(m) \in 0..(Word - 1)
    <2>1. CASE m < Word
      BY <1>3, <2>1, CarryCongruent, WordSizes
    <2>2. CASE m >= Word
      <3>1. m - Word \in 0..(Word - 1) /\ m = 1 * Word + (m - Word) /\ Word \in Nat \ {0} /\ 1 \in Int
        BY <1>3, <1>4, <2>2, WordSizes
      <3>2. (1 * Word + (m - Word)) \div Word = 1 /\ (1 * Word + (m - Word)) % Word = m - Word
        BY <3>1, QuotientUnique, Zenon
      <3>3. m \div Word = 1 /\ m % Word = m - Word
        BY <3>1, <3>2, Zenon
      <3> QED
        BY <1>3, <1>4, <2>2, <3>3, WordSizes DEF Carry
    <2> QED
      BY <1>3, <2>1, <2>2, WordSizes
  <1>6. Congruent(m, Carry(m)) /\ (m > 0 => Carry(m) > 0)
    BY <1>3, CarryCongruent
  <1>7. Fold(n) = Carry(m)
    BY DEF Fold, m
  <1>8. Congruent(n, Carry(m))
    BY <1>3, <1>5, <1>6, CongruentTransitive
  <1> QED
    BY <1>3, <1>5, <1>6, <1>7, <1>8

\* The carries of the 32-bit blocks are added first.
LEMMA FoldedIsWord ==
    ASSUME NEW acc \in Nat, acc > 0, acc <= 2 * DWord + Word
    PROVE  Folded(acc) \in 1..(Word - 1) /\ Congruent(acc, Folded(acc))
  <1> DEFINE q == acc \div DWord
             rest == acc % DWord
             n == q + rest
  <1>1. q \in Nat /\ rest \in 0..(DWord - 1) /\ acc = q * DWord + rest
    <2>1. DWord \in Nat \ {0} /\ acc \in Int
      BY WordSizes
    <2> QED
      BY <2>1, QuotientAndRest
  <1>2. Folded(acc) = Fold(n)
    BY DEF Folded
  <1> HIDE DEF q, rest
  <1>3. q \in {0, 1, 2}
    <2>1. q >= 3 => q * DWord >= 3 * DWord
      BY <1>1, WordSizes
    <2> QED
      BY <1>1, <2>1, WordSizes
  <1>4. n \in Nat /\ n > 0 /\ n <= DWord + Word - 2
    BY <1>1, <1>3, WordSizes
  <1>5. Congruent(acc, n)
    <2>1. acc - n = q * (DWord - 1)
      BY <1>1, WordSizes
    <2>2. DWord - 1 = (Word + 1) * (Word - 1)
      BY WordSizes
    <2>3. \A a, b, c \in Int : a * (b * c) = (a * b) * c
      OBVIOUS
    <2>4. acc - n = (q * (Word + 1)) * (Word - 1) /\ q * (Word + 1) \in Int
      BY <1>1, <2>1, <2>2, <2>3, WordSizes
    <2> QED
      BY <2>4 DEF Congruent
  <1> HIDE DEF n
  <1>6. Fold(n) \in 1..(Word - 1) /\ Congruent(n, Fold(n))
    BY <1>4, FoldIsWord
  <1>7. Fold(n) \in Int
    BY <1>6, WordSizes
  <1> QED
    BY <1>2, <1>4, <1>5, <1>6, <1>7, CongruentTransitive

(***************************************************************************)
(* Headers                                                                 *)
(***************************************************************************)

Headers == [1..4 -> 0..(Word - 1)]
Total(words) == words[1] + words[2] + words[3] + words[4]

\* Two blocks, of a high and a low word each.
Weight(w, h, g, x, y) == (w - 1) + (h * w + x) + (g * w + y)

Weighs(w, h, g, x, y) ==
    /\ Weight(w, h, g, x, y) \in Nat
    /\ Weight(w, h, g, x, y) > 0
    /\ Weight(w, h, g, x, y) <= 2 * (w * w) + w
    /\ \E k \in Int : Weight(w, h, g, x, y) - (h + g + x + y) = k * (w - 1)

\* A high word weighs w, which leaves 1 modulo w - 1.
LEMMA Weighed ==
    ASSUME NEW w \in Nat, w >= 4,
           NEW h \in 0..(w - 1), NEW g \in 0..(w - 1),
           NEW x \in 0..(w - 1), NEW y \in 0..(w - 1)
    PROVE  Weighs(w, h, g, x, y)
  <1> DEFINE n == Weight(w, h, g, x, y)
             hw == h * w
             gw == g * w
             ww == w * w
             hm == h * (w - 1)
             gm == g * (w - 1)
  <1>1. \A z \in 0..(w - 1) : /\ z * w \in Nat /\ z * w <= w * w - w
                              /\ z * (w - 1) \in Int /\ z * w = z * (w - 1) + z
    <2>1. \A z \in 0..(w - 1) : z * w \in Nat /\ z * w <= (w - 1) * w
      OBVIOUS
    <2>2. (w - 1) * w = w * w - w
      OBVIOUS
    <2>3. \A z \in 0..(w - 1) : z * (w - 1) \in Int /\ z * w = z * (w - 1) + z
      OBVIOUS
    <2> QED
      BY <2>1, <2>2, <2>3
  <1>2. /\ hw \in Nat /\ hw <= ww - w /\ hm \in Int /\ hw = hm + h
        /\ gw \in Nat /\ gw <= ww - w /\ gm \in Int /\ gw = gm + g
        /\ ww \in Nat
    BY <1>1
  <1>3. n = (w - 1) + (hw + x) + (gw + y)
    BY DEF Weight
  <1>4. (1 + h + g) * (w - 1) = (w - 1) + hm + gm
    OBVIOUS
  <1> DEFINE k == 1 + h + g
             km == k * (w - 1)
  <1>5. km = (w - 1) + hm + gm /\ k \in Int
    BY <1>4
  <1> HIDE DEF n, hw, gw, ww, hm, gm, k, km
  <1>6. n \in Nat /\ n > 0 /\ n <= 2 * ww + w
    BY <1>2, <1>3
  <1>7. n - (h + g + x + y) = km
    BY <1>2, <1>3, <1>5
  <1>8. \E i \in Int : n - (h + g + x + y) = i * (w - 1)
    BY <1>5, <1>7, Zenon DEF km
  <1> QED
    BY <1>6, <1>8 DEF n, ww, Weighs

\* Wherever the header lies, what is added up is congruent to the sum of its
\* words.
LEMMA AccumulatedIsTotal ==
    ASSUME NEW words \in Headers, NEW off \in {0, 2}
    PROVE  /\ Word - 1 + Accumulated(words, off) \in Nat
           /\ Word - 1 + Accumulated(words, off) > 0
           /\ Word - 1 + Accumulated(words, off) <= 2 * DWord + Word
           /\ Congruent(Word - 1 + Accumulated(words, off), Total(words))
  <1> DEFINE a == words[1]
             b == words[2]
             c == words[3]
             d == words[4]
             n == Word - 1 + Accumulated(words, off)
  <1>1. /\ a \in 0..(Word - 1) /\ b \in 0..(Word - 1)
        /\ c \in 0..(Word - 1) /\ d \in 0..(Word - 1)
        /\ Word \in Nat /\ Word >= 4 /\ DWord = Word * Word
    BY WordSizes DEF Headers
  <1>2. \A z \in 0..(Word - 1) : z * Word \in Int
    BY <1>1
  <1>3. Total(words) = a + b + c + d
    BY DEF Total
  <1> DEFINE Right(s) == /\ n \in Nat /\ n > 0 /\ n <= 2 * (Word * Word) + Word
                         /\ \E k \in Int : n - s = k * (Word - 1)
  <1>4. ASSUME off = 0 PROVE Right(Total(words))
    <2> DEFINE aw == a * Word
               cw == c * Word
    <2>1. n = Word - 1 + ((aw + b) + (cw + d))
      BY <1>4 DEF Accumulated
    <2>2. aw \in Int /\ cw \in Int
      BY <1>1, <1>2
    <2>3. n = (Word - 1) + (aw + b) + (cw + d)
      <3> HIDE DEF aw, cw, a, b, c, d, n
      <3> QED
        BY <1>1, <2>1, <2>2
    <2> HIDE DEF a, b, c, d, n
    <2>4. Right(a + c + b + d)
      <3>1. n = Weight(Word, a, c, b, d)
        BY <2>3 DEF Weight
      <3>2. Weighs(Word, a, c, b, d)
        BY <1>1, Weighed, Zenon
      <3> QED
        BY <3>1, <3>2, Zenon DEF Weighs
    <2>5. a + c + b + d = Total(words)
      BY <1>1, <1>3
    <2> QED
      BY <2>4, <2>5
  <1>5. ASSUME off = 2 PROVE Right(Total(words))
    <2> DEFINE bw == b * Word
               dw == d * Word
    <2>1. n = Word - 1 + (a + (bw + c) + dw)
      BY <1>5 DEF Accumulated
    <2>2. bw \in Int /\ dw \in Int
      BY <1>1, <1>2
    <2>3. n = (Word - 1) + (bw + c) + (dw + a)
      <3> HIDE DEF bw, dw, a, b, c, d, n
      <3> QED
        BY <1>1, <2>1, <2>2
    <2> HIDE DEF a, b, c, d, n
    <2>4. Right(b + d + c + a)
      <3>1. n = Weight(Word, b, d, c, a)
        BY <2>3 DEF Weight
      <3>2. Weighs(Word, b, d, c, a)
        BY <1>1, Weighed, Zenon
      <3> QED
        BY <3>1, <3>2, Zenon DEF Weighs
    <2>5. b + d + c + a = Total(words)
      BY <1>1, <1>3
    <2> QED
      BY <2>4, <2>5
  <1>6. Right(Total(words))
    BY <1>4, <1>5
  <1> QED
    BY <1>1, <1>6 DEF Congruent

\* What ip_checksum returns is the complement of the one word from 1 that is
\* congruent to the sum; 0 stands for a sum that is a multiple of Word - 1.
LEMMA ChecksumOfTotal ==
    ASSUME NEW words \in Headers, NEW off \in {0, 2}
    PROVE  /\ ip_checksum(words, off) \in 0..(Word - 2)
           /\ Congruent(Total(words), Word - 1 - ip_checksum(words, off))
           /\ ip_checksum(words, off) = 0 <=> Congruent(Total(words), 0)
  <1> DEFINE acc == Word - 1 + Accumulated(words, off)
             f == Folded(acc)
  <1>1. acc \in Nat /\ acc > 0 /\ acc <= 2 * DWord + Word /\ Congruent(acc, Total(words))
    BY AccumulatedIsTotal
  <1>2. ip_checksum(words, off) = Word - 1 - f
    BY DEF ip_checksum, Not
  <1> HIDE DEF acc
  <1>3. f \in 1..(Word - 1) /\ Congruent(acc, f)
    BY <1>1, FoldedIsWord
  <1> HIDE DEF f
  <1>4. f \in Int /\ acc \in Int /\ Total(words) \in Int /\ Word - 1 \in Int
    BY <1>1, <1>3, WordSizes DEF Headers, Total
  <1>5. Congruent(Total(words), acc)
    BY <1>1, <1>4, CongruentSymmetric
  <1>6. Congruent(Total(words), f)
    BY <1>3, <1>4, <1>5, CongruentTransitive
  <1>7. Word - 1 - (Word - 1 - f) = f
    BY <1>4
  <1>8. Congruent(Word - 1, 0)
    <2>1. (Word - 1) - 0 = 1 * (Word - 1)
      BY <1>4
    <2> QED
      BY <2>1 DEF Congruent
  <1>9. f = Word - 1 => Congruent(Total(words), 0)
    BY <1>6, <1>8, <1>4, CongruentTransitive
  <1>10. ASSUME Congruent(Total(words), 0) PROVE f = Word - 1
    <2>1. Congruent(f, Total(words)) /\ Congruent(0, Word - 1)
      BY <1>4, <1>6, <1>8, CongruentSymmetric
    <2>2. Congruent(f, 0)
      BY <1>4, <1>10, <2>1, CongruentTransitive
    <2>3. Congruent(f, Word - 1)
      BY <1>4, <2>1, <2>2, CongruentTransitive
    <2>4. Word - 1 \in 1..(Word - 1)
      BY WordSizes
    <2> QED
      BY <1>3, <2>3, <2>4, CongruentUnique
  <1>11. ip_checksum(words, off) \in 0..(Word - 2) /\ (ip_checksum(words, off) = 0 <=> f = Word - 1)
    BY <1>2, <1>3, WordSizes
  <1> QED
    BY <1>2, <1>6, <1>7, <1>9, <1>10, <1>11

\* A sender's header is right.
LEMMA SealedIsRight ==
    ASSUME NEW a \in Fields, NEW b \in Fields, NEW ttl \in 0..(Word - 1)
    PROVE  /\ Sealed(<<a, ttl, 0, b>>) \in Headers
           /\ Congruent(Total(Sealed(<<a, ttl, 0, b>>)), 0)
  <1> DEFINE words == <<a, ttl, 0, b>>
             c == ip_checksum(words, 0)
  <1>1. a \in 0..(Word - 1) /\ b \in 0..(Word - 1) /\ 0 \in 0..(Word - 1)
    BY ChecksumAssumption, WordSizes
  <1>2. words \in Headers
    BY <1>1 DEF Headers
  <1>3. c \in 0..(Word - 2) /\ Congruent(Total(words), Word - 1 - c)
    BY <1>2, ChecksumOfTotal
  <1>4. [words EXCEPT ![Check] = 0] = words
    BY DEF Check
  <1> HIDE DEF c
  <1>5. Sealed(words) = <<a, ttl, c, b>>
    BY <1>4 DEF Sealed, Check, c
  <1>6. Sealed(words) \in Headers
    BY <1>1, <1>3, <1>5, WordSizes DEF Headers
  <1>7. Total(words) = a + ttl + 0 + b /\ Total(Sealed(words)) = a + ttl + c + b
    BY <1>5 DEF Total
  <1>8. /\ Total(words) \in Int /\ Word - 1 - c \in Int /\ c \in Int
        /\ Total(Sealed(words)) = Total(words) + c
        /\ (Word - 1 - c) + c = Word - 1
    BY <1>1, <1>3, <1>7, WordSizes
  <1>9. Congruent(c, c) /\ Congruent(Word - 1, 0)
    <2>1. c - c = 0 * (Word - 1) /\ (Word - 1) - 0 = 1 * (Word - 1)
      BY <1>8, WordSizes
    <2> QED
      BY <2>1 DEF Congruent
  <1>10. Congruent(Total(words) + c, (Word - 1 - c) + c)
    BY <1>3, <1>8, <1>9, CongruentSum
  <1>11. Congruent(Total(Sealed(words)), Word - 1)
    BY <1>8, <1>10
  <1>12. Congruent(Total(Sealed(words)), 0)
    BY <1>8, <1>9, <1>11, WordSizes, CongruentTransitive
  <1> QED
    BY <1>6, <1>12

\* check_1624 takes back what ttl has lost, unless it borrows: then 2^32 is
\* in the difference, and the sum is wrong by a word.
LEMMA UpdateOfTtl ==
    ASSUME NEW c \in 0..(Word - 1), NEW t \in 0..(Word - 1), t >= 2 * Byte
    PROVE  IF Borrows(Not(c), t, t - Byte)
           THEN check_1624(c, t, t - Byte) = c + Byte - Word /\ c + Byte - Word >= 0
           ELSE check_1624(c, t, t - Byte) = c + Byte /\ c + Byte <= Word - 1
  <1> DEFINE x == Not(c) - t + (t - Byte)
             n == Changed(Not(c), t, t - Byte)
  <1>1. /\ x = Word - 1 - c - Byte
        /\ Borrows(Not(c), t, t - Byte) <=> x < 0
        /\ n = x % DWord
        /\ check_1624(c, t, t - Byte) = Word - 1 - Fold(n)
    BY WordSizes DEF Not, Borrows, Changed, check_1624
  <1>2. x \in Int /\ x >= -Byte /\ x < Word
    BY <1>1, WordSizes
  <1> HIDE DEF x, n
  <1>3. DWord \in Nat \ {0} /\ Word \in Nat \ {0}
    BY WordSizes
  <1>4. CASE x >= 0
    <2>1. x \in 0..(DWord - 1) /\ 0 * DWord + x = x /\ 0 \in Int
      BY <1>2, <1>4, WordSizes
    <2>2. (0 * DWord + x) % DWord = x
      BY <1>3, <2>1, QuotientUnique, Zenon
    <2>3. n = x /\ x \in Nat
      BY <1>1, <1>2, <1>4, <2>1, <2>2
    <2>4. Carry(x) = x
      BY <1>2, <2>3, CarryCongruent
    <2>5. Fold(n) = x
      BY <2>3, <2>4 DEF Fold
    <2> QED
      BY <1>1, <1>2, <1>4, <2>5, WordSizes
  <1>5. CASE x < 0
    <2>1. DWord + x \in 0..(DWord - 1) /\ (-1) * DWord + (DWord + x) = x /\ -1 \in Int
      BY <1>2, <1>5, WordSizes
    <2>2. ((-1) * DWord + (DWord + x)) % DWord = DWord + x
      BY <1>3, <2>1, QuotientUnique, Zenon
    <2>3. n = DWord + x
      BY <1>1, <2>1, <2>2
    <2>4. Word + x \in 0..(Word - 1) /\ Word - 1 \in Int
      BY <1>2, <1>5, WordSizes
    <2>5. (Word - 1) * Word + (Word + x) = DWord + x
      <3>1. \A w \in Int : (w - 1) * w = w * w - w
        OBVIOUS
      <3> QED
        BY <1>2, <3>1, WordSizes
    <2>6. ((Word - 1) * Word + (Word + x)) \div Word = Word - 1
          /\ ((Word - 1) * Word + (Word + x)) % Word = Word + x
      BY <1>3, <2>4, QuotientUnique, Zenon
    <2>7. Carry(n) = (Word - 1) + (Word + x)
      BY <2>3, <2>5, <2>6 DEF Carry
    <2>8. Word - 1 + x \in 0..(Word - 1) /\ 1 * Word + (Word - 1 + x) = Carry(n) /\ 1 \in Int
      BY <1>2, <1>5, <2>7, WordSizes
    <2>9. (1 * Word + (Word - 1 + x)) \div Word = 1
          /\ (1 * Word + (Word - 1 + x)) % Word = Word - 1 + x
      BY <1>3, <2>8, QuotientUnique, Zenon
    <2>10. Fold(n) = 1 + (Word - 1 + x)
      BY <2>8, <2>9 DEF Fold, Carry
    <2> QED
      BY <1>1, <1>2, <1>5, <2>10, WordSizes
  <1> QED
    BY <1>2, <1>4, <1>5

\* A right header is right after an update, if and only if it did not borrow.
LEMMA UpdateKeepsRight ==
    ASSUME NEW words \in Headers, words[Ttl] >= 2 * Byte, Congruent(Total(words), 0),
           NEW new,
           new = [words EXCEPT ![Ttl] = words[Ttl] - Byte,
                               ![Check] = check_1624(@, words[Ttl], words[Ttl] - Byte)]
    PROVE  /\ new \in Headers
           /\ Congruent(Total(new), 0) <=> ~Borrows(Not(words[Check]), words[Ttl], words[Ttl] - Byte)
  <1> DEFINE t == words[2]
             c == words[3]
             u == check_1624(c, t, t - Byte)
             borrows == Borrows(Not(c), t, t - Byte)
  <1>1. words[1] \in 0..(Word - 1) /\ t \in 0..(Word - 1) /\ c \in 0..(Word - 1) /\ words[4] \in 0..(Word - 1)
    BY DEF Headers
  <1>2. t >= 2 * Byte
    BY DEF Ttl
  <1>3. IF borrows THEN u = c + Byte - Word /\ c + Byte - Word >= 0 ELSE u = c + Byte /\ c + Byte <= Word - 1
    BY <1>1, <1>2, UpdateOfTtl
  <1>4. new = [words EXCEPT ![2] = t - Byte, ![3] = u]
    BY DEF Ttl, Check
  <1> HIDE DEF u, borrows
  <1>5. u \in 0..(Word - 1) /\ t - Byte \in 0..(Word - 1)
    BY <1>1, <1>2, <1>3, WordSizes
  <1>6. new[1] = words[1] /\ new[2] = t - Byte /\ new[3] = u /\ new[4] = words[4]
    BY <1>4 DEF Headers
  <1>7. new \in Headers
    BY <1>4, <1>5 DEF Headers
  <1>8. Total(words) = words[1] + t + c + words[4] /\ Total(new) = words[1] + (t - Byte) + u + words[4]
    BY <1>6 DEF Total
  <1> HIDE DEF t, c
  <1>9. Total(words) \in Int /\ Total(new) = IF borrows THEN Total(words) - Word ELSE Total(words)
    BY <1>1, <1>3, <1>5, <1>8, WordSizes
  <1>10. ASSUME borrows, Congruent(Total(new), 0) PROVE FALSE
    <2>1. Total(new) = Total(words) - Word /\ Total(new) \in Int
      BY <1>9, <1>10, WordSizes
    <2>2. PICK k \in Int : Total(new) - 0 = k * (Word - 1)
      BY <1>10 DEF Congruent
    <2>3. PICK j \in Int : Total(words) - 0 = j * (Word - 1)
      BY DEF Congruent
    <2>4. 1 - (Word - 1) = (j - k - 2) * (Word - 1)
      <3>1. \A x, y, z \in Int : (x - y - 2) * z = x * z - y * z - 2 * z
        OBVIOUS
      <3>2. Word - 1 \in Int
        BY WordSizes
      <3>3. (j - k - 2) * (Word - 1) = j * (Word - 1) - k * (Word - 1) - 2 * (Word - 1)
        BY <3>1, <3>2
      <3>4. (j - k - 2) * (Word - 1) = Total(words) - Total(new) - 2 * (Word - 1)
        BY <1>9, <2>1, <2>2, <2>3, <3>3
      <3> QED
        BY <1>9, <2>1, <3>4, WordSizes
    <2>5. Congruent(1, Word - 1)
      <3>1. j - k - 2 \in Int
        OBVIOUS
      <3> QED
        BY <2>4, <3>1 DEF Congruent
    <2>6. 1 \in 1..(Word - 1) /\ Word - 1 \in 1..(Word - 1) /\ 1 # Word - 1
      BY WordSizes
    <2> QED
      BY <2>5, <2>6, CongruentUnique
  <1>11. ~borrows => Congruent(Total(new), 0)
    BY <1>9
  <1>12. borrows <=> Borrows(Not(words[Check]), words[Ttl], words[Ttl] - Byte)
    BY DEF borrows, t, c, Ttl, Check
  <1> QED
    BY <1>7, <1>10, <1>11, <1>12

(***************************************************************************)
(* The theorems of the checksum                                            *)
(***************************************************************************)

ChecksumInv ==
    /\ borrowed \in BOOLEAN
    /\ fate = "none" => ~borrowed
    /\ fate = "dropped" => borrowed
    /\ fate # "none" => /\ header \in Headers
                        /\ offset \in {0, 2}
                        /\ Congruent(Total(header), 0) <=> ~borrowed

\* On any path, the words of a header add up to a multiple of Word - 1 as long
\* as no update has borrowed.
THEOREM ChecksumInductive == ChecksumSpec => []ChecksumInv
  <1>1. ChecksumInit => ChecksumInv
    BY DEF ChecksumInit, ChecksumInv
  <1>2. ChecksumInv /\ [ChecksumNext]_checksumVars => ChecksumInv'
    <2> SUFFICES ASSUME ChecksumInv, [ChecksumNext]_checksumVars PROVE ChecksumInv'
      OBVIOUS
    <2>1. CASE Emit
      <3>1. PICK a \in Fields, b \in Fields, ttl \in 0..(Word - 1) : header' = Sealed(<<a, ttl, 0, b>>)
        BY <2>1 DEF Emit
      <3>2. header' \in Headers /\ Congruent(Total(header'), 0)
        BY <3>1, SealedIsRight
      <3>3. ~borrowed /\ borrowed' = borrowed /\ offset' \in {0, 2} /\ fate' = "on its way"
        BY <2>1 DEF Emit, ChecksumInv
      <3> QED
        BY <3>2, <3>3 DEF ChecksumInv
    <2>2. CASE Expire \/ Drop
      <3>1. fate # "none" /\ fate' # "none" /\ UNCHANGED <<header, offset, borrowed>>
        BY <2>2 DEF Expire, Drop
      <3>2. header \in Headers /\ offset \in {0, 2} /\ (Congruent(Total(header), 0) <=> ~borrowed)
        BY <3>1 DEF ChecksumInv
      <3>3. ASSUME Drop PROVE borrowed
        BY <3>2, <3>3, ChecksumOfTotal DEF Drop
      <3>4. fate' = "dropped" => borrowed'
        BY <2>2, <3>1, <3>3 DEF Expire
      <3> QED
        BY <3>1, <3>4 DEF ChecksumInv
    <2>3. CASE Forward
      <3>1. /\ fate = "on its way" /\ fate' = fate
            /\ header[Ttl] >= 2 * Byte
            /\ ip_checksum(header, offset) = 0
            /\ header' = [header EXCEPT ![Ttl] = header[Ttl] - Byte,
                                        ![Check] = check_1624(@, header[Ttl], header[Ttl] - Byte)]
            /\ borrowed' = (borrowed \/ Borrows(Not(header[Check]), header[Ttl], header[Ttl] - Byte))
            /\ offset' \in {0, 2}
        BY <2>3 DEF Forward
      <3>2. header \in Headers /\ offset \in {0, 2} /\ (Congruent(Total(header), 0) <=> ~borrowed)
        BY <3>1 DEF ChecksumInv
      <3>3. Congruent(Total(header), 0)
        BY <3>1, <3>2, ChecksumOfTotal
      <3>4. /\ header' \in Headers
            /\ Congruent(Total(header'), 0)
                 <=> ~Borrows(Not(header[Check]), header[Ttl], header[Ttl] - Byte)
        BY <3>1, <3>2, <3>3, UpdateKeepsRight
      <3>5. Congruent(Total(header'), 0) <=> ~borrowed'
        BY <3>1, <3>2, <3>3, <3>4
      <3>6. borrowed' \in BOOLEAN
        BY <3>1
      <3> QED
        BY <3>1, <3>4, <3>5, <3>6 DEF ChecksumInv
    <2>4. CASE UNCHANGED checksumVars
      BY <2>4 DEF checksumVars, ChecksumInv
    <2> QED
      BY <2>1, <2>2, <2>3, <2>4 DEF ChecksumNext
  <1> QED
    BY <1>1, <1>2, PTL DEF ChecksumSpec

\* The sum does not depend on where the header lies, and a packet that nobody
\* has damaged verifies and is not dropped as long as no update has borrowed,
\* for words of any even number of bits and paths of any length.
THEOREM ChecksumAlwaysRight == ChecksumSpec => []ChecksumRight
  <1>1. ChecksumInv => ChecksumRight
    <2> SUFFICES ASSUME ChecksumInv, fate # "none"
                 PROVE  /\ ip_checksum(header, 0) = ip_checksum(header, 2)
                        /\ ~borrowed => ip_checksum(header, offset) = 0 /\ fate # "dropped"
      BY DEF ChecksumRight
    <2>1. header \in Headers /\ offset \in {0, 2} /\ (Congruent(Total(header), 0) <=> ~borrowed)
      BY DEF ChecksumInv
    <2> DEFINE f == Word - 1 - ip_checksum(header, 0)
               g == Word - 1 - ip_checksum(header, 2)
    <2>2. /\ ip_checksum(header, 0) \in 0..(Word - 2) /\ ip_checksum(header, 2) \in 0..(Word - 2)
          /\ Congruent(Total(header), f) /\ Congruent(Total(header), g)
      BY <2>1, ChecksumOfTotal
    <2>3. f \in 1..(Word - 1) /\ g \in 1..(Word - 1) /\ Total(header) \in Int
      BY <2>1, <2>2, WordSizes DEF Headers, Total
    <2> HIDE DEF f, g
    <2>4. f \in Int /\ g \in Int
      BY <2>3
    <2>5. Congruent(f, Total(header))
      BY <2>2, <2>3, <2>4, CongruentSymmetric
    <2>6. Congruent(f, g)
      BY <2>2, <2>3, <2>4, <2>5, CongruentTransitive
    <2>7. f = g
      BY <2>3, <2>6, CongruentUnique
    <2>8. ip_checksum(header, 0) = ip_checksum(header, 2)
      BY <2>2, <2>7, WordSizes DEF f, g
    <2>9. ~borrowed => ip_checksum(header, offset) = 0
      BY <2>1, ChecksumOfTotal
    <2> QED
      BY <2>8, <2>9 DEF ChecksumInv
  <1> QED
    BY <1>1, ChecksumInductive, PTL
=============================================================================
