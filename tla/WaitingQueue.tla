---------------------------- MODULE WaitingQueue ----------------------------
(***************************************************************************)
(* 01-Router/queue.c and list.c: a queue as a linked list of cells from    *)
(* the heap.  malloc may return a cell that was freed before, with what it *)
(* last held; tail is not reset when the queue becomes empty, and then     *)
(* points to a free cell, or to one that has another use.                  *)
(***************************************************************************)
EXTENDS Integers, Sequences, FiniteSets

CONSTANTS Cells,      \* addresses of cells; bound: elements in a queue
          Elements,   \* what is queued
          NULL,
          NoElement

ASSUME QueueAssumption ==
    /\ IsFiniteSet(Cells)
    /\ NULL \notin Cells
    /\ NoElement \notin Elements

VARIABLES
    element, next,  \* the fields of each cell
    allocated,      \* the cells in use
    head, tail,     \* struct queue
    temp            \* what the last queue_deq has returned

queueVars == <<element, next, allocated, head, tail, temp>>

\* queue_create.  The heap holds anything.
QueueInit ==
    /\ element = [c \in Cells |-> NoElement]
    /\ next = [c \in Cells |-> NULL]
    /\ allocated = {}
    /\ head = NULL
    /\ tail = NULL
    /\ temp = NoElement

queue_empty == head = NULL

\* What is at the front; it stays there.
queue_front == element[head]

\* cons(element, NULL) returns cell c.
cons(e, c) ==
    /\ c \in Cells \ allocated
    /\ allocated' = allocated \cup {c}
    /\ element' = [element EXCEPT ![c] = e]

\* Mutant: whether the queue is empty is read off tail.
LinkByTail(c) ==
    /\ tail' = c
    /\ IF tail = NULL
       THEN head' = c /\ next' = [next EXCEPT ![c] = NULL]
       ELSE next' = [next EXCEPT ![c] = NULL, ![tail] = c] /\ UNCHANGED head

\* Cell c becomes the last one.
Link(c) ==
    /\ tail' = c
    /\ IF queue_empty
       THEN head' = c /\ next' = [next EXCEPT ![c] = NULL]
       ELSE next' = [next EXCEPT ![c] = NULL, ![tail] = c] /\ UNCHANGED head

queue_enq(e) ==
    /\ \E c \in Cells : cons(e, c) /\ Link(c)
    /\ UNCHANGED temp

\* The cell after c becomes the first one; c is free, and keeps what is in it.
cdr_and_free(c) ==
    /\ head' = next[c]
    /\ allocated' = allocated \ {c}

queue_deq ==
    /\ ~queue_empty
    /\ temp' = queue_front
    /\ cdr_and_free(head)
    /\ UNCHANGED <<element, next, tail>>

QueueNext == (\E e \in Elements : queue_enq(e)) \/ queue_deq

QueueSpec == QueueInit /\ [][QueueNext]_queueVars

(***************************************************************************)
(* Properties                                                              *)
(***************************************************************************)

\* A list of cells from head to the NULL at its end.
IsList(cells) ==
    /\ head = IF cells = <<>> THEN NULL ELSE cells[1]
    /\ \A i \in DOMAIN cells :
          next[cells[i]] = IF i < Len(cells) THEN cells[i + 1] ELSE NULL

\* The cells of the queue; there is only one list from head to NULL.
CellSequences == UNION {[1..n -> Cells] : n \in 0..Cardinality(Cells)}
QueueCells == CHOOSE cells \in CellSequences : IsList(cells)

\* The list is a first-in-first-out queue that loses neither elements nor
\* cells, whichever cells malloc returns and whatever was left in them, and
\* however often it becomes empty.
Abstract == INSTANCE Fifo WITH
    items <- [k \in DOMAIN QueueCells |-> element[QueueCells[k]]],
    taken <- temp,
    stored <- Cardinality(allocated)
QueueIsFifo == Abstract!Spec
=============================================================================
