-------------------------------- MODULE Fifo --------------------------------
(* What the router expects of a queue: elements leave in the order in which *)
(* they came, and what has left takes no storage any more.                 *)
EXTENDS Sequences, Naturals

CONSTANTS Elements,
          NoElement

VARIABLES items,   \* the elements in the queue
          taken,   \* what the last queue_deq has returned, or none so far
          stored   \* the elements that storage is in use for

fifoVars == <<items, taken, stored>>

Init == items = <<>> /\ taken = NoElement /\ stored = 0

Enq(e) ==
    /\ items' = Append(items, e)
    /\ stored' = stored + 1
    /\ UNCHANGED taken

Deq ==
    /\ items # <<>>
    /\ taken' = Head(items)
    /\ items' = Tail(items)
    /\ stored' = stored - 1

Next == (\E e \in Elements : Enq(e)) \/ Deq

Spec == Init /\ [][Next]_fifoVars
=============================================================================
