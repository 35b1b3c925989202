---------------------------- MODULE BoundedFifo ----------------------------
(***************************************************************************)
(* What simple_queue and ptr_queue promise the threads that share one: a   *)
(* first-in first-out queue that never holds more than MaxSize items,      *)
(* each of which one thread takes once.                                    *)
(***************************************************************************)
EXTENDS Naturals, Sequences

CONSTANTS Putter, Taker, Item, MaxSize
VARIABLES fifo,     \* what is in the queue
          val       \* what each thread offers or has taken

Room == MaxSize = 0 \/ Len(fifo) < MaxSize

FInit == fifo = <<>> /\ val \in [Putter \cup Taker -> Item]

Offer(t) == \E x \in Item : val' = [val EXCEPT ![t] = x] /\ UNCHANGED fifo
Put(t)  == Room /\ fifo' = Append(fifo, val[t]) /\ UNCHANGED val
Take(t) == /\ fifo # <<>>
           /\ val' = [val EXCEPT ![t] = Head(fifo)]
           /\ fifo' = Tail(fifo)

FNext == \/ \E t \in Putter : Offer(t) \/ Put(t)
         \/ \E t \in Taker : Take(t)
FSpec == FInit /\ [][FNext]_<<fifo, val>>
=============================================================================
