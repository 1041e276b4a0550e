----------------------------- MODULE BoundedFifo -----------------------------
(* What the keyboard buffer promises: the keys come out in the order they  *)
(* were pressed, and a key pressed while Capacity keys wait is dropped.    *)
EXTENDS Naturals, Sequences

CONSTANTS Char, Capacity

VARIABLE queue

Init == queue = <<>>

Put(c) == Len(queue) < Capacity /\ queue' = Append(queue, c)

Get == queue # <<>> /\ queue' = Tail(queue)

Next == Get \/ \E c \in Char : Put(c)

Spec == Init /\ [][Next]_queue
=============================================================================
