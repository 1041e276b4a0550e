--------------------------- MODULE MCThreadQueues ---------------------------
(* Three threads, two of them of the process that exits, two ready.        *)
EXTENDS ThreadQueues
CONSTANTS a, b, c
Three == {a, b, c}
TwoDoomed == {a, b}
QueueAB == <<a, b>>
NoPreempt == {}

(* With the interrupt inside thread_enqueue, ReadyRuns does not hold.      *)
InEnqueue == {"enqueue"}
=============================================================================
