------------------------------- MODULE MCHeap -------------------------------
(* Heap with two callers and blocks of three sizes in a heap for some five *)
(* blocks.                                                                 *)
EXTENDS Heap

CONSTANTS c1, c2

TwoCallers == {c1, c2}
Requests == {1, 3, 5}
Nowhere == {}
=============================================================================
