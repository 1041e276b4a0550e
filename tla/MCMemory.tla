------------------------------ MODULE MCMemory ------------------------------
(* Memory with two threads and a memory map of a low region, a hole and a  *)
(* region with the kernel: five free frames and a partial one.             *)
EXTENDS Memory

CONSTANTS c1, c2

TwoCallers == {c1, c2}

Map == {[base |-> 0, length |-> 6, usable |-> TRUE],
        [base |-> 6, length |-> 6, usable |-> FALSE],
        [base |-> 12, length |-> 20, usable |-> TRUE]}

OneIndex == {1}
Nowhere == {}

(* A switch between the test of a frame and its mark: FramesUnique does    *)
(* not hold.                                                               *)
AfterTest == {"tested"}
=============================================================================
