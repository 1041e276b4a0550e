----------------------------- MODULE FifoQueues -----------------------------
(* What the ready and the terminated queue of the scheduler promise: two   *)
(* lists without repetition, disjoint, served in order.  ThreadQueues      *)
(* implements them with one next link in every thread.                     *)
EXTENDS Naturals, Sequences, SequencesExt

CONSTANT Thread

VARIABLES ready, terminated

Queued == ToSet(ready) \cup ToSet(terminated)

Init == ready \in Seq(Thread) /\ IsInjective(ready) /\ terminated = <<>>

Put(t) == t \notin Queued /\ ready' = Append(ready, t) /\ UNCHANGED terminated

Take == ready # <<>> /\ ready' = Tail(ready) /\ UNCHANGED terminated

Bury(t) == t \notin Queued /\ terminated' = Append(terminated, t) /\ UNCHANGED ready

(* A ready thread is terminated where it waits.                            *)
Kill(i) == /\ ready' = RemoveAt(ready, i)
           /\ terminated' = Append(terminated, ready[i])

Reap(i) == terminated' = RemoveAt(terminated, i) /\ UNCHANGED ready

Next == \/ Take
        \/ \E t \in Thread : Put(t) \/ Bury(t)
        \/ \E i \in DOMAIN ready : Kill(i)
        \/ \E i \in DOMAIN terminated : Reap(i)

Spec == Init /\ [][Next]_<<ready, terminated>>
=============================================================================
