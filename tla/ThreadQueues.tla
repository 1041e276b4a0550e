---------------------------- MODULE ThreadQueues ----------------------------
(***************************************************************************)
(* The links of the two thread queues (kernel/process/thread.c): heads,    *)
(* tails and the one next field of a thread_t, at the grain of the C       *)
(* statements that read and write them.  thread_enqueue and thread_dequeue *)
(* do not mask interrupts; some of their callers do.  A step is taken by   *)
(* the timer interrupt if it is in progress, otherwise by the thread that  *)
(* has the CPU.  Preempt says whether the interrupt may come inside an     *)
(* unmasked thread_enqueue ("enqueue") or thread_dequeue ("dequeue").      *)
(***************************************************************************)
EXTENDS Integers, Sequences, FiniteSets, SequencesExt

CONSTANTS Worker, Boot, Idle, None,
          Irq,        \* the context of the timer interrupt handler
          Doomed,     \* the threads of the process that process_exit is for
          Queue0,     \* the ready queue at the start, in order
          Preempt

Thread == Worker \cup {Boot, Idle}

ASSUME ThreadsAssumption ==
  /\ IsFiniteSet(Worker) /\ Doomed \subseteq Worker
  /\ Boot # Idle /\ {Boot, Idle} \cap Worker = {}
  /\ None \notin Thread /\ Irq \notin Thread
  /\ Queue0 \in Seq(Worker) /\ IsInjective(Queue0)

VARIABLES
  head, tail,    \* ready_queue_head, ready_queue_tail
  thead, ttail,  \* terminated_queue_head, terminated_queue_tail
  next,          \* thread->next
  state,         \* thread->state; "new" and "starting" until it is enqueued
  current,       \* current_thread
  ctx            \* ctx[c]: program counter and locals of a context

links == <<head, tail, thead, ttail, next>>
vars == <<links, state, current, ctx>>

Ctx(pc, masked, arg, ret) ==
  [pc |-> pc, masked |-> masked, arg |-> arg, ret |-> ret, prev |-> None, keep |-> None]

Running == IF ctx[Irq].pc # "off" THEN Irq ELSE current
Me == ctx[Running]
At(pc) == Me.pc = pc

(* The running context goes on at pc, some of its locals changed.          *)
Become(c) == ctx' = [ctx EXCEPT ![Running] = c]
Goto(pc) == Become([Me EXCEPT !.pc = pc])
ReturnFromCall == Goto(Me.ret)

AfterInit(i) == IF i = Len(Queue0) THEN None ELSE Queue0[i + 1]

Init ==
  /\ head = IF Queue0 = <<>> THEN None ELSE Head(Queue0)
  /\ tail = IF Queue0 = <<>> THEN None ELSE Last(Queue0)
  /\ thead = None /\ ttail = None
  /\ next = [t \in Thread |-> IF t \in ToSet(Queue0)
                                THEN AfterInit(CHOOSE i \in DOMAIN Queue0 : Queue0[i] = t)
                                ELSE None]
  /\ state = [t \in Thread |-> IF t = Boot THEN "running"
                               ELSE IF t \in ToSet(Queue0) THEN "ready" ELSE "new"]
  /\ current = Boot
  /\ ctx = [c \in Thread \cup {Irq} |->
              Ctx(IF c = Irq THEN "off" ELSE "run", c = Irq, None, "run")]

-----------------------------------------------------------------------------
(* thread_enqueue(arg).                                                    *)

Enqueue1 == /\ At("enqueue")
            /\ next' = [next EXCEPT ![Me.arg] = None]
            /\ state' = [state EXCEPT ![Me.arg] = "ready"]
            /\ Goto(IF tail = None THEN "first" ELSE "append")
            /\ UNCHANGED <<head, tail, thead, ttail, current>>

First == /\ At("first")
         /\ head' = Me.arg
         /\ Goto("settail")
         /\ UNCHANGED <<tail, thead, ttail, next, state, current>>

(* Mutant: the last thread is not linked to the new one.                   *)
AppendNoLink == /\ At("append")
                /\ Goto("settail")
                /\ UNCHANGED <<links, state, current>>

(* With tail 0 by now, the store goes to low memory and no thread sees it. *)
AppendLink == /\ At("append")
              /\ next' = IF tail = None THEN next ELSE [next EXCEPT ![tail] = Me.arg]
              /\ Goto("settail")
              /\ UNCHANGED <<head, tail, thead, ttail, state, current>>

SetTail == /\ At("settail")
           /\ tail' = Me.arg
           /\ ReturnFromCall
           /\ UNCHANGED <<head, thead, ttail, next, state, current>>

(* thread_dequeue, its result in arg.                                      *)
Dequeue1 == /\ At("dequeue")
            /\ Become([Me EXCEPT !.arg = head,
                                 !.pc = IF head = None THEN Me.ret ELSE "advance"])
            /\ UNCHANGED <<links, state, current>>

Advance == /\ At("advance")
           /\ head' = next[Me.arg]
           /\ Goto("emptied")
           /\ UNCHANGED <<tail, thead, ttail, next, state, current>>

Emptied == /\ At("emptied")
           /\ tail' = IF head = None THEN None ELSE tail
           /\ Goto("detach")
           /\ UNCHANGED <<head, thead, ttail, next, state, current>>

Detach == /\ At("detach")
          /\ next' = [next EXCEPT ![Me.arg] = None]
          /\ ReturnFromCall
          /\ UNCHANGED <<head, tail, thead, ttail, state, current>>

(* thread_enqueue_terminated(t), always masked, with the links nx so far.  *)
Bury(t, nx) ==
  /\ next' = IF ttail = None THEN [nx EXCEPT ![t] = None]
                             ELSE [nx EXCEPT ![t] = None, ![ttail] = t]
  /\ thead' = IF ttail = None THEN t ELSE thead
  /\ ttail' = t
  /\ state' = [state EXCEPT ![t] = "terminated"]

-----------------------------------------------------------------------------
(* The callers.                                                            *)

CanCall == At("run") /\ Running \in Thread \ {Idle}

Masked(pc, arg, ret) == Become(Ctx(pc, TRUE, arg, ret))

(* thread_enqueue of a new thread, once, by the thread that created it.    *)
StartThread(t) ==
  /\ CanCall /\ state[t] = "new" /\ t \in Worker
  /\ state' = [state EXCEPT ![t] = "starting"]
  /\ Become(Ctx("enqueue", FALSE, t, "run"))
  /\ UNCHANGED <<links, current>>

(* thread_yield: an unmasked dequeue, a masked enqueue, the switch.        *)
Yield ==
  /\ CanCall
  /\ Become(Ctx("dequeue", FALSE, None, "yield"))
  /\ UNCHANGED <<links, state, current>>

YieldEnqueue ==
  /\ At("yield")
  /\ IF Me.arg = None
       THEN Become(Ctx("run", FALSE, None, "run"))
       ELSE Become([Ctx("enqueue", TRUE, Running, "switch") EXCEPT !.keep = Me.arg])
  /\ UNCHANGED <<links, state, current>>

(* thread_block and thread_terminate: masked, then the switch to whatever  *)
(* was dequeued or to the idle thread.                                     *)
Block ==
  /\ CanCall
  /\ state' = [state EXCEPT ![current] = "blocked"]
  /\ Masked("dequeue", None, "switchaway")
  /\ UNCHANGED <<links, current>>

Terminate ==
  /\ CanCall /\ current # Boot
  /\ Bury(current, next)
  /\ Masked("dequeue", None, "switchaway")
  /\ UNCHANGED <<head, tail, current>>

SwitchTo(t) ==
  /\ current' = t
  /\ state' = [state EXCEPT ![t] = "running"]
  /\ Become(Ctx("run", FALSE, None, "run"))
  /\ UNCHANGED links

Switch == At("switch") /\ SwitchTo(Me.keep)
SwitchAway == At("switchaway") /\ SwitchTo(IF Me.arg = None THEN Idle ELSE Me.arg)

(* thread_unblock of a thread whose process runs.                          *)
Unblock(t) ==
  /\ CanCall /\ state[t] = "blocked"
  /\ Masked("enqueue", t, "unmask")
  /\ UNCHANGED <<links, state, current>>

Unmask == /\ At("unmask")
          /\ Become(Ctx("run", FALSE, None, "run"))
          /\ UNCHANGED <<links, state, current>>

(* thread_terminate_process_threads: arg is the loop's thread, prev its    *)
(* previous.                                                               *)
Sweep == /\ CanCall
         /\ Masked("sweep", head, "unmask")
         /\ UNCHANGED <<links, state, current>>

(* Mutant: a thread that is not the first is unlinked as if it were.       *)
SweepAsFirst ==
  /\ At("sweep") /\ Me.arg # None
  /\ LET t == Me.arg
         after == next[t] IN
       IF t \in Doomed /\ t # current
         THEN /\ head' = after
              /\ tail' = IF tail = t THEN Me.prev ELSE tail
              /\ Bury(t, next)
              /\ Become([Me EXCEPT !.arg = after])
         ELSE /\ Become([Me EXCEPT !.arg = after, !.prev = t])
              /\ UNCHANGED <<links, state>>
  /\ UNCHANGED current

SweepThread ==
  /\ At("sweep") /\ Me.arg # None
  /\ LET t == Me.arg
         after == next[t] IN
       IF t \in Doomed /\ t # current
         THEN /\ head' = IF Me.prev = None THEN after ELSE head
              /\ tail' = IF tail = t THEN Me.prev ELSE tail
              /\ Bury(t, IF Me.prev = None THEN next ELSE [next EXCEPT ![Me.prev] = after])
              /\ Become([Me EXCEPT !.arg = after])
         ELSE /\ Become([Me EXCEPT !.arg = after, !.prev = t])
              /\ UNCHANGED <<links, state>>
  /\ UNCHANGED current

SweepEnd == /\ At("sweep") /\ Me.arg = None
            /\ Goto("unmask")
            /\ UNCHANGED <<links, state, current>>

-----------------------------------------------------------------------------
(* scheduler_schedule and thread_reap_terminated, in the interrupt.        *)

Interruptible ==
  \/ ~ctx[current].masked /\ ctx[current].pc = "run"
  \/ /\ ~ctx[current].masked
     /\ \/ "enqueue" \in Preempt /\ ctx[current].pc \in {"enqueue", "first", "append", "settail"}
        \/ "dequeue" \in Preempt /\ ctx[current].pc \in {"dequeue", "advance", "emptied", "detach", "yield"}

Tick == /\ Running # Irq
        /\ Interruptible
        /\ ctx' = [ctx EXCEPT ![Irq] = Ctx("dequeue", TRUE, None, "chosen")]
        /\ UNCHANGED <<links, state, current>>

(* keep is the thread to run next; the interrupted one goes to the tail.   *)
Chosen ==
  /\ At("chosen")
  /\ LET t == IF Me.arg = None THEN Idle ELSE Me.arg IN
       IF current # Idle /\ state[current] \notin {"terminated", "blocked"}
         THEN Become([Ctx("enqueue", TRUE, current, "dispatch") EXCEPT !.keep = t])
         ELSE Become([Ctx("dispatch", TRUE, None, "dispatch") EXCEPT !.keep = t])
  /\ UNCHANGED <<links, state, current>>

Dispatch ==
  /\ At("dispatch")
  /\ current' = Me.keep
  /\ state' = [state EXCEPT ![Me.keep] = "running"]
  /\ Become([Ctx("reap", TRUE, thead, "off") EXCEPT !.keep = current])
  /\ UNCHANGED links

(* The reap loop frees every thread of the list but the interrupted one.   *)
ReapThread ==
  /\ At("reap") /\ Me.arg # None
  /\ LET t == Me.arg
         after == next[t] IN
       IF t # Me.keep
         THEN /\ thead' = IF Me.prev = None THEN after ELSE thead
              /\ ttail' = IF ttail = t THEN Me.prev ELSE ttail
              /\ next' = [x \in Thread |-> IF x = t THEN None
                                           ELSE IF x = Me.prev THEN after ELSE next[x]]
              /\ state' = [state EXCEPT ![t] = "freed"]
              /\ Become([Me EXCEPT !.arg = after])
         ELSE /\ Become([Me EXCEPT !.arg = after, !.prev = t])
              /\ UNCHANGED <<thead, ttail, next, state>>
  /\ UNCHANGED <<head, tail, current>>

ReapEnd == /\ At("reap") /\ Me.arg = None
           /\ Become(Ctx("off", TRUE, None, "off"))
           /\ UNCHANGED <<links, state, current>>

-----------------------------------------------------------------------------

Inside ==
  \/ Enqueue1 \/ First \/ AppendLink \/ SetTail
  \/ Dequeue1 \/ Advance \/ Emptied \/ Detach
  \/ YieldEnqueue \/ Switch \/ SwitchAway \/ Unmask
  \/ SweepThread \/ SweepEnd
  \/ Chosen \/ Dispatch \/ ReapThread \/ ReapEnd

Call ==
  \/ Yield \/ Block \/ Terminate \/ Sweep
  \/ \E t \in Thread : StartThread(t) \/ Unblock(t)

Next == Tick \/ Inside \/ Call

Spec == Init /\ [][Next]_vars

(* Code that has the CPU runs on; the latched timer interrupt comes again  *)
(* and again, but not at every pass through the same few statements.       *)
FairSpec ==
  /\ Spec
  /\ SF_vars(Tick)
  /\ \A t \in Thread : SF_vars(current = t /\ Inside)

-----------------------------------------------------------------------------

(* The threads from t on along next, cut off where a chain would be cyclic. *)
Chain(t) ==
  LET walk[i \in 0 .. Cardinality(Thread)] ==
        IF i = 0 THEN IF t = None THEN <<>> ELSE <<t>>
        ELSE LET w == walk[i - 1] IN
             IF Len(w) < i \/ next[Last(w)] = None THEN w ELSE Append(w, next[Last(w)])
  IN walk[Cardinality(Thread)]

ReadyChain == Chain(head)
TerminatedChain == Chain(thead)

Fifo == INSTANCE FifoQueues WITH ready <- ReadyChain, terminated <- TerminatedChain

(* The linked lists implement the two FIFO queues, statement by statement. *)
ImplementsFifo == Fifo!Spec

(* A thread that is ready and not running is run in the end, or killed:    *)
(* the list never drops it.                                                *)
ReadyRuns ==
  \A t \in Thread \ {Idle} : (state[t] = "ready") ~> (state[t] # "ready")
=============================================================================
