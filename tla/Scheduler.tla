------------------------------ MODULE Scheduler ------------------------------
(***************************************************************************)
(* Threads, processes and the round-robin scheduler of the kernel          *)
(* (kernel/process/thread.c, scheduler.c and process.c) on its one CPU.    *)
(*                                                                         *)
(* The timer interrupt runs scheduler_schedule with interrupts masked.  A  *)
(* thread calls the thread and process operations with interrupts enabled, *)
(* and each operation masks them, if at all, after its first lines.  The   *)
(* code between such a first line and the cli that follows it (or between  *)
(* the load and the store of a counter) is a WINDOW in which the timer may *)
(* take the CPU away: an operation with windows is split there into one    *)
(* action per side, and Preempt is the set of windows in which the timer   *)
(* does strike.  Code that is masked is never split by the timer.          *)
(*                                                                         *)
(* The queues are sequences here; ThreadQueues models their links.         *)
(***************************************************************************)
EXTENDS Naturals, Sequences, FiniteSets, SequencesExt

CONSTANTS
  Worker,     \* memory slots kmalloc can return for a thread_t
  Boot,       \* bootstrap_thread, which runs kernel_main
  Idle,       \* idle_thread_instance
  UserProc,   \* memory slots kmalloc can return for a process_t
  Kernel,     \* kernel_process
  None,       \* the null pointer
  Preempt     \* the windows in which the timer interrupt strikes

Window == {"yield", "create", "grow", "shrink", "unblock", "exit", "exited"}

ASSUME SlotsAreDistinct ==
  /\ IsFiniteSet(Worker)
  /\ Boot \notin Worker /\ Idle \notin Worker /\ Boot # Idle
  /\ Kernel \notin UserProc
  /\ None \notin Worker \cup {Boot, Idle} /\ None \notin UserProc \cup {Kernel}

ASSUME PreemptInWindows == Preempt \subseteq Window

Thread == Worker \cup {Boot, Idle}
Proc == UserProc \cup {Kernel}

VARIABLES
  current,                \* current_thread
  ready,                  \* ready_queue_head .. ready_queue_tail
  terminated,             \* terminated_queue_head .. terminated_queue_tail
  live,                   \* thread_t objects that are allocated
  fresh,                  \* created threads their creator has not enqueued
  state,                  \* thread->state
  process,                \* thread->process
  plive,                  \* process_t objects on the process list
  pstate,                 \* process->state
  thread_count,           \* process->thread_count
  current_process,        \* current_process
  current_address_space,  \* CR3, named by the process that owns the space
  call                    \* call[t]: where t is in the operation it called

threadVars == <<live, fresh, state, process>>
processVars == <<plive, pstate, thread_count>>
contextVars == <<current_process, current_address_space>>
vars == <<current, ready, terminated, threadVars, processVars, contextVars, call>>

NoCall == [at |-> "run", thread |-> None, process |-> None, count |-> 0]

CallAt(at, t, p, n) == [at |-> at, thread |-> t, process |-> p, count |-> n]

(* Control of the current thread moves to "at", with the locals t, p, n.   *)
Goto(at, t, p, n) == call' = [call EXCEPT ![current] = CallAt(at, t, p, n)]

Return == call' = [call EXCEPT ![current] = NoCall]

At(at) == call[current].at = at

(* The current thread, not the idle loop, runs code outside the kernel API. *)
CanCall == At("run") /\ current # Idle

-----------------------------------------------------------------------------

(* kernel_main after process_init and thread_init: the bootstrap thread    *)
(* runs, the idle thread exists in the kernel process, and no queue has it. *)
Init ==
  /\ current = Boot
  /\ ready = <<>>
  /\ terminated = <<>>
  /\ live = {Boot, Idle}
  /\ fresh = {}
  /\ state = [t \in Thread |-> IF t = Boot THEN "running" ELSE "ready"]
  /\ process = [t \in Thread |-> Kernel]
  /\ plive = {Kernel}
  /\ pstate = [p \in Proc |-> "running"]
  /\ thread_count = [p \in Proc |-> IF p = Kernel THEN 2 ELSE 0]
  /\ current_process = Kernel
  /\ current_address_space = Kernel
  /\ call = [t \in Thread |-> NoCall]

-----------------------------------------------------------------------------
(* Helpers shared by the operations that give the CPU away.                *)

(* thread_dequeue, with the idle thread standing in for an empty queue.    *)
NextThread == IF ready = <<>> THEN Idle ELSE Head(ready)
AfterDequeue == IF ready = <<>> THEN <<>> ELSE Tail(ready)

(* Mutant: CR3 is left alone on the way to a kernel thread, whose pages    *)
(* every address space maps.                                               *)
SwitchLazily(n) ==
  /\ current' = n
  /\ current_process' = process[n]
  /\ current_address_space' = IF process[n] = Kernel THEN current_address_space
                                                     ELSE process[n]

(* The CPU goes to n: its process becomes the current one and its address  *)
(* space is activated when it differs from the process of the old thread.  *)
SwitchTo(n) ==
  /\ current' = n
  /\ IF process[n] # process[current]
       THEN /\ current_process' = process[n]
            /\ current_address_space' = process[n]
       ELSE UNCHANGED contextVars

(* Mutant: only a thread that is marked ready is queued again.             *)
MayContinueReady(t) == state[t] = "ready"

MayContinue(t) == state[t] \notin {"terminated", "blocked"}

-----------------------------------------------------------------------------
(* The timer interrupt.                                                    *)

(* thread_reap_terminated: every terminated thread but the interrupted one. *)
Reaped == ToSet(terminated) \ {current}

Released(p) == Cardinality({t \in Reaped : process[t] = p})

(* Mutants: the count goes down when a thread terminates and again when it *)
(* is freed, with no guard; and it is left alone.                          *)
CountTwice == [p \in Proc |-> thread_count[p] - 2 * Released(p)]
CountNever == thread_count

CountAfterReap ==
  [p \in Proc |-> IF Released(p) < thread_count[p]
                    THEN thread_count[p] - Released(p) ELSE 0]

(* Mutant: a process is freed whatever its count.                          *)
ReapedEarly(c) == {p \in plive : p # Kernel /\ p # c /\ pstate[p] = "terminated"}

(* process_reap_terminated, after the switch to a thread of process c.     *)
ReapedProcs(c) ==
  {p \in plive : /\ p # Kernel /\ p # c
                 /\ pstate[p] = "terminated"
                 /\ CountAfterReap[p] = 0}

(* Mutant: the interrupted thread goes to the head of the queue.           *)
TickAtHead ==
  /\ call[current].at \in Preempt \cup {"run"}
  /\ ready' = IF current # Idle /\ MayContinue(current)
                THEN <<current>> \o AfterDequeue ELSE AfterDequeue
  /\ state' = [t \in Thread |->
                 IF t = NextThread THEN "running"
                 ELSE IF t = current /\ current # Idle /\ MayContinue(current)
                   THEN "ready" ELSE state[t]]
  /\ SwitchTo(NextThread)
  /\ terminated' = IF current \in ToSet(terminated) THEN <<current>> ELSE <<>>
  /\ live' = live \ Reaped
  /\ thread_count' = CountAfterReap
  /\ plive' = plive \ ReapedProcs(current_process')
  /\ UNCHANGED <<fresh, process, pstate, call>>

(* timer_handler -> scheduler_schedule, with interrupts masked throughout. *)
Tick ==
  /\ call[current].at \in Preempt \cup {"run"}
  /\ ready' = IF current # Idle /\ MayContinue(current)
                THEN Append(AfterDequeue, current) ELSE AfterDequeue
  /\ state' = [t \in Thread |->
                 IF t = NextThread THEN "running"
                 ELSE IF t = current /\ current # Idle /\ MayContinue(current)
                   THEN "ready" ELSE state[t]]
  /\ SwitchTo(NextThread)
  /\ terminated' = IF current \in ToSet(terminated) THEN <<current>> ELSE <<>>
  /\ live' = live \ Reaped
  /\ thread_count' = CountAfterReap
  /\ plive' = plive \ ReapedProcs(current_process')
  /\ UNCHANGED <<fresh, process, pstate, call>>

-----------------------------------------------------------------------------
(* thread_create_in_process, thread_enqueue and thread_destroy.            *)

(* The state check; a process that is not running gets no thread.          *)
CreateCheck(p) ==
  /\ CanCall
  /\ p \in plive
  /\ pstate[p] = "running"
  /\ Goto("create", None, p, 0)
  /\ UNCHANGED <<current, ready, terminated, threadVars, processVars, contextVars>>

(* One of the two kmalloc calls fails and the function returns null.       *)
CreateFail ==
  /\ At("create")
  /\ Return
  /\ UNCHANGED <<current, ready, terminated, threadVars, processVars, contextVars>>

(* Both blocks are allocated; process->thread_count++ loads the counter.   *)
CreateLoad ==
  /\ At("create")
  /\ Worker \ live # {}
  /\ Goto("grow", None, call[current].process, thread_count[call[current].process])
  /\ UNCHANGED <<current, ready, terminated, threadVars, processVars, contextVars>>

(* The counter is stored and the thread object is complete.                *)
CreateStore(t) ==
  /\ At("grow")
  /\ t \in Worker \ live
  /\ LET p == call[current].process IN
       /\ thread_count' = [thread_count EXCEPT ![p] = call[current].count + 1]
       /\ process' = [process EXCEPT ![t] = p]
  /\ state' = [state EXCEPT ![t] = "ready"]
  /\ live' = live \cup {t}
  /\ fresh' = fresh \cup {t}
  /\ call' = [call EXCEPT ![current] = NoCall, ![t] = NoCall]
  /\ UNCHANGED <<current, ready, terminated, plive, pstate, contextVars>>

(* thread_enqueue, called once by whoever created the thread.              *)
Enqueue(t) ==
  /\ CanCall
  /\ t \in fresh
  /\ ready' = Append(ready, t)
  /\ state' = [state EXCEPT ![t] = "ready"]
  /\ fresh' = fresh \ {t}
  /\ UNCHANGED <<current, terminated, live, process, processVars, contextVars, call>>

(* thread_destroy of a thread that was never enqueued: the stack is freed  *)
(* and process->thread_count-- loads the counter.                          *)
DestroyLoad(t) ==
  /\ CanCall
  /\ t \in fresh
  /\ fresh' = fresh \ {t}
  /\ Goto("shrink", t, process[t], thread_count[process[t]])
  /\ UNCHANGED <<current, ready, terminated, live, state, process, processVars,
                 contextVars>>

(* The counter is stored, unless it was 0, and the thread is freed.        *)
DestroyStore ==
  /\ At("shrink")
  /\ LET c == call[current] IN
       /\ thread_count' = IF c.count > 0
                            THEN [thread_count EXCEPT ![c.process] = c.count - 1]
                            ELSE thread_count
       /\ live' = live \ {c.thread}
  /\ Return
  /\ UNCHANGED <<current, ready, terminated, fresh, state, process, plive, pstate, contextVars>>

-----------------------------------------------------------------------------
(* thread_yield, thread_block, thread_unblock and thread_terminate.        *)

(* Mutant: the thread that was queued last is taken.                       *)
YieldToLast ==
  /\ CanCall
  /\ ready # <<>>
  /\ ready' = Front(ready)
  /\ Goto("yield", Last(ready), None, 0)
  /\ UNCHANGED <<current, terminated, threadVars, processVars, contextVars>>

(* thread_yield takes the next thread off the queue before it masks.       *)
YieldDequeue ==
  /\ CanCall
  /\ ready # <<>>
  /\ ready' = Tail(ready)
  /\ Goto("yield", Head(ready), None, 0)
  /\ UNCHANGED <<current, terminated, threadVars, processVars, contextVars>>

(* ... then, masked, it puts itself at the tail and switches.              *)
YieldSwitch ==
  /\ At("yield")
  /\ LET next == call[current].thread IN
       /\ ready' = IF MayContinue(current) THEN Append(ready, current) ELSE ready
       /\ state' = [t \in Thread |->
                      IF t = next THEN "running"
                      ELSE IF t = current /\ MayContinue(current) THEN "ready"
                      ELSE state[t]]
       /\ SwitchTo(next)
  /\ Return
  /\ UNCHANGED <<terminated, live, fresh, process, processVars>>

(* thread_block, masked from before it changes anything.                   *)
Block ==
  /\ CanCall
  /\ ready' = AfterDequeue
  /\ state' = [state EXCEPT ![current] = "blocked", ![NextThread] = "running"]
  /\ SwitchTo(NextThread)
  /\ UNCHANGED <<terminated, live, fresh, process, processVars, call>>

(* Nobody else is already waking t: thread_unblock has one caller a thread. *)
Unclaimed(t) ==
  \A u \in live : ~ /\ state[u] # "terminated"
                    /\ call[u].at = "unblock" /\ call[u].thread = t

(* Mutant: any thread is woken, blocked or not.                            *)
UnblockAny(t) ==
  /\ CanCall
  /\ t \in live
  /\ Unclaimed(t)
  /\ Goto("unblock", t, None, 0)
  /\ UNCHANGED <<current, ready, terminated, threadVars, processVars, contextVars>>

(* thread_unblock sees a blocked thread, with interrupts still enabled.    *)
UnblockCheck(t) ==
  /\ CanCall
  /\ t \in live
  /\ state[t] = "blocked"
  /\ Unclaimed(t)
  /\ Goto("unblock", t, None, 0)
  /\ UNCHANGED <<current, ready, terminated, threadVars, processVars, contextVars>>

(* ... then, masked, it queues the thread: to run, or to be reaped when    *)
(* its process has exited.                                                 *)
UnblockWake ==
  /\ At("unblock")
  /\ LET t == call[current].thread IN
       IF pstate[process[t]] = "terminated"
         THEN /\ terminated' = Append(terminated, t)
              /\ state' = [state EXCEPT ![t] = "terminated"]
              /\ UNCHANGED ready
         ELSE /\ ready' = Append(ready, t)
              /\ state' = [state EXCEPT ![t] = "ready"]
              /\ UNCHANGED terminated
  /\ Return
  /\ UNCHANGED <<current, live, fresh, process, processVars, contextVars>>

(* Mutant: the thread to run next is read from the queue but not taken off *)
(* it.                                                                     *)
TerminatePeeking ==
  /\ current \notin {Boot, Idle}
  /\ terminated' = Append(terminated, current)
  /\ state' = [state EXCEPT ![current] = "terminated", ![NextThread] = "running"]
  /\ SwitchTo(NextThread)
  /\ UNCHANGED ready

(* The masked part of thread_terminate, on the current thread.             *)
TerminateCurrent ==
  /\ current \notin {Boot, Idle}
  /\ terminated' = Append(terminated, current)
  /\ ready' = AfterDequeue
  /\ state' = [state EXCEPT ![current] = "terminated", ![NextThread] = "running"]
  /\ SwitchTo(NextThread)

(* thread_terminate, called or reached as the thread's last act.           *)
Terminate ==
  /\ CanCall
  /\ TerminateCurrent
  /\ UNCHANGED <<live, fresh, process, processVars, call>>

-----------------------------------------------------------------------------
(* process_create, process_destroy and process_exit.                       *)

ProcessCreate(p) ==
  /\ CanCall
  /\ p \in UserProc \ plive
  /\ plive' = plive \cup {p}
  /\ pstate' = [pstate EXCEPT ![p] = "running"]
  /\ thread_count' = [thread_count EXCEPT ![p] = 0]
  /\ UNCHANGED <<current, ready, terminated, threadVars, contextVars, call>>

(* process_destroy by its owner, of a process that never exited.           *)
ProcessDestroy(p) ==
  /\ CanCall
  /\ p \in plive \ {Kernel}
  /\ pstate[p] = "running"
  /\ thread_count[p] = 0
  /\ plive' = plive \ {p}
  /\ current_process' = IF p = current_process THEN None ELSE current_process
  /\ UNCHANGED <<current, ready, terminated, threadVars, pstate, thread_count,
                 current_address_space, call>>

(* process_exit marks the process, with interrupts still enabled ...       *)
ExitMark(p) ==
  /\ CanCall
  /\ p \in plive \ {Kernel}
  /\ pstate' = [pstate EXCEPT ![p] = "terminated"]
  /\ Goto("exit", None, p, 0)
  /\ UNCHANGED <<current, ready, terminated, threadVars, plive, thread_count, contextVars>>

(* ... masks them: thread_terminate_process_threads begins ...             *)
SweepBegin ==
  /\ At("exit")
  /\ Goto("sweep", None, call[current].process, 0)
  /\ UNCHANGED <<current, ready, terminated, threadVars, processVars, contextVars>>

(* Mutants: the sweep starts behind the head of the queue; it takes the    *)
(* threads of every process.                                               *)
DoomedBehindHead == {i \in DOMAIN ready : /\ process[ready[i]] = call[current].process
                                          /\ ready[i] # current /\ i > 1}
DoomedAll == {i \in DOMAIN ready : ready[i] # current}

(* The queue positions the sweep has still to unlink, first one first.     *)
Doomed == {i \in DOMAIN ready : process[ready[i]] = call[current].process
                                /\ ready[i] # current}

FirstDoomed(i) == i \in Doomed /\ \A j \in Doomed : i <= j

(* ... unlinks a queued thread of the process into the terminated queue ... *)
SweepUnlink(i) ==
  /\ At("sweep")
  /\ FirstDoomed(i)
  /\ ready' = RemoveAt(ready, i)
  /\ terminated' = Append(terminated, ready[i])
  /\ state' = [state EXCEPT ![ready[i]] = "terminated"]
  /\ UNCHANGED <<current, live, fresh, process, processVars, contextVars, call>>

(* ... and, the whole queue walked, unmasks.                               *)
SweepEnd ==
  /\ At("sweep")
  /\ Doomed = {}
  /\ Goto("exited", None, call[current].process, 0)
  /\ UNCHANGED <<current, ready, terminated, threadVars, processVars, contextVars>>

ExitsOwn == process[current] = call[current].process /\ state[current] # "terminated"

(* A thread that exits its own process terminates itself last.             *)
ExitSelf ==
  /\ At("exited")
  /\ ExitsOwn
  /\ TerminateCurrent
  /\ Return
  /\ UNCHANGED <<live, fresh, process, processVars>>

ExitReturn ==
  /\ At("exited")
  /\ ~ ExitsOwn
  /\ Return
  /\ UNCHANGED <<current, ready, terminated, threadVars, processVars, contextVars>>

-----------------------------------------------------------------------------

(* The current thread runs on through the operation it is in.              *)
Continue ==
  \/ CreateFail \/ CreateLoad
  \/ \E t \in Worker : CreateStore(t)
  \/ DestroyStore
  \/ YieldSwitch
  \/ UnblockWake
  \/ SweepBegin
  \/ \E i \in DOMAIN ready : SweepUnlink(i)
  \/ SweepEnd
  \/ ExitSelf \/ ExitReturn

(* The current thread calls an operation.                                  *)
Call ==
  \/ YieldDequeue \/ Block \/ Terminate
  \/ \E t \in Thread : Enqueue(t) \/ DestroyLoad(t) \/ UnblockCheck(t)
  \/ \E p \in Proc : CreateCheck(p) \/ ProcessCreate(p) \/ ProcessDestroy(p) \/ ExitMark(p)

Next == Tick \/ Continue \/ Call

Spec == Init /\ [][Next]_vars

(* The PIC latches a timer interrupt that comes while interrupts are       *)
(* masked, and one comes every 10 ms: the timer strikes again and again.   *)
(* In 10 ms a thread that is given the CPU gets through the few            *)
(* instructions of any window, so a window cannot be hit for ever.         *)
Fairness ==
  /\ SF_vars(Tick)
  /\ \A t \in Thread : SF_vars(current = t /\ Continue)

FairSpec == Spec /\ Fairness

-----------------------------------------------------------------------------
(* Properties.                                                             *)

(* A call record holds the locals its window needs.  (TLC only tests whether *)
(* a record is in the set, which it need not enumerate.)                   *)
Calls == {c \in [at : Window \cup {"run", "sweep"}, thread : Thread \cup {None},
                 process : Proc \cup {None}, count : Nat] :
            /\ c.at \in {"yield", "unblock", "shrink"} => c.thread \in Thread
            /\ c.at \in {"create", "grow", "shrink", "exit", "sweep", "exited"}
                 => c.process \in Proc}

(* The queues hold threads, a thread is in one of the code's four states,  *)
(* and the locals of an operation are what its window needs.               *)
TypeOK ==
  /\ current \in Thread
  /\ ready \in Seq(Thread)
  /\ terminated \in Seq(Thread)
  /\ live \in SUBSET Thread
  /\ fresh \in SUBSET Worker
  /\ state \in [Thread -> {"ready", "running", "blocked", "terminated"}]
  /\ process \in [Thread -> Proc]
  /\ plive \in SUBSET Proc
  /\ pstate \in [Proc -> {"running", "terminated"}]
  /\ thread_count \in [Proc -> Nat]
  /\ current_process \in Proc \cup {None}
  /\ current_address_space \in Proc
  /\ call \in [Thread -> Calls]

(* Threads that the current operations of running threads hold in a local  *)
(* variable only: taken off the queue to be run, or about to be freed.     *)
Held == {call[u].thread : u \in {v \in live : /\ state[v] # "terminated"
                                              /\ call[v].at \in {"yield", "shrink"}}}

(* Every thread the queues, the current pointer or an operation can reach  *)
(* is an allocated one: a freed thread_t is never scheduled, reaped twice  *)
(* or written to (thread_reap_terminated frees while others still queue).  *)
NoDanglingThread ==
  /\ current \in live
  /\ ToSet(ready) \cup ToSet(terminated) \cup fresh \cup Held \subseteq live
  /\ \A u \in live : (state[u] # "terminated" /\ call[u].at = "unblock")
                         => call[u].thread \in live

(* The process of every allocated thread is allocated, and so is the one   *)
(* thread_create_in_process works on: process_reap_terminated never frees  *)
(* a process somebody still needs.                                         *)
NoDanglingProcess ==
  /\ \A t \in live : process[t] \in plive
  /\ \A u \in live : (state[u] # "terminated" /\ call[u].at \in {"create", "grow"})
                         => call[u].process \in plive

(* A thread is on at most one queue, once: the single next link of         *)
(* thread_t could not represent anything else.                             *)
QueuedOnce ==
  /\ IsInjective(ready)
  /\ IsInjective(terminated)
  /\ ToSet(ready) \cap ToSet(terminated) = {}
  /\ ToSet(ready) \cap (fresh \cup Held \cup {current, Idle}) = {}
  /\ ToSet(terminated) \cap (fresh \cup Held \cup {current, Boot, Idle}) = {}

(* thread->state tells where the thread is, and every allocated thread is  *)
(* somewhere it can be found again: it runs, is queued, is blocked, waits  *)
(* to be reaped, or is still its creator's.  None is lost.                 *)
NoThreadLost ==
  /\ state[current] = "running"
  /\ \A t \in live \ {current, Idle} :
       /\ state[t] = "ready" <=> t \in ToSet(ready) \cup fresh \cup Held
       /\ state[t] = "terminated" <=> t \in ToSet(terminated)
       /\ state[t] # "running"

(* process->thread_count is the number of threads of the process that have *)
(* not been freed, which is what process_destroy relies on.                *)
CountMatches ==
  \A p \in plive : thread_count[p] = Cardinality({t \in live : process[t] = p})

(* The running thread runs in the address space of its own process, and    *)
(* process_current() is that process.                                      *)
AddressSpaceFollows ==
  /\ current_process = process[current]
  /\ current_address_space = process[current]

(* Round robin: a thread that was queued after t is not taken off the      *)
(* ready queue while t stays on it, unless it was terminated.              *)
NoOvertaking ==
  [][\A i, j \in DOMAIN ready :
       (i < j /\ ready[i] \in ToSet(ready') /\ ready[j] \notin ToSet(ready'))
         => state'[ready[j]] = "terminated"]_vars

(* A terminated thread never runs again: it stays terminated until freed.  *)
DeadStayDead ==
  [][\A t \in live : state[t] = "terminated"
        => t \notin live' \/ state'[t] = "terminated"]_vars

(* process_exit terminates threads of the process it was called for only:  *)
(* a queued thread is never moved to the terminated queue while its own    *)
(* process is running.                                                     *)
ExitHitsOnlyExited ==
  [][\A t \in ToSet(ready) : t \in ToSet(terminated')
        => pstate[process[t]] = "terminated"]_vars

(* A queued thread gets the CPU, unless it is terminated first.            *)
EnqueuedRuns ==
  \A t \in Thread : (t \in ToSet(ready)) ~> (current = t \/ state[t] = "terminated")

(* A process that process_exit sweeps while none of its threads is blocked *)
(* or still to be enqueued is reaped: all its threads go, then the process. *)
SweptProcessReaped ==
  \A p \in UserProc :
    (/\ At("sweep") /\ call[current].process = p /\ p \in plive
     /\ \A t \in live : process[t] = p => t \notin fresh /\ state[t] # "blocked")
      ~> (p \notin plive)

-----------------------------------------------------------------------------
(* The inductive invariant behind the safety properties, for windows in    *)
(* which the timer does no harm.                                           *)

SafePreempt == Preempt \subseteq {"unblock", "exit", "exited"}

Masked == {"yield", "create", "grow", "shrink", "sweep"}

Active(u) == u \in live /\ state[u] # "terminated"

(* The bootstrap and the idle thread are never freed, the idle thread      *)
(* calls nothing, and the running thread is marked as such.                *)
Residents ==
  /\ {Boot, Idle, current} \subseteq live
  /\ state[current] = "running"
  /\ state[Idle] \in {"ready", "running"}
  /\ call[Idle] = NoCall
  /\ process[Boot] = Kernel /\ process[Idle] = Kernel
  /\ Kernel \in plive /\ pstate[Kernel] = "running"

(* Only the running thread is inside masked code, and what it has loaded   *)
(* there is still what memory holds.                                       *)
LocalsFresh ==
  LET c == call[current] IN
  /\ \A u \in live : Active(u) /\ u # current => call[u].at \notin Masked
  /\ \A u \in live : Active(u) /\ call[u].at \in {"exit", "sweep", "exited"}
                        => call[u].process # Kernel
  /\ c.at \in {"create", "grow"} => c.process \in plive
  /\ c.at = "shrink" => c.thread \in Worker /\ c.process = process[c.thread]
  /\ c.at \in {"grow", "shrink"} => c.count = thread_count[c.process]

InHand == IF call[current].at \in {"yield", "shrink"} THEN {call[current].thread} ELSE {}

(* Each state of a thread is one place, and each place is one state.       *)
Placement ==
  /\ IsInjective(ready) /\ IsInjective(terminated)
  /\ ToSet(ready) \cap fresh = {}
  /\ InHand \cap (ToSet(ready) \cup fresh) = {}
  /\ ToSet(ready) \cup fresh \cup InHand
       = {t \in live \ {current, Idle} : state[t] = "ready"}
  /\ ToSet(terminated) = {t \in live : state[t] = "terminated"}
  /\ Boot \notin ToSet(terminated)
  /\ \A t \in live \ {current, Idle} : state[t] # "running"

(* A thread being woken is blocked until its one waker wakes it.           *)
WakersAgree ==
  /\ \A u \in live : Active(u) /\ call[u].at = "unblock"
        => call[u].thread \in live /\ state[call[u].thread] = "blocked"
  /\ \A u, v \in live :
        (/\ Active(u) /\ call[u].at = "unblock"
         /\ Active(v) /\ call[v].at = "unblock" /\ u # v)
          => call[u].thread # call[v].thread

Ownership == \A t \in live : process[t] \in plive

(* Every step of the kernel preserves this, whatever the number of threads *)
(* and processes: the places, the locals and the counts at once.           *)
IInv ==
  /\ TypeOK
  /\ Residents
  /\ LocalsFresh
  /\ Placement
  /\ WakersAgree
  /\ Ownership
  /\ AddressSpaceFollows
  /\ CountMatches

(* Windows in which no process that is being swept is reaped.              *)
SweepSafePreempt == Preempt \subseteq {"unblock", "exited"}

(* The process whose threads process_exit goes for has exited: it is not   *)
(* replaced by a new one in the same memory meanwhile.                     *)
SweepsExited ==
  \A u \in live : Active(u) /\ call[u].at \in {"exit", "sweep"} =>
    u = current /\ pstate[call[u].process] = "terminated"
=============================================================================
