--------------------------- MODULE SchedulerProofs ---------------------------
(***************************************************************************)
(* Proofs about Scheduler, for any number of threads and processes.  Types *)
(* first; then the inductive invariant IInv, step by step, under           *)
(* SafePreempt; then what follows from it; then the order of dispatch and  *)
(* the reach of process_exit.                                              *)
(***************************************************************************)
EXTENDS Scheduler, SequenceTheorems, FiniteSetTheorems, TLAPS

(* Append adds one element and keeps a sequence free of repetition.        *)
LEMMA AppendFacts ==
  ASSUME NEW S, NEW s \in Seq(S), NEW e \in S
  PROVE  /\ Append(s, e) \in Seq(S)
         /\ ToSet(Append(s, e)) = ToSet(s) \cup {e}
         /\ IsInjective(s) /\ e \notin ToSet(s) => IsInjective(Append(s, e))
<1>1. /\ Append(s, e) \in Seq(S)
      /\ Len(Append(s, e)) = Len(s) + 1
      /\ \A i \in 1 .. Len(s) : Append(s, e)[i] = s[i]
      /\ Append(s, e)[Len(s) + 1] = e
  BY AppendProperties
<1>2. /\ Len(s) \in Nat
      /\ DOMAIN s = 1 .. Len(s)
      /\ DOMAIN Append(s, e) = 1 .. Len(s) + 1
  BY <1>1, LenProperties
<1>3. ToSet(Append(s, e)) = ToSet(s) \cup {e}
  BY <1>1, <1>2 DEF ToSet
<1>4. ASSUME IsInjective(s), e \notin ToSet(s)
      PROVE  IsInjective(Append(s, e))
  BY <1>1, <1>2, <1>4 DEF IsInjective, ToSet
<1>5. QED
  BY <1>1, <1>3, <1>4

(* Head and Tail split a sequence that has no repetition.                  *)
LEMMA DequeueFacts ==
  ASSUME NEW S, NEW s \in Seq(S), s # <<>>
  PROVE  /\ Head(s) \in S
         /\ Tail(s) \in Seq(S)
         /\ ToSet(s) = ToSet(Tail(s)) \cup {Head(s)}
         /\ IsInjective(s) => Head(s) \notin ToSet(Tail(s)) /\ IsInjective(Tail(s))
<1>1. /\ Head(s) \in S
      /\ Tail(s) \in Seq(S)
      /\ Len(Tail(s)) = Len(s) - 1
      /\ \A i \in 1 .. Len(Tail(s)) : Tail(s)[i] = s[i + 1]
  BY HeadTailProperties
<1>2. /\ Len(s) \in Nat /\ Len(s) # 0
      /\ DOMAIN s = 1 .. Len(s)
      /\ DOMAIN Tail(s) = 1 .. Len(s) - 1
      /\ Head(s) = s[1]
  BY <1>1, LenProperties, EmptySeq
<1>3. ToSet(s) = ToSet(Tail(s)) \cup {Head(s)}
  <2>1. ASSUME NEW i \in 1 .. Len(s) PROVE s[i] \in ToSet(Tail(s)) \cup {Head(s)}
    <3>1. CASE i = 1
      BY <3>1, <1>2
    <3>2. CASE i # 1
      <4>1. i - 1 \in 1 .. Len(s) - 1 /\ (i - 1) + 1 = i
        BY <3>2, <1>2
      <4>2. Tail(s)[i - 1] = s[i]
        BY <4>1, <1>1
      <4>3. QED
        BY <4>1, <4>2, <1>2 DEF ToSet
    <3>3. QED
      BY <3>1, <3>2
  <2>2. ASSUME NEW i \in 1 .. Len(s) - 1 PROVE Tail(s)[i] \in ToSet(s)
    BY <1>1, <1>2 DEF ToSet
  <2>3. Head(s) \in ToSet(s)
    BY <1>2 DEF ToSet
  <2>4. QED
    BY <1>2, <2>1, <2>2, <2>3 DEF ToSet
<1>4. ASSUME IsInjective(s)
      PROVE  Head(s) \notin ToSet(Tail(s)) /\ IsInjective(Tail(s))
  BY <1>1, <1>2, <1>4 DEF IsInjective, ToSet
<1>5. QED
  BY <1>1, <1>3, <1>4

(* RemoveAt takes one element out and keeps the rest free of repetition.   *)
LEMMA RemoveFacts ==
  ASSUME NEW S, NEW s \in Seq(S), NEW k \in DOMAIN s
  PROVE  /\ RemoveAt(s, k) \in Seq(S)
         /\ ToSet(s) = ToSet(RemoveAt(s, k)) \cup {s[k]}
         /\ IsInjective(s) => s[k] \notin ToSet(RemoveAt(s, k)) /\ IsInjective(RemoveAt(s, k))
<1> DEFINE r == RemoveAt(s, k)
           a == SubSeq(s, 1, k - 1)
           b == SubSeq(s, k + 1, Len(s))
<1>1. /\ Len(s) \in Nat
      /\ DOMAIN s = 1 .. Len(s)
      /\ k \in 1 .. Len(s)
  BY LenProperties
<1>2. /\ a \in Seq(S) /\ Len(a) = k - 1
      /\ \A i \in 1 .. k - 1 : a[i] = s[i]
  BY <1>1, SubSeqProperties
<1>3. /\ b \in Seq(S) /\ Len(b) = Len(s) - k
      /\ \A i \in 1 .. Len(s) - k : b[i] = s[k + i]
  BY <1>1, SubSeqProperties
<1>4. /\ r \in Seq(S)
      /\ Len(r) = Len(s) - 1
      /\ \A i \in 1 .. Len(s) - 1 : r[i] = IF i < k THEN s[i] ELSE s[i + 1]
  <2> HIDE DEF a, b
  <2>1. r = a \o b
    BY DEF r, RemoveAt, a, b
  <2>2. /\ r \in Seq(S)
        /\ Len(r) = Len(a) + Len(b)
        /\ \A i \in 1 .. Len(a) + Len(b) :
             r[i] = IF i <= Len(a) THEN a[i] ELSE b[i - Len(a)]
    <3> HIDE DEF r
    <3>1. a \in Seq(S) /\ b \in Seq(S)
      BY <1>2, <1>3
    <3>2. /\ a \o b \in Seq(S)
          /\ Len(a \o b) = Len(a) + Len(b)
          /\ \A i \in 1 .. Len(a) + Len(b) :
               (a \o b)[i] = IF i <= Len(a) THEN a[i] ELSE b[i - Len(a)]
      BY <3>1, ConcatProperties, Zenon
    <3>3. QED
      BY <2>1, <3>2, Zenon
  <2>3. Len(a) + Len(b) = Len(s) - 1
    BY <1>1, <1>2, <1>3
  <2>4. ASSUME NEW i \in 1 .. Len(s) - 1
        PROVE  r[i] = IF i < k THEN s[i] ELSE s[i + 1]
    <3> HIDE DEF r
    <3>1. CASE i < k
      <4>1. i \in 1 .. k - 1 /\ i <= Len(a)
        BY <3>1, <1>1, <1>2
      <4>2. r[i] = a[i]
        BY <4>1, <2>2, <2>3
      <4>3. QED
        BY <3>1, <4>1, <4>2, <1>2
    <3>2. CASE ~(i < k)
      <4>1. /\ ~(i <= Len(a))
            /\ i - Len(a) \in 1 .. Len(s) - k
            /\ k + (i - Len(a)) = i + 1
        BY <3>2, <1>1, <1>2
      <4>2. r[i] = b[i - Len(a)]
        BY <4>1, <2>2, <2>3
      <4>3. QED
        BY <3>2, <4>1, <4>2, <1>3
    <3>3. QED
      BY <3>1, <3>2
  <2>5. QED
    BY <2>2, <2>3, <2>4
<1> HIDE DEF r
<1>5. DOMAIN r = 1 .. Len(s) - 1
  BY <1>4, LenProperties
<1>6. ToSet(s) = ToSet(r) \cup {s[k]}
  <2>1. ASSUME NEW i \in 1 .. Len(s), i # k PROVE s[i] \in ToSet(r)
    <3>1. CASE i < k
      <4>1. i \in 1 .. Len(s) - 1 /\ r[i] = s[i]
        BY <3>1, <1>1, <1>4
      <4>2. QED
        BY <4>1, <1>5 DEF ToSet
    <3>2. CASE i > k
      <4>1. i - 1 \in 1 .. Len(s) - 1 /\ ~(i - 1 < k) /\ (i - 1) + 1 = i
        BY <3>2, <1>1
      <4>2. r[i - 1] = s[i]
        BY <4>1, <1>4
      <4>3. QED
        BY <4>1, <4>2, <1>5 DEF ToSet
    <3>3. QED
      BY <3>1, <3>2, <2>1, <1>1
  <2>2. ASSUME NEW i \in 1 .. Len(s) - 1 PROVE r[i] \in ToSet(s)
    <3>1. i \in 1 .. Len(s) /\ i + 1 \in 1 .. Len(s)
      BY <1>1
    <3>2. QED
      BY <3>1, <1>1, <1>4 DEF ToSet
  <2>3. QED
    BY <1>1, <1>5, <2>1, <2>2 DEF ToSet
<1>7. ASSUME IsInjective(s) PROVE s[k] \notin ToSet(r) /\ IsInjective(r)
  <2>1. \A i, j \in 1 .. Len(s) : s[i] = s[j] => i = j
    BY <1>1, <1>7 DEF IsInjective
  <2>2. \A i \in 1 .. Len(s) - 1 : r[i] # s[k]
    BY <1>1, <1>4, <2>1
  <2>3. \A i, j \in 1 .. Len(s) - 1 : r[i] = r[j] => i = j
    BY <1>1, <1>4, <2>1
  <2>4. QED
    BY <1>5, <2>2, <2>3 DEF IsInjective, ToSet
<1>8. QED
  BY <1>4, <1>6, <1>7 DEF r

-----------------------------------------------------------------------------
(* Type correctness.                                                       *)

(* There are finitely many threads, so that they can be counted.           *)
LEMMA ThreadsFinite == IsFiniteSet(Thread)
<1>1. IsFiniteSet(Worker \cup {Boot})
  BY SlotsAreDistinct, FS_AddElement
<1>2. IsFiniteSet((Worker \cup {Boot}) \cup {Idle})
  BY <1>1, FS_AddElement
<1>3. Thread = (Worker \cup {Boot}) \cup {Idle}
  BY DEF Thread
<1>4. QED
  BY <1>2, <1>3

(* What thread_dequeue returns, and leaves, is well typed.                 *)
LEMMA NextType ==
  ASSUME ready \in Seq(Thread)
  PROVE  NextThread \in Thread /\ AfterDequeue \in Seq(Thread)
<1>1. Idle \in Thread /\ <<>> \in Seq(Thread)
  BY DEF Thread
<1>2. ready # <<>> => Head(ready) \in Thread /\ Tail(ready) \in Seq(Thread)
  BY HeadTailProperties
<1>3. QED
  BY <1>1, <1>2 DEF NextThread, AfterDequeue

(* Locals of the right types make a call record.                           *)
LEMMA CallType ==
  ASSUME NEW at \in Window \cup {"run", "sweep"},
         NEW t \in Thread \cup {None}, NEW p \in Proc \cup {None}, NEW n \in Nat,
         at \in {"yield", "unblock", "shrink"} => t \in Thread,
         at \in {"create", "grow", "shrink", "exit", "sweep", "exited"} => p \in Proc
  PROVE  CallAt(at, t, p, n) \in Calls
BY DEF CallAt, Calls

(* A thread outside of the kernel API has a call record, too.              *)
LEMMA NoCallType == NoCall \in Calls
<1>1. NoCall = CallAt("run", None, None, 0)
  BY DEF NoCall, CallAt
<1>2. QED
  BY <1>1, CallType

(* The state after process_init and thread_init is well typed.             *)
LEMMA InitType == Init => TypeOK
<1>1. <<>> \in Seq(Thread)
  OBVIOUS
<1>2. QED
  BY <1>1, NoCallType, SlotsAreDistinct DEF Init, TypeOK, Thread, Proc

(* Every operation keeps the types.                                        *)
LEMMA TypeStep == TypeOK /\ [Next]_vars => TypeOK'
<1> SUFFICES ASSUME TypeOK, [Next]_vars PROVE TypeOK'
  OBVIOUS
<1> USE DEF TypeOK
<1>a. NextThread \in Thread /\ AfterDequeue \in Seq(Thread)
  BY NextType
<1>b. ASSUME NEW at \in Window \cup {"run", "sweep"}, NEW t \in Thread \cup {None},
             NEW p \in Proc \cup {None}, NEW n \in Nat, Goto(at, t, p, n),
             at \in {"yield", "unblock", "shrink"} => t \in Thread,
             at \in {"create", "grow", "shrink", "exit", "sweep", "exited"} => p \in Proc
      PROVE  call' \in [Thread -> Calls]
  BY <1>b, CallType DEF Goto
<1>c. ASSUME Return PROVE call' \in [Thread -> Calls]
  BY <1>c, NoCallType DEF Return
<1>e. /\ call[current].at \in {"yield", "unblock", "shrink"} => call[current].thread \in Thread
      /\ call[current].at \in {"create", "grow", "shrink", "exit", "sweep", "exited"}
           => call[current].process \in Proc
      /\ call[current].count \in Nat
  BY DEF Calls
<1>d. ASSUME NEW n \in Thread, SwitchTo(n)
      PROVE  /\ current' \in Thread
             /\ current_process' \in Proc \cup {None}
             /\ current_address_space' \in Proc
  BY <1>d DEF SwitchTo, contextVars
<1>1. CASE Tick
  <2>1. ready' \in Seq(Thread)
    BY <1>1, <1>a, AppendProperties DEF Tick
  <2>2. terminated' \in Seq(Thread)
    BY <1>1 DEF Tick
  <2>3. state' \in [Thread -> {"ready", "running", "blocked", "terminated"}]
    BY <1>1 DEF Tick
  <2>4. ASSUME NEW p \in Proc PROVE Released(p) \in Nat
    <3>1. IsFiniteSet(Thread)
      BY ThreadsFinite
    <3>2. {t \in Reaped : process[t] = p} \subseteq Thread
      BY DEF Reaped, ToSet
    <3>3. IsFiniteSet({t \in Reaped : process[t] = p})
      BY <3>1, <3>2, FS_Subset
    <3>4. QED
      BY <3>3, FS_CardinalityType, Zenon DEF Released
  <2>5. thread_count' \in [Proc -> Nat]
    BY <1>1, <2>4 DEF Tick, CountAfterReap
  <2>6. QED
    BY <1>1, <1>a, <1>d, <2>1, <2>2, <2>3, <2>5 DEF Tick
<1>2. CASE CreateFail
  BY <1>2, <1>c DEF CreateFail, threadVars, processVars, contextVars
<1>3. CASE CreateLoad
  BY <1>3, <1>e, <1>b DEF CreateLoad, threadVars, processVars, contextVars, Window, At, Thread
<1>4. ASSUME NEW t \in Worker, CreateStore(t) PROVE TypeOK'
  <2>1. call' \in [Thread -> Calls]
    BY <1>4, NoCallType DEF CreateStore
  <2>2. call[current].process \in Proc /\ call[current].count + 1 \in Nat
    BY <1>4, <1>e DEF CreateStore, At
  <2>3. QED
    BY <1>4, <2>1, <2>2 DEF CreateStore, contextVars, Thread
<1>5. CASE DestroyStore
  BY <1>5, <1>e, <1>c DEF DestroyStore, contextVars, At
<1>6. CASE YieldSwitch
  <2>1. call[current].thread \in Thread
    BY <1>6, <1>e DEF YieldSwitch, At
  <2>2. ready' \in Seq(Thread)
    BY <1>6, AppendProperties DEF YieldSwitch
  <2>3. state' \in [Thread -> {"ready", "running", "blocked", "terminated"}]
    BY <1>6 DEF YieldSwitch
  <2>4. QED
    BY <1>6, <1>c, <1>d, <2>1, <2>2, <2>3 DEF YieldSwitch, processVars
<1>7. CASE UnblockWake
  <2>1. call[current].thread \in Thread
    BY <1>7, <1>e DEF UnblockWake, At
  <2>2. ready' \in Seq(Thread) /\ terminated' \in Seq(Thread)
    <3>1. /\ Append(ready, call[current].thread) \in Seq(Thread)
          /\ Append(terminated, call[current].thread) \in Seq(Thread)
      BY <2>1, AppendProperties
    <3>2. QED
      BY <1>7, <3>1 DEF UnblockWake
  <2>3. state' \in [Thread -> {"ready", "running", "blocked", "terminated"}]
    BY <1>7, <2>1 DEF UnblockWake
  <2>4. QED
    BY <1>7, <1>c, <2>2, <2>3 DEF UnblockWake, processVars, contextVars
<1>8. CASE SweepBegin
  BY <1>8, <1>e, <1>b DEF SweepBegin, threadVars, processVars, contextVars, At
<1>9. ASSUME NEW i \in DOMAIN ready, SweepUnlink(i) PROVE TypeOK'
  BY <1>9, RemoveFacts, AppendProperties DEF SweepUnlink, processVars, contextVars
<1>10. CASE SweepEnd
  BY <1>10, <1>e, <1>b DEF SweepEnd, threadVars, processVars, contextVars, At, Window
<1>11. CASE ExitSelf
  BY <1>11, <1>a, <1>c, <1>d, AppendProperties
     DEF ExitSelf, TerminateCurrent, processVars
<1>12. CASE ExitReturn
  BY <1>12, <1>c DEF ExitReturn, threadVars, processVars, contextVars
<1>13. CASE YieldDequeue
  BY <1>13, <1>b, HeadTailProperties DEF YieldDequeue, threadVars, processVars, contextVars, Window
<1>14. CASE Block
  BY <1>14, <1>a, <1>d DEF Block, processVars
<1>15. CASE Terminate
  BY <1>15, <1>a, <1>d, AppendProperties DEF Terminate, TerminateCurrent, processVars
<1>16. ASSUME NEW t \in Thread, Enqueue(t) PROVE TypeOK'
  BY <1>16, AppendProperties DEF Enqueue, processVars, contextVars
<1>17. ASSUME NEW t \in Thread, DestroyLoad(t) PROVE TypeOK'
  BY <1>17, <1>b DEF DestroyLoad, processVars, contextVars, Window
<1>18. ASSUME NEW t \in Thread, UnblockCheck(t) PROVE TypeOK'
  BY <1>18, <1>b DEF UnblockCheck, threadVars, processVars, contextVars, Window
<1>19. ASSUME NEW p \in Proc, CreateCheck(p) PROVE TypeOK'
  BY <1>19, <1>b DEF CreateCheck, threadVars, processVars, contextVars, Window
<1>20. ASSUME NEW p \in Proc, ProcessCreate(p) PROVE TypeOK'
  BY <1>20 DEF ProcessCreate, threadVars, contextVars
<1>21. ASSUME NEW p \in Proc, ProcessDestroy(p) PROVE TypeOK'
  BY <1>21 DEF ProcessDestroy, threadVars
<1>22. ASSUME NEW p \in Proc, ExitMark(p) PROVE TypeOK'
  BY <1>22, <1>b DEF ExitMark, threadVars, contextVars, Window
<1>23. CASE UNCHANGED vars
  BY <1>23 DEF vars, threadVars, processVars, contextVars
<1>24. QED
  BY <1>1, <1>2, <1>3, <1>4, <1>5, <1>6, <1>7, <1>8, <1>9, <1>10, <1>11, <1>12,
     <1>13, <1>14, <1>15, <1>16, <1>17, <1>18, <1>19, <1>20, <1>21, <1>22, <1>23
     DEF Next, Continue, Call

(* Every variable keeps its type, whichever windows the timer strikes in.  *)
THEOREM TypeCorrect == Spec => []TypeOK
BY InitType, TypeStep, PTL DEF Spec

-----------------------------------------------------------------------------
(* The inductive invariant.                                                *)

(* The inductive invariant holds after process_init and thread_init.       *)
LEMMA InitInv == Init => IInv
<1> SUFFICES ASSUME Init PROVE IInv
  OBVIOUS
<1> USE SlotsAreDistinct DEF Init
<1>1. TypeOK
  BY InitType
<1>2. ToSet(ready) = {} /\ ToSet(terminated) = {}
  BY DEF ToSet
<1>3. Residents
  BY DEF Residents, Thread, Proc
<1>4. LocalsFresh
  BY DEF LocalsFresh, Active, NoCall, Thread, Masked
<1>5. Placement
  BY <1>2 DEF Placement, InHand, IsInjective, NoCall, Thread
<1>6. WakersAgree
  BY DEF WakersAgree, Active, NoCall, Thread
<1>7. Ownership /\ AddressSpaceFollows
  BY DEF Ownership, AddressSpaceFollows, Thread
<1>8. CountMatches
  <2>1. {t \in live : process[t] = Kernel} = {Boot, Idle}
    BY DEF Thread
  <2>2. Cardinality({Boot, Idle}) = 2
    <3>1. IsFiniteSet({Boot}) /\ Cardinality({Boot}) = 1
      <4>1. IsFiniteSet({}) /\ Cardinality({}) = 0
        BY FS_EmptySet, Zenon
      <4>2. /\ IsFiniteSet({} \cup {Boot})
            /\ Cardinality({} \cup {Boot})
                 = IF Boot \in {} THEN Cardinality({}) ELSE Cardinality({}) + 1
        BY <4>1, FS_AddElement, Zenon
      <4>3. {} \cup {Boot} = {Boot}
        OBVIOUS
      <4>4. QED
        BY <4>1, <4>2, <4>3
    <3>2. Cardinality({Boot} \cup {Idle}) = 2
      <4>1. Cardinality({Boot} \cup {Idle})
              = IF Idle \in {Boot} THEN Cardinality({Boot}) ELSE Cardinality({Boot}) + 1
        BY <3>1, FS_AddElement, Zenon
      <4>2. Idle \notin {Boot}
        OBVIOUS
      <4>3. 1 + 1 = 2
        OBVIOUS
      <4>4. QED
        BY <3>1, <4>1, <4>2, <4>3, Zenon
    <3>3. {Boot} \cup {Idle} = {Boot, Idle}
      OBVIOUS
    <3>4. QED
      BY <3>2, <3>3
  <2>3. thread_count[Kernel] = 2
    BY DEF Proc
  <2>4. QED
    BY <2>1, <2>2, <2>3 DEF CountMatches
<1>9. QED
  BY <1>1, <1>3, <1>4, <1>5, <1>6, <1>7, <1>8 DEF IInv

(* What the ready queue gives up to an operation that dequeues.            *)
LEMMA NextFacts ==
  ASSUME IInv
  PROVE  /\ NextThread \in live
         /\ NextThread \in ToSet(ready) \/ NextThread = Idle
         /\ ToSet(ready) \subseteq live \ {current, Idle}
         /\ ToSet(AfterDequeue) = ToSet(ready) \ {NextThread}
         /\ IsInjective(AfterDequeue)
         /\ AfterDequeue \in Seq(Thread)
<1>1. ToSet(ready) \subseteq live \ {current, Idle}
  BY DEF IInv, Placement
<1>2. ready \in Seq(Thread) /\ IsInjective(ready) /\ Idle \in live
  BY DEF IInv, TypeOK, Placement, Residents
<1>3. CASE ready = <<>>
  BY <1>1, <1>2, <1>3 DEF NextThread, AfterDequeue, ToSet
<1>4. CASE ready # <<>>
  <2>1. /\ Tail(ready) \in Seq(Thread)
        /\ ToSet(ready) = ToSet(Tail(ready)) \cup {Head(ready)}
        /\ Head(ready) \notin ToSet(Tail(ready)) /\ IsInjective(Tail(ready))
    BY <1>2, <1>4, DequeueFacts
  <2>2. QED
    BY <1>1, <1>4, <2>1 DEF NextThread, AfterDequeue
<1>5. QED
  BY <1>3, <1>4

(* An operation that only moves the running thread to another point of its *)
(* code, with locals that are fresh there.                                 *)
LEMMA LocalStep ==
  ASSUME IInv, TypeOK', current # Idle,
         NEW at, NEW t, NEW p, NEW n, Goto(at, t, p, n),
         UNCHANGED <<current, ready, terminated, threadVars, processVars, contextVars>>,
         at \notin {"yield", "shrink"}, InHand = {},
         at \in {"create", "grow"} => p \in plive,
         at = "grow" => n = thread_count[p],
         at \in {"exit", "sweep", "exited"} => p # Kernel,
         at = "unblock" => t \in live /\ state[t] = "blocked" /\ Unclaimed(t)
  PROVE  IInv'
<1> USE DEF IInv, threadVars, processVars, contextVars
<1>1. /\ call' = [call EXCEPT ![current] = CallAt(at, t, p, n)]
      /\ call \in [Thread -> Calls]
      /\ current \in live /\ live \subseteq Thread
  BY DEF Goto, TypeOK, Residents
<1>2. /\ call'[current] = CallAt(at, t, p, n)
      /\ \A u \in live : u # current => call'[u] = call[u]
  BY <1>1
<1>3. Residents'
  BY <1>2 DEF Residents
<1>4. LocalsFresh'
  BY <1>1, <1>2 DEF LocalsFresh, Active, CallAt
<1>5. InHand' = {}
  BY <1>2 DEF InHand, CallAt
<1>6. Placement'
  BY <1>5 DEF Placement
<1>7. WakersAgree'
  BY <1>1, <1>2 DEF WakersAgree, Active, CallAt, Unclaimed
<1>8. Ownership' /\ AddressSpaceFollows' /\ CountMatches'
  BY DEF Ownership, AddressSpaceFollows, CountMatches
<1>9. QED
  BY <1>3, <1>4, <1>6, <1>7, <1>8
(* Returning from an operation is moving to the code outside.              *)
LEMMA ReturnIsGoto == Return => Goto("run", None, None, 0)
BY DEF Return, Goto, NoCall, CallAt

(* Only a thread other than the idle one is ever inside an operation.      *)
LEMMA InCall ==
  ASSUME IInv, call[current].at # "run"
  PROVE  current # Idle
BY DEF IInv, Residents, NoCall

(* The operations that change nothing but the place in the code.           *)
LEMMA LocalActions ==
  ASSUME IInv, TypeOK',
         \/ CreateFail \/ CreateLoad \/ SweepBegin \/ SweepEnd \/ ExitReturn
         \/ \E q \in Proc : CreateCheck(q)
         \/ \E u \in Thread : UnblockCheck(u)
  PROVE  IInv'
<1>1. /\ call[current].at \in {"create", "grow"} => call[current].process \in plive
      /\ call[current].at \in {"exit", "sweep", "exited"} => call[current].process # Kernel
  BY DEF IInv, LocalsFresh, Residents, Active
<1>2. /\ call[current].at \in {"create", "grow", "shrink", "exit", "sweep", "exited"}
           => call[current].process \in Proc
      /\ current \in Thread
      /\ plive \subseteq Proc /\ thread_count \in [Proc -> Nat]
  BY DEF IInv, TypeOK, Calls
<1>3. CASE CreateFail
  <2>1. Goto("run", None, None, 0) /\ current # Idle /\ InHand = {}
    BY <1>3, ReturnIsGoto, InCall DEF CreateFail, At, InHand
  <2>2. QED
    BY <1>3, <2>1, LocalStep DEF CreateFail
<1>4. CASE CreateLoad
  <2> DEFINE q == call[current].process
  <2>1. /\ Goto("grow", None, q, thread_count[q])
        /\ current # Idle /\ InHand = {} /\ q \in plive
    BY <1>1, <1>4, InCall DEF CreateLoad, At, InHand
  <2>2. QED
    BY <1>4, <2>1, LocalStep DEF CreateLoad
<1>5. CASE SweepBegin
  <2>1. /\ Goto("sweep", None, call[current].process, 0)
        /\ current # Idle /\ InHand = {} /\ call[current].process # Kernel
    BY <1>1, <1>5, InCall DEF SweepBegin, At, InHand
  <2>2. QED
    BY <1>5, <2>1, LocalStep DEF SweepBegin
<1>6. CASE SweepEnd
  <2>1. /\ Goto("exited", None, call[current].process, 0)
        /\ current # Idle /\ InHand = {} /\ call[current].process # Kernel
    BY <1>1, <1>6, InCall DEF SweepEnd, At, InHand
  <2>2. QED
    BY <1>6, <2>1, LocalStep DEF SweepEnd
<1>7. CASE ExitReturn
  <2>1. Goto("run", None, None, 0) /\ current # Idle /\ InHand = {}
    BY <1>7, ReturnIsGoto, InCall DEF ExitReturn, At, InHand
  <2>2. QED
    BY <1>7, <2>1, LocalStep DEF ExitReturn
<1>8. ASSUME NEW q \in Proc, CreateCheck(q) PROVE IInv'
  <2>1. Goto("create", None, q, 0) /\ current # Idle /\ InHand = {} /\ q \in plive
    BY <1>8 DEF CreateCheck, CanCall, At, InHand
  <2>2. QED
    BY <1>8, <2>1, LocalStep DEF CreateCheck
<1>9. ASSUME NEW u \in Thread, UnblockCheck(u) PROVE IInv'
  <2>1. /\ Goto("unblock", u, None, 0) /\ current # Idle /\ InHand = {}
        /\ u \in live /\ state[u] = "blocked" /\ Unclaimed(u)
    BY <1>9 DEF UnblockCheck, CanCall, At, InHand
  <2>2. QED
    BY <1>9, <2>1, LocalStep DEF UnblockCheck
<1>10. QED
  BY <1>3, <1>4, <1>5, <1>6, <1>7, <1>8, <1>9

-----------------------------------------------------------------------------
(* The CPU changes hands: n is to run instead of the current thread, whose *)
(* new state is s, which waits in no window the timer must not hit.        *)
LEMMA SwitchFacts ==
  ASSUME IInv, NEW n \in live, SwitchTo(n), process' = process
  PROVE  AddressSpaceFollows'
BY DEF IInv, AddressSpaceFollows, SwitchTo, contextVars

(* The set of queued threads after an enqueue.                             *)
LEMMA AfterEnqueue ==
  ASSUME IInv, NEW s \in Seq(Thread), NEW t \in Thread, IsInjective(s), t \notin ToSet(s)
  PROVE  /\ ToSet(Append(s, t)) = ToSet(s) \cup {t}
         /\ IsInjective(Append(s, t))
BY AppendFacts

(* thread_block preserves the invariant.                                   *)
LEMMA BlockStep ==
  ASSUME IInv, TypeOK', Block
  PROVE  IInv'
<1> DEFINE n == NextThread
<1> USE DEF Block
<1>1. /\ n \in live /\ (n \in ToSet(ready) \/ n = Idle)
      /\ ToSet(ready) \subseteq live \ {current, Idle}
      /\ ToSet(ready') = ToSet(ready) \ {n} /\ IsInjective(ready')
      /\ current # Idle
  BY NextFacts DEF CanCall
<1>2. /\ state \in [Thread -> {"ready", "running", "blocked", "terminated"}]
      /\ live \subseteq Thread /\ current \in live /\ call[current].at = "run"
  BY DEF IInv, TypeOK, Residents, CanCall, At
<1>3. /\ current' = n /\ live' = live /\ fresh' = fresh /\ process' = process
      /\ call' = call /\ plive' = plive /\ pstate' = pstate
      /\ thread_count' = thread_count /\ terminated' = terminated
      /\ n # current
      /\ state' = [state EXCEPT ![current] = "blocked", ![n] = "running"]
  BY <1>1 DEF SwitchTo, processVars
<1> HIDE DEF n, Block
<1>4. /\ \A t \in live : t \notin {current, n} => state'[t] = state[t]
      /\ state'[current] = "blocked" /\ state'[n] = "running"
      /\ state[current] = "running" /\ state[n] \in {"ready", "running"}
  BY <1>1, <1>2, <1>3 DEF IInv, Placement, Residents
<1>5. Residents'
  BY <1>1, <1>2, <1>3, <1>4 DEF IInv, Residents
<1>6. call[n].at \notin Masked
  BY <1>1, <1>2, <1>3, <1>4 DEF IInv, Residents, LocalsFresh, Active, Masked, NoCall
<1>7. LocalsFresh'
  BY <1>1, <1>2, <1>3, <1>4, <1>6 DEF IInv, LocalsFresh, Active, Masked
<1>8. InHand = {} /\ InHand' = {}
  BY <1>2, <1>3, <1>6 DEF InHand, Masked
<1>9. Placement'
  BY <1>1, <1>2, <1>3, <1>4, <1>8 DEF IInv, Placement, Residents
<1>10. WakersAgree'
  BY <1>1, <1>2, <1>3, <1>4 DEF IInv, WakersAgree, Active
<1>11. Ownership' /\ CountMatches'
  BY <1>3 DEF IInv, Ownership, CountMatches
<1>12. AddressSpaceFollows'
  BY <1>1, <1>3, SwitchFacts DEF Block, n
<1>13. QED
  BY <1>5, <1>7, <1>9, <1>10, <1>11, <1>12 DEF IInv
(* The masked part of thread_terminate, whatever becomes of call[current]. *)
LEMMA TerminateStep ==
  ASSUME IInv, TypeOK', TerminateCurrent,
         UNCHANGED <<live, fresh, process, processVars>>,
         InHand = {}, NEW c \in Calls, c.at = "run",
         call' = [call EXCEPT ![current] = c]
  PROVE  IInv'
<1> DEFINE n == NextThread
<1> USE DEF TerminateCurrent
<1>1. /\ n \in live /\ (n \in ToSet(ready) \/ n = Idle)
      /\ ToSet(ready) \subseteq live \ {current, Idle}
      /\ ToSet(ready') = ToSet(ready) \ {n} /\ IsInjective(ready')
      /\ current \notin {Idle, Boot}
  BY NextFacts
<1>2. /\ state \in [Thread -> {"ready", "running", "blocked", "terminated"}]
      /\ live \subseteq Thread /\ current \in live
      /\ call \in [Thread -> Calls] /\ terminated \in Seq(Thread)
  BY DEF IInv, TypeOK, Residents
<1>3. /\ current' = n /\ live' = live /\ fresh' = fresh /\ process' = process
      /\ plive' = plive /\ pstate' = pstate /\ thread_count' = thread_count
      /\ n # current
      /\ state' = [state EXCEPT ![current] = "terminated", ![n] = "running"]
  BY <1>1 DEF SwitchTo, processVars
<1>4. /\ current \notin ToSet(terminated)
      /\ ToSet(terminated') = ToSet(terminated) \cup {current} /\ IsInjective(terminated')
  <2>1. current \notin ToSet(terminated) /\ IsInjective(terminated)
    BY DEF IInv, Placement, Residents
  <2>2. QED
    BY <1>2, <2>1, AfterEnqueue
<1> HIDE DEF n, TerminateCurrent
<1>5. /\ \A t \in live : t \notin {current, n} => state'[t] = state[t]
      /\ state'[current] = "terminated" /\ state'[n] = "running"
      /\ state[current] = "running" /\ state[n] \in {"ready", "running"}
  BY <1>1, <1>2, <1>3 DEF IInv, Placement, Residents
<1>6. /\ \A t \in live : t # current => call'[t] = call[t]
      /\ call'[current].at = "run"
  BY <1>2
<1>7. Residents'
  BY <1>1, <1>2, <1>3, <1>5, <1>6 DEF IInv, Residents
<1>8. call[n].at \notin Masked
  BY <1>1, <1>2, <1>3, <1>5 DEF IInv, Residents, LocalsFresh, Active, Masked, NoCall
<1>9. LocalsFresh'
  BY <1>1, <1>2, <1>3, <1>5, <1>6, <1>8 DEF IInv, LocalsFresh, Active, Masked
<1>10. InHand' = {}
  BY <1>1, <1>2, <1>3, <1>6, <1>8 DEF InHand, Masked
<1>11. Placement'
  BY <1>1, <1>2, <1>3, <1>4, <1>5, <1>10 DEF IInv, Placement, Residents
<1>12. WakersAgree'
  BY <1>1, <1>2, <1>3, <1>5, <1>6 DEF IInv, WakersAgree, Active
<1>13. Ownership' /\ CountMatches'
  BY <1>3 DEF IInv, Ownership, CountMatches
<1>14. AddressSpaceFollows'
  BY <1>1, <1>3, SwitchFacts DEF TerminateCurrent, n
<1>15. QED
  BY <1>7, <1>9, <1>11, <1>12, <1>13, <1>14 DEF IInv

(* So do its two callers.                                                  *)
LEMMA TerminateActions ==
  ASSUME IInv, TypeOK', Terminate \/ ExitSelf
  PROVE  IInv'
<1>1. CASE Terminate
  <2>1. call[current].at = "run" /\ InHand = {} /\ call[current] \in Calls
    BY <1>1 DEF Terminate, CanCall, At, InHand, IInv, TypeOK
  <2>2. call' = [call EXCEPT ![current] = call[current]]
    BY <1>1 DEF Terminate, IInv, TypeOK
  <2>3. QED
    BY <1>1, <2>1, <2>2, TerminateStep DEF Terminate
<1>2. CASE ExitSelf
  <2>1. NoCall.at = "run" /\ InHand = {} /\ NoCall \in Calls
    BY <1>2, NoCallType DEF ExitSelf, At, InHand, NoCall
  <2>2. call' = [call EXCEPT ![current] = NoCall]
    BY <1>2 DEF ExitSelf, Return
  <2>3. QED
    BY <1>2, <2>1, <2>2, TerminateStep DEF ExitSelf
<1>3. QED
  BY <1>1, <1>2

(* thread_yield up to its cli preserves the invariant.                     *)
LEMMA YieldDequeueStep ==
  ASSUME IInv, TypeOK', YieldDequeue
  PROVE  IInv'
<1> DEFINE n == Head(ready)
<1>1. /\ n = NextThread /\ ready' = AfterDequeue /\ ready # <<>>
  BY DEF YieldDequeue, NextThread, AfterDequeue
<1>2. /\ n \in live /\ n \in ToSet(ready)
      /\ ToSet(ready) \subseteq live \ {current, Idle}
      /\ ToSet(ready') = ToSet(ready) \ {n} /\ IsInjective(ready')
  <2>1. n \in ToSet(ready)
    <3>1. ready \in Seq(Thread)
      BY DEF IInv, TypeOK
    <3>2. ToSet(ready) = ToSet(Tail(ready)) \cup {Head(ready)}
      BY <1>1, <3>1, DequeueFacts
    <3>3. QED
      BY <3>2
  <2>2. QED
    BY <1>1, <2>1, NextFacts
<1> HIDE DEF n
<1>3. /\ call' = [call EXCEPT ![current] = CallAt("yield", n, None, 0)]
      /\ call[current].at = "run" /\ current # Idle
      /\ UNCHANGED <<current, terminated, live, fresh, state, process, plive, pstate,
                     thread_count, current_process, current_address_space>>
  BY DEF YieldDequeue, CanCall, At, Goto, n, threadVars, processVars, contextVars
<1>4. /\ call'[current] = CallAt("yield", n, None, 0)
      /\ \A t \in live : t # current => call'[t] = call[t]
      /\ current \in live
  BY <1>3 DEF IInv, TypeOK, Residents
<1>5. Residents'
  BY <1>3, <1>4 DEF IInv, Residents
<1>6. LocalsFresh'
  BY <1>3, <1>4 DEF IInv, LocalsFresh, Active, CallAt
<1>7. InHand = {} /\ InHand' = {n}
  BY <1>3, <1>4 DEF InHand, CallAt
<1>8. Placement'
  BY <1>2, <1>3, <1>7 DEF IInv, Placement
<1>9. WakersAgree'
  BY <1>3, <1>4 DEF IInv, WakersAgree, Active, CallAt
<1>10. Ownership' /\ CountMatches' /\ AddressSpaceFollows'
  BY <1>3 DEF IInv, Ownership, CountMatches, AddressSpaceFollows
<1>11. QED
  BY <1>5, <1>6, <1>8, <1>9, <1>10 DEF IInv

(* The rest of thread_yield preserves the invariant.                       *)
LEMMA YieldSwitchStep ==
  ASSUME IInv, TypeOK', YieldSwitch
  PROVE  IInv'
<1> DEFINE n == call[current].thread
<1>1. /\ call[current].at = "yield" /\ current # Idle /\ InHand = {n}
  BY InCall DEF YieldSwitch, At, InHand
<1>2. /\ state \in [Thread -> {"ready", "running", "blocked", "terminated"}]
      /\ live \subseteq Thread /\ current \in live /\ state[current] = "running"
      /\ call \in [Thread -> Calls] /\ ready \in Seq(Thread)
  BY DEF IInv, TypeOK, Residents
<1>3. /\ n \in live \ {current, Idle} /\ state[n] = "ready"
      /\ n \notin ToSet(ready) /\ n \notin fresh
      /\ current \notin ToSet(ready) /\ IsInjective(ready)
  BY <1>1 DEF IInv, Placement
<1>4. /\ ToSet(ready') = ToSet(ready) \cup {current} /\ IsInjective(ready')
  <2>1. ready' = Append(ready, current)
    BY <1>2 DEF YieldSwitch, MayContinue
  <2>2. QED
    BY <1>2, <1>3, <2>1, AfterEnqueue
<1>5. /\ current' = n /\ live' = live /\ fresh' = fresh /\ process' = process
      /\ plive' = plive /\ pstate' = pstate /\ thread_count' = thread_count
      /\ terminated' = terminated
      /\ call' = [call EXCEPT ![current] = NoCall]
      /\ SwitchTo(n)
  BY DEF YieldSwitch, SwitchTo, processVars, Return
<1>6. /\ \A t \in live : t \notin {current, n} => state'[t] = state[t]
      /\ state'[current] = "ready" /\ state'[n] = "running"
  BY <1>2, <1>3 DEF YieldSwitch, MayContinue
<1> HIDE DEF n
<1>7. /\ \A t \in live : t # current => call'[t] = call[t]
      /\ call'[current].at = "run"
  BY <1>2, <1>5 DEF NoCall
<1>8. Residents'
  BY <1>1, <1>2, <1>3, <1>5, <1>6, <1>7 DEF IInv, Residents
<1>9. call[n].at \notin Masked
  BY <1>2, <1>3 DEF IInv, LocalsFresh, Active
<1>10. LocalsFresh'
  BY <1>2, <1>3, <1>5, <1>6, <1>7, <1>9 DEF IInv, LocalsFresh, Active, Masked
<1>11. InHand' = {}
  BY <1>3, <1>5, <1>7, <1>9 DEF InHand, Masked
<1>12. Placement'
  BY <1>1, <1>2, <1>3, <1>4, <1>5, <1>6, <1>11 DEF IInv, Placement
<1>13. WakersAgree'
  BY <1>1, <1>2, <1>3, <1>5, <1>6, <1>7 DEF IInv, WakersAgree, Active
<1>14. Ownership' /\ CountMatches'
  BY <1>5 DEF IInv, Ownership, CountMatches
<1>15. AddressSpaceFollows'
  BY <1>3, <1>5, SwitchFacts
<1>16. QED
  BY <1>8, <1>10, <1>12, <1>13, <1>14, <1>15 DEF IInv

-----------------------------------------------------------------------------
(* Steps that change who owns or queues a thread.                          *)

(* The masked part of thread_unblock preserves the invariant.              *)
LEMMA UnblockWakeStep ==
  ASSUME IInv, TypeOK', UnblockWake
  PROVE  IInv'
<1> DEFINE t == call[current].thread
<1>1. /\ call[current].at = "unblock" /\ current # Idle /\ InHand = {}
  BY InCall DEF UnblockWake, At, InHand
<1>2. /\ state \in [Thread -> {"ready", "running", "blocked", "terminated"}]
      /\ live \subseteq Thread /\ current \in live /\ state[current] = "running"
      /\ call \in [Thread -> Calls]
      /\ ready \in Seq(Thread) /\ terminated \in Seq(Thread)
      /\ state[Idle] \in {"ready", "running"}
      /\ process[Boot] = Kernel /\ pstate[Kernel] = "running"
  BY DEF IInv, TypeOK, Residents
<1>3. /\ t \in live /\ state[t] = "blocked" /\ t \notin {current, Idle}
  BY <1>1, <1>2 DEF IInv, WakersAgree, Active
<1>4. /\ t \notin ToSet(ready) \cup fresh /\ t \notin ToSet(terminated)
      /\ IsInjective(ready) /\ IsInjective(terminated)
  BY <1>3 DEF IInv, Placement
<1>5. /\ UNCHANGED <<current, live, fresh, process, plive, pstate, thread_count,
                     current_process, current_address_space>>
      /\ call' = [call EXCEPT ![current] = NoCall]
  BY DEF UnblockWake, processVars, contextVars, Return
<1>6. /\ \A u \in live : u # current => call'[u] = call[u]
      /\ call'[current].at = "run"
  BY <1>2, <1>5 DEF NoCall
<1>7. \/ /\ pstate[process[t]] = "terminated"
         /\ ToSet(ready') = ToSet(ready) /\ IsInjective(ready')
         /\ ToSet(terminated') = ToSet(terminated) \cup {t} /\ IsInjective(terminated')
         /\ state' = [state EXCEPT ![t] = "terminated"]
      \/ /\ ToSet(ready') = ToSet(ready) \cup {t} /\ IsInjective(ready')
         /\ ToSet(terminated') = ToSet(terminated) /\ IsInjective(terminated')
         /\ state' = [state EXCEPT ![t] = "ready"]
  <2>1. /\ ToSet(Append(ready, t)) = ToSet(ready) \cup {t}
        /\ IsInjective(Append(ready, t))
    BY <1>2, <1>3, <1>4, AfterEnqueue
  <2>2. /\ ToSet(Append(terminated, t)) = ToSet(terminated) \cup {t}
        /\ IsInjective(Append(terminated, t))
    BY <1>2, <1>3, <1>4, AfterEnqueue
  <2>3. QED
    BY <1>4, <2>1, <2>2 DEF UnblockWake
<1> HIDE DEF t
<1>8. /\ \A u \in live : u # t => state'[u] = state[u]
      /\ state'[t] \in {"ready", "terminated"}
      /\ t = Boot => state'[t] = "ready"
  BY <1>2, <1>3, <1>7
<1>9. Residents'
  BY <1>1, <1>2, <1>3, <1>5, <1>6, <1>8 DEF IInv, Residents
<1>10. LocalsFresh'
  BY <1>1, <1>2, <1>3, <1>5, <1>6, <1>8 DEF IInv, LocalsFresh, Active, Masked
<1>11. InHand' = {}
  BY <1>5, <1>6 DEF InHand
<1>12. Placement'
  BY <1>1, <1>2, <1>3, <1>4, <1>5, <1>7, <1>11 DEF IInv, Placement
<1>13. WakersAgree'
  BY <1>1, <1>2, <1>3, <1>5, <1>6, <1>8 DEF IInv, WakersAgree, Active, t
<1>14. Ownership' /\ CountMatches' /\ AddressSpaceFollows'
  BY <1>5 DEF IInv, Ownership, CountMatches, AddressSpaceFollows
<1>15. QED
  BY <1>9, <1>10, <1>12, <1>13, <1>14 DEF IInv

(* thread_enqueue preserves the invariant.                                 *)
LEMMA EnqueueStep ==
  ASSUME IInv, TypeOK', NEW t \in Thread, Enqueue(t)
  PROVE  IInv'
<1>1. /\ call[current].at = "run" /\ t \in fresh
      /\ UNCHANGED <<current, terminated, live, process, plive, pstate, thread_count,
                     current_process, current_address_space, call>>
      /\ fresh' = fresh \ {t} /\ state' = [state EXCEPT ![t] = "ready"]
      /\ ready' = Append(ready, t)
  BY DEF Enqueue, CanCall, At, processVars, contextVars
<1>2. /\ state[t] = "ready" /\ state \in [Thread -> {"ready", "running", "blocked", "terminated"}]
      /\ t \notin ToSet(ready) /\ IsInjective(ready) /\ ready \in Seq(Thread)
  BY <1>1 DEF IInv, Placement, TypeOK
<1>3. state' = state
  BY <1>1, <1>2
<1>4. ToSet(ready') = ToSet(ready) \cup {t} /\ IsInjective(ready')
  BY <1>1, <1>2, AfterEnqueue
<1>5. Residents' /\ LocalsFresh' /\ WakersAgree'
  BY <1>1, <1>3 DEF IInv, Residents, LocalsFresh, WakersAgree, Active
<1>6. InHand = {} /\ InHand' = {}
  BY <1>1 DEF InHand
<1>7. Placement'
  BY <1>1, <1>3, <1>4, <1>6 DEF IInv, Placement
<1>8. Ownership' /\ CountMatches' /\ AddressSpaceFollows'
  BY <1>1 DEF IInv, Ownership, CountMatches, AddressSpaceFollows
<1>9. QED
  BY <1>5, <1>7, <1>8 DEF IInv

(* One turn of the loop of thread_terminate_process_threads.               *)
LEMMA SweepUnlinkStep ==
  ASSUME IInv, TypeOK', NEW i \in DOMAIN ready, SweepUnlink(i)
  PROVE  IInv'
<1> DEFINE t == ready[i]
<1>1. /\ call[current].at = "sweep" /\ current # Idle /\ InHand = {} /\ InHand' = {}
      /\ process[t] = call[current].process /\ t # current
      /\ UNCHANGED <<current, live, fresh, process, plive, pstate, thread_count,
                     current_process, current_address_space, call>>
      /\ state' = [state EXCEPT ![t] = "terminated"]
      /\ ready' = RemoveAt(ready, i) /\ terminated' = Append(terminated, t)
  BY InCall DEF SweepUnlink, At, InHand, FirstDoomed, Doomed, processVars, contextVars
<1>2. /\ state \in [Thread -> {"ready", "running", "blocked", "terminated"}]
      /\ live \subseteq Thread /\ current \in live /\ state[current] = "running"
      /\ ready \in Seq(Thread) /\ terminated \in Seq(Thread)
      /\ process[Boot] = Kernel /\ process[Idle] = Kernel
  BY DEF IInv, TypeOK, Residents
<1>3. call[current].process # Kernel
  BY <1>1, <1>2 DEF IInv, LocalsFresh, Active
<1>4. /\ ToSet(ready) = ToSet(ready') \cup {t}
      /\ t \notin ToSet(ready') /\ IsInjective(ready')
  <2>1. IsInjective(ready)
    BY DEF IInv, Placement
  <2>2. QED
    BY <1>1, <1>2, <2>1, RemoveFacts
<1> HIDE DEF t
<1>5. /\ t \in live /\ state[t] = "ready" /\ t \notin {Boot, Idle, current}
      /\ t \notin ToSet(terminated) /\ t \notin fresh /\ IsInjective(terminated)
  BY <1>1, <1>2, <1>3, <1>4 DEF IInv, Placement
<1>6. ToSet(terminated') = ToSet(terminated) \cup {t} /\ IsInjective(terminated')
  BY <1>1, <1>2, <1>5, AfterEnqueue
<1>7. /\ \A u \in live : u # t => state'[u] = state[u]
      /\ state'[t] = "terminated"
  BY <1>1, <1>2, <1>5
<1>8. Residents'
  BY <1>1, <1>2, <1>5, <1>7 DEF IInv, Residents
<1>9. LocalsFresh'
  BY <1>1, <1>2, <1>5, <1>7 DEF IInv, LocalsFresh, Active
<1>10. Placement'
  BY <1>1, <1>2, <1>4, <1>5, <1>6, <1>7 DEF IInv, Placement
<1>11. WakersAgree'
  BY <1>1, <1>2, <1>5, <1>7 DEF IInv, WakersAgree, Active
<1>12. Ownership' /\ CountMatches' /\ AddressSpaceFollows'
  BY <1>1 DEF IInv, Ownership, CountMatches, AddressSpaceFollows
<1>13. QED
  BY <1>8, <1>9, <1>10, <1>11, <1>12 DEF IInv
(* The end of thread_create_in_process preserves the invariant.            *)
LEMMA CreateStoreStep ==
  ASSUME IInv, TypeOK', NEW t \in Worker, CreateStore(t)
  PROVE  IInv'
<1> DEFINE p == call[current].process
           Of(q) == {u \in live : process[u] = q}
<1>1. /\ call[current].at = "grow" /\ current # Idle /\ InHand = {}
      /\ t \in Thread /\ t \notin live /\ t # Boot /\ t # Idle
      /\ UNCHANGED <<current, ready, terminated, plive, pstate,
                     current_process, current_address_space>>
      /\ thread_count' = [thread_count EXCEPT ![p] = call[current].count + 1]
      /\ process' = [process EXCEPT ![t] = p]
      /\ state' = [state EXCEPT ![t] = "ready"]
      /\ live' = live \cup {t} /\ fresh' = fresh \cup {t}
      /\ call' = [call EXCEPT ![current] = NoCall, ![t] = NoCall]
  BY InCall, SlotsAreDistinct DEF CreateStore, At, InHand, Thread, contextVars
<1>2. /\ state \in [Thread -> {"ready", "running", "blocked", "terminated"}]
      /\ live \subseteq Thread /\ current \in live /\ Boot \in live /\ Idle \in live
      /\ process \in [Thread -> Proc] /\ call \in [Thread -> Calls]
      /\ thread_count \in [Proc -> Nat] /\ plive \subseteq Proc
  BY DEF IInv, TypeOK, Residents
<1>3. p \in plive /\ call[current].count = thread_count[p]
  BY <1>1 DEF IInv, LocalsFresh
<1>4. /\ \A u \in live : state'[u] = state[u] /\ process'[u] = process[u]
      /\ \A u \in live : u # current => call'[u] = call[u]
      /\ call'[current] = NoCall /\ call'[t] = NoCall
      /\ state'[t] = "ready" /\ process'[t] = p
      /\ current' = current /\ live' = live \cup {t} /\ t \notin live
  BY <1>1, <1>2
<1> HIDE DEF p
<1>5. Residents'
  BY <1>1, <1>2, <1>4 DEF IInv, Residents
<1>6. LocalsFresh'
  BY <1>1, <1>2, <1>4 DEF IInv, LocalsFresh, Active, NoCall, Masked
<1>7. InHand' = {}
  BY <1>4 DEF InHand, NoCall
<1>8. Placement'
  <2>1. ToSet(ready) \subseteq live /\ ToSet(terminated) \subseteq live
    BY DEF IInv, Placement
  <2>2. QED
    BY <1>1, <1>2, <1>4, <1>7, <2>1 DEF IInv, Placement
<1>9. WakersAgree'
  <2>1. ASSUME NEW u \in live', Active(u)', call'[u].at = "unblock"
        PROVE  u \in live /\ Active(u) /\ call'[u] = call[u]
    BY <1>4, <2>1 DEF Active, NoCall
  <2>2. QED
    BY <1>4, <2>1 DEF IInv, WakersAgree
<1>10. Ownership' /\ AddressSpaceFollows'
  BY <1>1, <1>2, <1>3, <1>4 DEF IInv, Ownership, AddressSpaceFollows
<1>11. CountMatches'
  <2> SUFFICES ASSUME NEW q \in plive
               PROVE  thread_count'[q] = Cardinality({u \in live' : process'[u] = q})
    BY <1>1 DEF CountMatches
  <2>1. thread_count[q] = Cardinality(Of(q)) /\ IsFiniteSet(Of(q))
    <3>1. Of(q) \subseteq Thread
      BY <1>2
    <3>2. QED
      BY <3>1, ThreadsFinite, FS_Subset DEF IInv, CountMatches
  <2>2. CASE q = p
    <3>1. {u \in live' : process'[u] = q} = Of(q) \cup {t}
      BY <1>1, <1>4, <2>2
    <3>2. Cardinality(Of(q) \cup {t}) = Cardinality(Of(q)) + 1
      <4>1. t \notin Of(q)
        BY <1>1
      <4>2. QED
        BY <2>1, <4>1, FS_AddElement
    <3>3. thread_count'[q] = thread_count[q] + 1
      BY <1>1, <1>2, <1>3, <2>2
    <3>4. QED
      BY <2>1, <3>1, <3>2, <3>3
  <2>3. CASE q # p
    <3>1. {u \in live' : process'[u] = q} = Of(q)
      BY <1>1, <1>4, <2>3
    <3>2. QED
      BY <1>1, <1>2, <2>1, <2>3, <3>1
  <2>4. QED
    BY <2>2, <2>3
<1>12. QED
  BY <1>5, <1>6, <1>8, <1>9, <1>10, <1>11 DEF IInv

(* The beginning of thread_destroy preserves the invariant.                *)
LEMMA DestroyLoadStep ==
  ASSUME IInv, TypeOK', NEW t \in Thread, DestroyLoad(t)
  PROVE  IInv'
<1> DEFINE c == CallAt("shrink", t, process[t], thread_count[process[t]])
<1>1. /\ call[current].at = "run" /\ current # Idle /\ InHand = {} /\ t \in fresh
      /\ fresh' = fresh \ {t} /\ call' = [call EXCEPT ![current] = c]
      /\ UNCHANGED <<current, ready, terminated, live, state, process, plive, pstate,
                     thread_count, current_process, current_address_space>>
  BY DEF DestroyLoad, CanCall, At, Goto, InHand, processVars, contextVars
<1>2. /\ live \subseteq Thread /\ current \in live /\ call \in [Thread -> Calls]
      /\ t \in Worker
  BY <1>1 DEF IInv, TypeOK, Residents
<1>3. call'[current] = c /\ \A u \in live : u # current => call'[u] = call[u]
  BY <1>1, <1>2
<1>4. Residents'
  BY <1>1, <1>2, <1>3 DEF IInv, Residents
<1>5. LocalsFresh'
  BY <1>1, <1>2, <1>3 DEF IInv, LocalsFresh, Active, CallAt
<1>6. InHand' = {t}
  BY <1>1, <1>3 DEF InHand, CallAt
<1>7. Placement'
  BY <1>1, <1>6 DEF IInv, Placement
<1>8. WakersAgree'
  BY <1>1, <1>3 DEF IInv, WakersAgree, Active, CallAt
<1>9. Ownership' /\ CountMatches' /\ AddressSpaceFollows'
  BY <1>1 DEF IInv, Ownership, CountMatches, AddressSpaceFollows
<1>10. QED
  BY <1>4, <1>5, <1>7, <1>8, <1>9 DEF IInv

(* The end of thread_destroy preserves the invariant.                      *)
LEMMA DestroyStoreStep ==
  ASSUME IInv, TypeOK', DestroyStore
  PROVE  IInv'
<1> DEFINE t == call[current].thread
           p == call[current].process
           n == call[current].count
           Of(q) == {u \in live : process[u] = q}
<1>1. /\ call[current].at = "shrink" /\ current # Idle /\ InHand = {t}
      /\ UNCHANGED <<current, ready, terminated, fresh, state, process, plive, pstate,
                     current_process, current_address_space>>
      /\ live' = live \ {t}
      /\ thread_count' = IF n > 0 THEN [thread_count EXCEPT ![p] = n - 1] ELSE thread_count
      /\ call' = [call EXCEPT ![current] = NoCall]
  BY InCall DEF DestroyStore, At, InHand, Return, contextVars
<1>2. /\ live \subseteq Thread /\ current \in live /\ call \in [Thread -> Calls]
      /\ process \in [Thread -> Proc] /\ thread_count \in [Proc -> Nat]
      /\ plive \subseteq Proc
  BY DEF IInv, TypeOK, Residents
<1>3. t \in Worker /\ p = process[t] /\ n = thread_count[p]
  BY <1>1 DEF IInv, LocalsFresh
<1>4. /\ t \in live \ {current, Idle} /\ state[t] = "ready" /\ t # Boot
      /\ t \notin ToSet(ready) \cup fresh
  BY <1>1, <1>3, SlotsAreDistinct DEF IInv, Placement
<1>5. /\ call'[current] = NoCall
      /\ \A u \in live : u # current => call'[u] = call[u]
  BY <1>1, <1>2
<1> HIDE DEF t, p, n
<1>6. Residents'
  BY <1>1, <1>2, <1>4, <1>5 DEF IInv, Residents
<1>7. LocalsFresh'
  BY <1>1, <1>2, <1>5 DEF IInv, LocalsFresh, Active, NoCall
<1>8. InHand' = {}
  BY <1>1, <1>5 DEF InHand, NoCall
<1>9. Placement'
  BY <1>1, <1>4, <1>8 DEF IInv, Placement
<1>10. WakersAgree'
  BY <1>1, <1>4, <1>5 DEF IInv, WakersAgree, Active, NoCall
<1>11. Ownership' /\ AddressSpaceFollows'
  BY <1>1 DEF IInv, Ownership, AddressSpaceFollows
<1>12. CountMatches'
  <2> SUFFICES ASSUME NEW q \in plive
               PROVE  thread_count'[q] = Cardinality({u \in live' : process[u] = q})
    BY <1>1 DEF CountMatches
  <2>1. thread_count[q] = Cardinality(Of(q)) /\ IsFiniteSet(Of(q))
    <3>1. Of(q) \subseteq Thread
      BY <1>2
    <3>2. QED
      BY <3>1, ThreadsFinite, FS_Subset DEF IInv, CountMatches
  <2>2. CASE q = p
    <3>1. {u \in live' : process[u] = q} = Of(q) \ {t} /\ t \in Of(q)
      BY <1>1, <1>3, <1>4, <2>2
    <3>2. Cardinality(Of(q) \ {t}) = Cardinality(Of(q)) - 1 /\ Cardinality(Of(q) \ {t}) \in Nat
      BY <2>1, <3>1, FS_RemoveElement, FS_CardinalityType
    <3>3. thread_count[q] \in Nat /\ thread_count[q] > 0
      BY <1>2, <2>1, <3>2
    <3>4. QED
      BY <1>1, <1>2, <1>3, <2>1, <2>2, <3>1, <3>2, <3>3
  <2>3. CASE q # p
    <3>1. {u \in live' : process[u] = q} = Of(q)
      BY <1>1, <1>3, <2>3
    <3>2. QED
      BY <1>1, <1>2, <2>1, <2>3, <3>1
  <2>4. QED
    BY <2>2, <2>3
<1>13. QED
  BY <1>6, <1>7, <1>9, <1>10, <1>11, <1>12 DEF IInv

(* process_create preserves the invariant.                                 *)
LEMMA ProcessCreateStep ==
  ASSUME IInv, TypeOK', NEW p \in Proc, ProcessCreate(p)
  PROVE  IInv'
<1>1. /\ call[current].at = "run" /\ p \in UserProc /\ p \notin plive
      /\ UNCHANGED <<current, ready, terminated, live, fresh, state, process,
                     current_process, current_address_space, call>>
      /\ plive' = plive \cup {p} /\ pstate' = [pstate EXCEPT ![p] = "running"]
      /\ thread_count' = [thread_count EXCEPT ![p] = 0]
  BY DEF ProcessCreate, CanCall, At, threadVars, contextVars
<1>2. /\ pstate \in [Proc -> {"running", "terminated"}]
      /\ thread_count \in [Proc -> Nat] /\ Kernel \in Proc
      /\ plive \subseteq Proc /\ live \subseteq Thread
  BY DEF IInv, TypeOK, Proc
<1>3. Residents'
  BY <1>1, <1>2, SlotsAreDistinct DEF IInv, Residents
<1>4. LocalsFresh' /\ InHand' = InHand
  BY <1>1 DEF IInv, LocalsFresh, Active, InHand
<1>5. Placement' /\ WakersAgree' /\ AddressSpaceFollows'
  BY <1>1, <1>4 DEF IInv, Placement, WakersAgree, Active, AddressSpaceFollows
<1>6. Ownership'
  BY <1>1 DEF IInv, Ownership
<1>7. CountMatches'
  <2> SUFFICES ASSUME NEW q \in plive \cup {p}
               PROVE  thread_count'[q] = Cardinality({u \in live : process[u] = q})
    BY <1>1 DEF CountMatches
  <2>1. CASE q = p
    <3>1. {u \in live : process[u] = q} = {}
      BY <1>1, <2>1 DEF IInv, Ownership
    <3>2. Cardinality({}) = 0
      BY FS_EmptySet, Zenon
    <3>3. QED
      BY <1>1, <1>2, <2>1, <3>1, <3>2
  <2>2. CASE q # p
    BY <1>1, <1>2, <2>2 DEF IInv, CountMatches
  <2>3. QED
    BY <2>1, <2>2
<1>8. QED
  BY <1>3, <1>4, <1>5, <1>6, <1>7 DEF IInv

(* process_destroy preserves the invariant.                                *)
LEMMA ProcessDestroyStep ==
  ASSUME IInv, TypeOK', NEW p \in Proc, ProcessDestroy(p)
  PROVE  IInv'
<1>1. /\ call[current].at = "run" /\ p \in plive /\ p # Kernel /\ thread_count[p] = 0
      /\ UNCHANGED <<current, ready, terminated, live, fresh, state, process, pstate,
                     thread_count, current_address_space, call>>
      /\ plive' = plive \ {p}
      /\ current_process' = IF p = current_process THEN None ELSE current_process
  BY DEF ProcessDestroy, CanCall, At, threadVars
<1>2. \A t \in live : process[t] # p
  <2> DEFINE Of == {u \in live : process[u] = p}
  <2>1. Cardinality(Of) = 0
    BY <1>1 DEF IInv, CountMatches
  <2>2. IsFiniteSet(Of)
    <3>1. Of \subseteq Thread
      BY DEF IInv, TypeOK
    <3>2. QED
      BY <3>1, ThreadsFinite, FS_Subset
  <2>3. Of = {}
    BY <2>1, <2>2, FS_EmptySet, Zenon
  <2>4. QED
    BY <2>3
<1>3. current \in live
  BY DEF IInv, Residents
<1>4. Residents' /\ InHand' = InHand
  BY <1>1 DEF IInv, Residents, InHand
<1>5. LocalsFresh'
  BY <1>1 DEF IInv, LocalsFresh, Active
<1>6. Placement' /\ WakersAgree'
  BY <1>1, <1>4 DEF IInv, Placement, WakersAgree, Active
<1>7. Ownership' /\ AddressSpaceFollows' /\ CountMatches'
  BY <1>1, <1>2, <1>3 DEF IInv, Ownership, AddressSpaceFollows, CountMatches
<1>8. QED
  BY <1>4, <1>5, <1>6, <1>7 DEF IInv

(* The beginning of process_exit preserves the invariant.                  *)
LEMMA ExitMarkStep ==
  ASSUME IInv, TypeOK', NEW p \in Proc, ExitMark(p)
  PROVE  IInv'
<1>1. /\ call[current].at = "run" /\ current # Idle /\ p # Kernel /\ InHand = {}
      /\ UNCHANGED <<current, ready, terminated, live, fresh, state, process, plive,
                     thread_count, current_process, current_address_space>>
      /\ pstate' = [pstate EXCEPT ![p] = "terminated"]
      /\ call' = [call EXCEPT ![current] = CallAt("exit", None, p, 0)]
  BY DEF ExitMark, CanCall, At, Goto, InHand, threadVars, contextVars
<1>2. /\ live \subseteq Thread /\ current \in live /\ call \in [Thread -> Calls]
      /\ pstate \in [Proc -> {"running", "terminated"}] /\ Kernel \in Proc
  BY DEF IInv, TypeOK, Residents, Proc
<1>3. /\ call'[current] = CallAt("exit", None, p, 0)
      /\ \A u \in live : u # current => call'[u] = call[u]
  BY <1>1, <1>2
<1>4. Residents'
  BY <1>1, <1>2, <1>3 DEF IInv, Residents
<1>5. LocalsFresh'
  BY <1>1, <1>3 DEF IInv, LocalsFresh, Active, CallAt
<1>6. InHand' = {}
  BY <1>1, <1>3 DEF InHand, CallAt
<1>7. Placement'
  BY <1>1, <1>6 DEF IInv, Placement
<1>8. WakersAgree'
  BY <1>1, <1>3 DEF IInv, WakersAgree, Active, CallAt
<1>9. Ownership' /\ CountMatches' /\ AddressSpaceFollows'
  BY <1>1 DEF IInv, Ownership, CountMatches, AddressSpaceFollows
<1>10. QED
  BY <1>4, <1>5, <1>7, <1>8, <1>9 DEF IInv

-----------------------------------------------------------------------------
(* The timer interrupt.                                                    *)

(* Reaping gives thread_count exactly what the threads that are left need. *)
LEMMA ReapCounts ==
  ASSUME IInv, Reaped \subseteq live, NEW p \in plive
  PROVE  CountAfterReap[p] = Cardinality({t \in live \ Reaped : process[t] = p})
<1> DEFINE Of == {t \in live : process[t] = p}
           Gone == {t \in Reaped : process[t] = p}
<1>1. IsFiniteSet(Of) /\ Cardinality(Of) \in Nat
  <2>1. Of \subseteq Thread
    BY DEF IInv, TypeOK
  <2>2. IsFiniteSet(Of)
    BY <2>1, ThreadsFinite, FS_Subset
  <2>3. QED
    BY <2>2, FS_CardinalityType
<1>2. IsFiniteSet(Gone) /\ Cardinality(Gone) \in Nat /\ Cardinality(Gone) <= Cardinality(Of)
  <2>1. Gone \in SUBSET Of
    OBVIOUS
  <2>2. IsFiniteSet(Gone) /\ Cardinality(Gone) <= Cardinality(Of)
    BY <1>1, <2>1, FS_Subset, Zenon
  <2>3. QED
    BY <2>2, FS_CardinalityType
<1>3. Cardinality(Of \ Gone) = Cardinality(Of) - Cardinality(Gone)
  <2>1. Cardinality(Of \ Gone) = Cardinality(Of) - Cardinality(Of \cap Gone)
    BY <1>1, FS_Difference, Zenon
  <2>2. Of \cap Gone = Gone
    OBVIOUS
  <2>3. QED
    BY <2>1, <2>2
<1>4. {t \in live \ Reaped : process[t] = p} = Of \ Gone
  OBVIOUS
<1>5. thread_count[p] = Cardinality(Of) /\ Released(p) = Cardinality(Gone) /\ p \in Proc
  BY DEF IInv, CountMatches, Released, TypeOK
<1> HIDE DEF Of, Gone
<1>6. CountAfterReap[p] = Cardinality(Of) - Cardinality(Gone)
  BY <1>1, <1>2, <1>5 DEF CountAfterReap
<1>7. QED
  BY <1>3, <1>4, <1>6

(* The timer interrupt preserves the invariant, in the windows allowed.    *)
LEMMA TickStep ==
  ASSUME IInv, TypeOK', SafePreempt, Tick
  PROVE  IInv'
<1> DEFINE n == NextThread
<1>1. call[current].at \notin Masked /\ InHand = {}
  BY DEF Tick, SafePreempt, Masked, InHand
<1>2. /\ state \in [Thread -> {"ready", "running", "blocked", "terminated"}]
      /\ live \subseteq Thread /\ current \in live /\ state[current] = "running"
      /\ Idle \in live /\ Boot \in live /\ state[Idle] \in {"ready", "running"}
  BY DEF IInv, TypeOK, Residents
<1>3. /\ n \in live /\ (n \in ToSet(ready) \/ n = Idle)
      /\ ToSet(ready) \subseteq live \ {current, Idle}
      /\ ToSet(AfterDequeue) = ToSet(ready) \ {n} /\ IsInjective(AfterDequeue)
      /\ AfterDequeue \in Seq(Thread)
  BY NextFacts
<1>4. /\ Reaped = ToSet(terminated) /\ terminated' = <<>>
      /\ Reaped = {t \in live : state[t] = "terminated"}
      /\ Boot \notin Reaped
  BY <1>2 DEF Reaped, Tick, IInv, Placement
<1>5. /\ current' = n /\ live' = live \ Reaped
      /\ UNCHANGED <<fresh, process, pstate, call>>
      /\ thread_count' = CountAfterReap
      /\ plive' = plive \ ReapedProcs(current_process')
      /\ SwitchTo(n)
  BY DEF Tick, SwitchTo
<1>6. /\ IsInjective(ready')
      /\ ToSet(ready') = (ToSet(ready) \ {n}) \cup ({current} \ {Idle})
  <2>1. CASE current = Idle
    BY <1>3, <2>1 DEF Tick
  <2>2. CASE current # Idle
    <3>1. ready' = Append(AfterDequeue, current)
      BY <1>2, <2>2 DEF Tick, MayContinue
    <3>2. current \notin ToSet(AfterDequeue) /\ current \in Thread
      BY <1>2, <1>3
    <3>3. QED
      BY <1>3, <2>2, <3>1, <3>2, AfterEnqueue
  <2>3. QED
    BY <2>1, <2>2
<1>7. /\ state'[n] = "running"
      /\ current \notin {n, Idle} => state'[current] = "ready"
      /\ \A t \in live : t \notin {n, current} => state'[t] = state[t]
      /\ current = Idle => state'[Idle] = "running"
      /\ state[n] \in {"ready", "running"}
  <2>1. state[n] \in {"ready", "running"}
    BY <1>2, <1>3 DEF IInv, Placement
  <2>2. QED
    BY <1>2, <1>3, <2>1 DEF Tick, MayContinue
<1> HIDE DEF n
<1>8. Residents'
  <2>1. {Boot, Idle, n} \subseteq live'
    BY <1>2, <1>3, <1>4, <1>5, <1>7
  <2>2. Kernel \in plive'
    BY <1>5 DEF IInv, Residents, ReapedProcs
  <2>3. state'[Idle] \in {"ready", "running"}
    BY <1>2, <1>3, <1>7
  <2>4. QED
    BY <1>5, <1>7, <2>1, <2>2, <2>3 DEF IInv, Residents
<1>9. \A u \in live : state[u] # "terminated" => call[u].at \notin Masked
  BY <1>1, <1>2 DEF IInv, LocalsFresh, Active
<1>10. LocalsFresh'
  <2>1. \A u \in live' : u \in live /\ state[u] # "terminated" /\ call'[u] = call[u]
    BY <1>4, <1>5
  <2>2. call'[current'].at \notin Masked
    BY <1>3, <1>5, <1>7, <1>9
  <2>3. QED
    BY <1>9, <2>1, <2>2 DEF IInv, LocalsFresh, Active, Masked
<1>11. InHand' = {}
  BY <1>3, <1>5, <1>7, <1>9 DEF InHand, Masked
<1>12. Placement'
  <2>1. ToSet(terminated') = {} /\ IsInjective(terminated')
    BY <1>4 DEF ToSet, IsInjective
  <2>2. fresh \cap ToSet(ready') = {}
    BY <1>6 DEF IInv, Placement
  <2>3. ToSet(ready') \cup fresh = {t \in live' \ {n, Idle} : state'[t] = "ready"}
    BY <1>1, <1>2, <1>3, <1>4, <1>5, <1>6, <1>7 DEF IInv, Placement
  <2>4. \A t \in live' : state'[t] # "terminated"
    BY <1>2, <1>3, <1>4, <1>5, <1>7
  <2>5. \A t \in live' \ {n, Idle} : state'[t] # "running"
    BY <1>2, <1>5, <1>7 DEF IInv, Placement
  <2>6. QED
    BY <1>5, <1>6, <1>11, <2>1, <2>2, <2>3, <2>4, <2>5 DEF Placement
<1>13. WakersAgree'
  BY <1>2, <1>4, <1>5, <1>7 DEF IInv, WakersAgree, Active
<1>14. CountMatches'
  <2>1. Reaped \subseteq live
    BY <1>4
  <2>2. QED
    BY <1>5, <2>1, ReapCounts DEF CountMatches
<1>15. Ownership'
  <2> SUFFICES ASSUME NEW t \in live', process[t] \in ReapedProcs(current_process')
               PROVE  FALSE
    BY <1>5 DEF IInv, Ownership
  <2> DEFINE p == process[t]
             Left == {u \in live \ Reaped : process[u] = p}
  <2>1. p \in plive /\ CountAfterReap[p] = 0
    BY DEF ReapedProcs
  <2>2. Cardinality(Left) = 0
    BY <1>4, <2>1, ReapCounts
  <2>3. IsFiniteSet(Left)
    <3>1. Left \subseteq Thread
      BY <1>2
    <3>2. QED
      BY <3>1, ThreadsFinite, FS_Subset
  <2>4. Left = {}
    BY <2>2, <2>3, FS_EmptySet, Zenon
  <2>5. QED
    BY <1>5, <2>4
<1>16. AddressSpaceFollows'
  BY <1>3, <1>5, SwitchFacts
<1>17. QED
  BY <1>8, <1>10, <1>12, <1>13, <1>14, <1>15, <1>16 DEF IInv

-----------------------------------------------------------------------------

(* Every step preserves the invariant.                                     *)
LEMMA StepInv ==
  ASSUME SafePreempt
  PROVE  IInv /\ [Next]_vars => IInv'
<1> SUFFICES ASSUME IInv, [Next]_vars PROVE IInv'
  OBVIOUS
<1>1. TypeOK'
  BY TypeStep DEF IInv
<1>2. CASE Tick
  BY <1>1, <1>2, TickStep
<1>3. CASE Continue
  BY <1>1, <1>3, LocalActions, CreateStoreStep, DestroyStoreStep, YieldSwitchStep,
     UnblockWakeStep, SweepUnlinkStep, TerminateActions DEF Continue
<1>4. CASE Call
  BY <1>1, <1>4, LocalActions, YieldDequeueStep, BlockStep, TerminateActions, EnqueueStep,
     DestroyLoadStep, ProcessCreateStep, ProcessDestroyStep, ExitMarkStep DEF Call
<1>5. CASE UNCHANGED vars
  <2>1. UNCHANGED <<current, ready, terminated, live, fresh, state, process, plive, pstate,
                    thread_count, current_process, current_address_space, call>>
    BY <1>5 DEF vars, threadVars, processVars, contextVars
  <2>2. Residents' /\ LocalsFresh' /\ InHand' = InHand
    BY <2>1 DEF IInv, Residents, LocalsFresh, Active, InHand
  <2>3. Placement' /\ WakersAgree' /\ Ownership'
    BY <2>1, <2>2 DEF IInv, Placement, WakersAgree, Active, Ownership
  <2>4. AddressSpaceFollows' /\ CountMatches'
    BY <2>1 DEF IInv, AddressSpaceFollows, CountMatches
  <2>5. QED
    BY <1>1, <2>2, <2>3, <2>4 DEF IInv
<1>6. QED
  BY <1>2, <1>3, <1>4, <1>5 DEF Next

(* The invariant holds always.                                             *)
LEMMA Invariance ==
  ASSUME SafePreempt
  PROVE  Spec => []IInv
BY InitInv, StepInv, PTL DEF Spec

(* Whatever the number of threads and processes, the thread counts that    *)
(* process_destroy and process_reap_terminated rely on are exact.          *)
THEOREM CountsExact ==
  ASSUME SafePreempt
  PROVE  Spec => []CountMatches
<1>1. IInv => CountMatches
  BY DEF IInv
<1>2. QED
  BY <1>1, Invariance, PTL

(* The running thread runs in its own process and address space.           *)
THEOREM OwnAddressSpace ==
  ASSUME SafePreempt
  PROVE  Spec => []AddressSpaceFollows
<1>1. IInv => AddressSpaceFollows
  BY DEF IInv
<1>2. QED
  BY <1>1, Invariance, PTL

(* What an operation of an active thread holds is what the masked code of  *)
(* the running thread holds.                                               *)
LEMMA HeldInHand ==
  ASSUME IInv
  PROVE  Held = InHand
<1>1. current \in live /\ state[current] # "terminated"
  BY DEF IInv, Residents
<1>2. \A v \in live : state[v] # "terminated" /\ call[v].at \in {"yield", "shrink"}
                         => v = current
  BY DEF IInv, LocalsFresh, Active, Masked
<1>3. QED
  BY <1>1, <1>2 DEF Held, InHand

(* No queue, pointer or operation reaches a freed thread.                  *)
THEOREM ThreadsAllocated ==
  ASSUME SafePreempt
  PROVE  Spec => []NoDanglingThread
<1>1. IInv => NoDanglingThread
  <2> SUFFICES ASSUME IInv PROVE NoDanglingThread
    OBVIOUS
  <2>1. ToSet(ready) \cup ToSet(terminated) \cup fresh \cup InHand \subseteq live
    BY DEF IInv, Placement
  <2>2. QED
    BY <2>1, HeldInHand DEF IInv, Residents, WakersAgree, Active, NoDanglingThread
<1>2. QED
  BY <1>1, Invariance, PTL

(* No thread outlives the process it belongs to, or is created in one that *)
(* is gone.                                                                *)
THEOREM ProcessesAllocated ==
  ASSUME SafePreempt
  PROVE  Spec => []NoDanglingProcess
<1>1. IInv => NoDanglingProcess
  BY DEF IInv, Ownership, LocalsFresh, Active, Masked, NoDanglingProcess
<1>2. QED
  BY <1>1, Invariance, PTL

(* A thread is on one queue at most, and once: one next link is enough.    *)
THEOREM OneLinkIsEnough ==
  ASSUME SafePreempt
  PROVE  Spec => []QueuedOnce
<1>1. IInv => QueuedOnce
  <2> SUFFICES ASSUME IInv PROVE QueuedOnce
    OBVIOUS
  <2>1. /\ ToSet(ready) \cup fresh \cup InHand
             = {t \in live \ {current, Idle} : state[t] = "ready"}
        /\ ToSet(terminated) = {t \in live : state[t] = "terminated"}
    BY DEF IInv, Placement
  <2>2. /\ state[current] # "terminated" /\ state[Idle] # "terminated"
    BY DEF IInv, Residents
  <2>3. QED
    BY <2>1, <2>2, HeldInHand DEF IInv, Placement, QueuedOnce
<1>2. QED
  BY <1>1, Invariance, PTL

(* No thread is lost: its state tells the one place it can be found in.    *)
THEOREM ThreadsFindable ==
  ASSUME SafePreempt
  PROVE  Spec => []NoThreadLost
<1>1. IInv => NoThreadLost
  <2> SUFFICES ASSUME IInv PROVE NoThreadLost
    OBVIOUS
  <2>1. state[current] = "running"
    BY DEF IInv, Residents
  <2>2. QED
    BY <2>1, HeldInHand DEF IInv, Placement, NoThreadLost
<1>2. QED
  BY <1>1, Invariance, PTL

(* A step marks only threads that were not terminated before: the one it   *)
(* runs next, queues or wakes was ready, running or blocked.               *)
LEMMA DeadStep ==
  ASSUME IInv, [Next]_vars, NEW t \in live, state[t] = "terminated"
  PROVE  state'[t] = "terminated" \/ t \notin live'
<1>1. /\ state \in [Thread -> {"ready", "running", "blocked", "terminated"}]
      /\ live \subseteq Thread /\ t \in Thread
      /\ state[current] = "running" /\ state[Idle] \in {"ready", "running"}
      /\ current \in live /\ Idle \in live
  BY DEF IInv, TypeOK, Residents
<1>2. t # current /\ t # Idle
  BY <1>1
<1>3. t \notin ToSet(ready) \cup fresh \cup InHand
  BY DEF IInv, Placement
<1>4. t # NextThread
  BY <1>2, <1>3, NextFacts
<1>5. CASE Tick
  BY <1>1, <1>2, <1>4, <1>5 DEF Tick
<1>6. ASSUME NEW u \in Worker, CreateStore(u) PROVE state'[t] = "terminated"
  <2>1. t # u /\ state' = [state EXCEPT ![u] = "ready"]
    BY <1>6 DEF CreateStore
  <2>2. QED
    BY <1>1, <2>1
<1>7. CASE YieldSwitch
  <2>1. t # call[current].thread
    BY <1>3, <1>7 DEF YieldSwitch, At, InHand
  <2>2. QED
    BY <1>1, <1>2, <1>7, <2>1 DEF YieldSwitch
<1>8. CASE UnblockWake
  <2>1. state[call[current].thread] = "blocked"
    BY <1>1, <1>8 DEF IInv, WakersAgree, Active, UnblockWake, At
  <2>2. t # call[current].thread
    BY <2>1
  <2>3. QED
    BY <1>1, <1>8, <2>2 DEF UnblockWake
<1>9. ASSUME NEW i \in DOMAIN ready, SweepUnlink(i) PROVE state'[t] = "terminated"
  BY <1>1, <1>9 DEF SweepUnlink
<1>10. CASE TerminateCurrent
  BY <1>1, <1>2, <1>4, <1>10 DEF TerminateCurrent
<1>11. CASE Block
  BY <1>1, <1>2, <1>4, <1>11 DEF Block
<1>12. ASSUME NEW u \in Thread, Enqueue(u) PROVE state'[t] = "terminated"
  BY <1>1, <1>3, <1>12 DEF Enqueue
<1>13. CASE state' = state
  BY <1>13
<1>14. CASE Continue
  <2>1. CASE ExitSelf
    BY <1>10, <2>1 DEF ExitSelf
  <2>2. CASE CreateFail \/ CreateLoad \/ DestroyStore \/ SweepBegin \/ SweepEnd \/ ExitReturn
    BY <1>13, <2>2 DEF CreateFail, CreateLoad, DestroyStore, SweepBegin, SweepEnd,
       ExitReturn, threadVars
  <2>3. QED
    BY <1>6, <1>7, <1>8, <1>9, <1>14, <2>1, <2>2 DEF Continue
<1>15. CASE Call
  <2>1. CASE Terminate
    BY <1>10, <2>1 DEF Terminate
  <2>2. CASE YieldDequeue \/ \E u \in Thread : DestroyLoad(u) \/ UnblockCheck(u)
    BY <1>13, <2>2 DEF YieldDequeue, DestroyLoad, UnblockCheck, threadVars
  <2>3. CASE \E p \in Proc : CreateCheck(p) \/ ProcessCreate(p) \/ ProcessDestroy(p)
                              \/ ExitMark(p)
    BY <1>13, <2>3 DEF CreateCheck, ProcessCreate, ProcessDestroy, ExitMark, threadVars
  <2>4. QED
    BY <1>11, <1>12, <1>15, <2>1, <2>2, <2>3 DEF Call
<1>16. CASE UNCHANGED vars
  BY <1>13, <1>16 DEF vars, threadVars
<1>17. QED
  BY <1>5, <1>14, <1>15, <1>16 DEF Next

(* No terminated thread is run, queued or woken again: once its state says *)
(* so, it says so until thread_reap_terminated frees the thread.           *)
THEOREM NoResurrection ==
  ASSUME SafePreempt
  PROVE  Spec => DeadStayDead
<1> DEFINE A == \A t \in live : state[t] = "terminated"
                   => t \notin live' \/ state'[t] = "terminated"
<1>1. IInv /\ [Next]_vars => [A]_vars
  BY DeadStep
<1>2. Spec => [][A]_vars
  BY <1>1, Invariance, PTL DEF Spec
<1>3. QED
  BY <1>2 DEF DeadStayDead


-----------------------------------------------------------------------------
(* The order of the ready queue.                                           *)

(* Only the first thread leaves with a dequeue, and only the one removed.  *)
LEMMA LeavesInOrder ==
  ASSUME NEW S, NEW s \in Seq(S), NEW j \in DOMAIN s
  PROVE  /\ s # <<>> /\ j > 1 => s[j] \in ToSet(Tail(s))
         /\ \A e \in S : s[j] \in ToSet(Append(s, e))
         /\ \A k \in DOMAIN s : s[j] \in ToSet(RemoveAt(s, k)) \/ s[j] = s[k]
<1>1. s[j] \in ToSet(s)
  BY DEF ToSet
<1>2. s # <<>> /\ j > 1 => s[j] \in ToSet(Tail(s))
  <2>1. SUFFICES ASSUME s # <<>>, j > 1 PROVE s[j] \in ToSet(Tail(s))
    OBVIOUS
  <2>2. /\ Len(s) \in Nat /\ j \in 1 .. Len(s)
        /\ DOMAIN Tail(s) = 1 .. Len(s) - 1
        /\ \A i \in 1 .. Len(s) - 1 : Tail(s)[i] = s[i + 1]
    BY <2>1, HeadTailProperties, LenProperties
  <2>3. j - 1 \in DOMAIN Tail(s) /\ Tail(s)[j - 1] = s[j]
    BY <2>1, <2>2
  <2>4. QED
    BY <2>3 DEF ToSet
<1>3. \A e \in S : s[j] \in ToSet(Append(s, e))
  BY <1>1, AppendFacts
<1>4. \A k \in DOMAIN s : s[j] \in ToSet(RemoveAt(s, k)) \/ s[j] = s[k]
  BY <1>1, RemoveFacts
<1>5. QED
  BY <1>2, <1>3, <1>4

(* Who is off the queue after a step was its head, or has been terminated. *)
LEMMA OrderStep ==
  ASSUME TypeOK, [Next]_vars, NEW j \in DOMAIN ready,
         j > 1, ready[j] \notin ToSet(ready')
  PROVE  state'[ready[j]] = "terminated"
<1>1. /\ ready \in Seq(Thread) /\ current \in Thread
      /\ state \in [Thread -> {"ready", "running", "blocked", "terminated"}]
      /\ call \in [Thread -> Calls]
      /\ ready[j] \in ToSet(ready)
  BY DEF TypeOK, ToSet
<1>2. ready # <<>>
  BY <1>1 DEF ToSet
<1>3. AfterDequeue = Tail(ready) /\ Tail(ready) \in Seq(Thread)
  BY <1>1, <1>2, DequeueFacts DEF AfterDequeue
<1>4. ready[j] \in ToSet(AfterDequeue)
  BY <1>1, <1>2, <1>3, LeavesInOrder
<1>5. ASSUME NEW t \in Thread PROVE ready[j] \in ToSet(Append(AfterDequeue, t))
  <2>1. AfterDequeue \in Seq(Thread)
    BY <1>3
  <2>2. ToSet(Append(AfterDequeue, t)) = ToSet(AfterDequeue) \cup {t}
    BY <2>1, AppendFacts
  <2>3. QED
    BY <2>2, <1>4
<1>6. \A t \in Thread : ready[j] \in ToSet(Append(ready, t))
  BY <1>1, LeavesInOrder
<1>7. ready' # ready /\ ready' # AfterDequeue
  BY <1>1, <1>4
<1>8. \A t \in Thread : ready' # Append(AfterDequeue, t) /\ ready' # Append(ready, t)
  BY <1>5, <1>6
<1>9. ~ Tick
  BY <1>1, <1>7, <1>8 DEF Tick
<1>10. ~ YieldSwitch
  BY <1>1, <1>7, <1>8 DEF YieldSwitch
<1>11. ~ UnblockWake
  <2>1. At("unblock") => call[current].thread \in Thread
    BY <1>1 DEF At, Calls
  <2>2. QED
    BY <2>1, <1>7, <1>8 DEF UnblockWake
<1>12. ~ TerminateCurrent /\ ~ Block
  BY <1>7 DEF TerminateCurrent, Block
<1>13. ~ YieldDequeue
  BY <1>2, <1>3, <1>7 DEF YieldDequeue
<1>14. \A t \in Thread : ~ Enqueue(t)
  BY <1>8 DEF Enqueue
<1>15. ASSUME NEW k \in DOMAIN ready, SweepUnlink(k) PROVE state'[ready[j]] = "terminated"
  <2>1. ready' = RemoveAt(ready, k) /\ state' = [state EXCEPT ![ready[k]] = "terminated"]
    BY <1>15 DEF SweepUnlink
  <2>2. ready[j] = ready[k] /\ ready[j] \in Thread
    BY <1>1, <2>1, LeavesInOrder
  <2>3. QED
    BY <1>1, <2>1, <2>2
<1>16. CASE Continue
  <2>1. ~ (CreateFail \/ CreateLoad \/ DestroyStore \/ SweepBegin \/ SweepEnd \/ ExitReturn)
    BY <1>7 DEF CreateFail, CreateLoad, DestroyStore, SweepBegin, SweepEnd, ExitReturn
  <2>2. ~ (\E t \in Worker : CreateStore(t)) /\ ~ ExitSelf
    BY <1>7, <1>12 DEF CreateStore, ExitSelf
  <2>3. QED
    BY <1>10, <1>11, <1>15, <1>16, <2>1, <2>2 DEF Continue
<1>17. ~ Call
  <2>1. ~ Terminate
    BY <1>12 DEF Terminate
  <2>2. ~ \E t \in Thread : DestroyLoad(t) \/ UnblockCheck(t)
    BY <1>7 DEF DestroyLoad, UnblockCheck
  <2>3. ~ \E p \in Proc : CreateCheck(p) \/ ProcessCreate(p) \/ ProcessDestroy(p) \/ ExitMark(p)
    BY <1>7 DEF CreateCheck, ProcessCreate, ProcessDestroy, ExitMark
  <2>4. QED
    BY <1>12, <1>13, <1>14, <2>1, <2>2, <2>3 DEF Call
<1>18. ~ UNCHANGED vars
  BY <1>7 DEF vars
<1>19. QED
  BY <1>9, <1>16, <1>17, <1>18 DEF Next

(* Dispatch is first in, first out, whichever windows the timer strikes    *)
(* in: nobody leaves the ready queue before those in front of it, but for  *)
(* threads that an exiting process takes with it.                          *)
THEOREM DispatchInOrder == Spec => NoOvertaking
<1> DEFINE A == \A i, j \in DOMAIN ready :
                  (i < j /\ ready[i] \in ToSet(ready') /\ ready[j] \notin ToSet(ready'))
                    => state'[ready[j]] = "terminated"
<1>1. TypeOK /\ [Next]_vars => [A]_vars
  <2>1. SUFFICES ASSUME TypeOK, [Next]_vars, NEW i \in DOMAIN ready, NEW j \in DOMAIN ready,
                        i < j, ready[j] \notin ToSet(ready')
                 PROVE  state'[ready[j]] = "terminated"
    OBVIOUS
  <2>2. DOMAIN ready = 1 .. Len(ready) /\ Len(ready) \in Nat
    BY <2>1, LenProperties DEF TypeOK
  <2>3. j > 1
    BY <2>1, <2>2
  <2>4. QED
    BY <2>1, <2>3, OrderStep
<1>2. Spec => [][A]_vars
  BY <1>1, TypeCorrect, PTL DEF Spec
<1>3. QED
  BY <1>2 DEF NoOvertaking

-----------------------------------------------------------------------------
(* What an exit hits.                                                      *)

(* The process that is being swept stays an exited one.                    *)
LEMMA SweepStep ==
  ASSUME SweepSafePreempt, IInv, SweepsExited, [Next]_vars
  PROVE  SweepsExited'
<1>1. /\ call \in [Thread -> Calls] /\ live \subseteq Thread /\ current \in live
      /\ state[current] = "running"
      /\ pstate \in [Proc -> {"running", "terminated"}]
  BY DEF IInv, TypeOK, Residents
<1>2. \A u \in live : u \in live' /\ Active(u)' => Active(u)
  BY DeadStep DEF Active
<1>3. Active(current)
  BY <1>1 DEF Active
<1>4. CASE call[current].at \notin {"exit", "sweep"}
  <2>1. \A u \in live : Active(u) => call[u].at \notin {"exit", "sweep"}
    BY <1>4 DEF SweepsExited
  <2>2. SUFFICES ASSUME NEW u \in live', Active(u)', call'[u].at \in {"exit", "sweep"}
                 PROVE  u = current' /\ pstate'[call'[u].process] = "terminated"
    BY DEF SweepsExited
  <2>3. CASE \E p \in Proc : ExitMark(p)
    <3>1. PICK p \in Proc : ExitMark(p)
      BY <2>3
    <3>2. /\ call' = [call EXCEPT ![current] = CallAt("exit", None, p, 0)]
          /\ pstate' = [pstate EXCEPT ![p] = "terminated"]
          /\ current' = current /\ live' = live
      BY <3>1 DEF ExitMark, Goto, threadVars
    <3>3. u = current
      BY <1>1, <1>2, <2>1, <2>2, <3>2
    <3>4. QED
      BY <1>1, <3>2, <3>3 DEF CallAt
  <2>4. CASE ~ \E p \in Proc : ExitMark(p)
    <3>1. \A v \in live : call'[v] = call[v] \/ call'[v].at \notin {"exit", "sweep"}
      <4>1. CASE call' = call
        BY <4>1
      <4>2. ASSUME NEW at, NEW t, NEW p, NEW n, Goto(at, t, p, n), at \notin {"exit", "sweep"}
            PROVE  \A v \in live : call'[v] = call[v] \/ call'[v].at \notin {"exit", "sweep"}
        BY <1>1, <4>2 DEF Goto, CallAt
      <4>3. CASE Return
        BY <4>3, <4>2, ReturnIsGoto
      <4>4. CASE Tick
        BY <4>1, <4>4 DEF Tick
      <4>5. CASE Continue
        <5>1. ~ SweepBegin /\ ~ SweepEnd /\ ~ \E i \in DOMAIN ready : SweepUnlink(i)
          BY <1>4 DEF SweepBegin, SweepEnd, SweepUnlink, At
        <5>2. CASE \E t \in Worker : CreateStore(t)
          BY <1>1, <5>2 DEF CreateStore, NoCall
        <5>3. CASE CreateLoad
          BY <4>2, <5>3 DEF CreateLoad
        <5>4. CASE CreateFail \/ DestroyStore \/ YieldSwitch \/ UnblockWake \/ ExitSelf
                     \/ ExitReturn
          BY <4>3, <5>4 DEF CreateFail, DestroyStore, YieldSwitch, UnblockWake, ExitSelf,
             ExitReturn
        <5>5. QED
          BY <4>5, <5>1, <5>2, <5>3, <5>4 DEF Continue
      <4>6. CASE Call
        <5>1. CASE Block \/ Terminate \/ (\E t \in Thread : Enqueue(t))
                     \/ \E p \in Proc : ProcessCreate(p) \/ ProcessDestroy(p)
          BY <4>1, <5>1 DEF Block, Terminate, Enqueue, ProcessCreate, ProcessDestroy
        <5>2. CASE YieldDequeue \/ (\E t \in Thread : DestroyLoad(t) \/ UnblockCheck(t))
                     \/ \E p \in Proc : CreateCheck(p)
          BY <4>2, <5>2 DEF YieldDequeue, DestroyLoad, UnblockCheck, CreateCheck
        <5>3. QED
          BY <4>6, <2>4, <5>1, <5>2 DEF Call
      <4>7. CASE UNCHANGED vars
        BY <4>1, <4>7 DEF vars
      <4>8. QED
        BY <4>4, <4>5, <4>6, <4>7 DEF Next
    <3>2. u \notin live
      BY <1>2, <2>1, <2>2, <3>1
    <3>3. \E t \in Worker : CreateStore(t)
      BY <2>2, <3>2 DEF Next, Continue, Call, Tick, CreateFail, CreateLoad, DestroyStore,
         YieldSwitch, UnblockWake, SweepBegin, SweepUnlink, SweepEnd, ExitSelf, ExitReturn,
         YieldDequeue, Block, Terminate, Enqueue, DestroyLoad, UnblockCheck, CreateCheck,
         ProcessCreate, ProcessDestroy, ExitMark, vars, threadVars
    <3>4. call'[u] = NoCall
      <4>1. PICK t \in Worker : CreateStore(t)
        BY <3>3
      <4>2. /\ call' = [call EXCEPT ![current] = NoCall, ![t] = NoCall]
            /\ live' = live \cup {t} /\ t \in Thread
        BY <4>1 DEF CreateStore, Thread
      <4>3. QED
        BY <1>1, <2>2, <3>2, <4>2
    <3>5. QED
      BY <2>2, <3>4 DEF NoCall
  <2>5. QED
    BY <2>3, <2>4
<1>5. CASE call[current].at \in {"exit", "sweep"}
  <2>1. ~ Tick /\ ~ CanCall
    BY <1>5 DEF Tick, CanCall, At, SweepSafePreempt
  <2>2. ~ Call
    BY <2>1 DEF Call, YieldDequeue, Block, Terminate, Enqueue, DestroyLoad, UnblockCheck,
       CreateCheck, ProcessCreate, ProcessDestroy, ExitMark
  <2>3. CASE SweepBegin \/ SweepEnd
    <3>1. /\ UNCHANGED <<current, live, state, pstate>>
          /\ \E at : call' = [call EXCEPT ![current] = CallAt(at, None, call[current].process, 0)]
      BY <2>3 DEF SweepBegin, SweepEnd, Goto, threadVars, processVars
    <3>2. /\ call'[current].process = call[current].process
          /\ \A u \in live : u # current => call'[u] = call[u]
      BY <1>1, <3>1 DEF CallAt
    <3>3. QED
      BY <1>1, <1>3, <1>5, <3>1, <3>2 DEF SweepsExited, Active
  <2>4. ASSUME NEW i \in DOMAIN ready, SweepUnlink(i) PROVE SweepsExited'
    <3>1. UNCHANGED <<current, live, pstate, call>>
      BY <2>4 DEF SweepUnlink, processVars
    <3>2. QED
      BY <1>2, <3>1 DEF SweepsExited
  <2>5. CASE UNCHANGED vars
    BY <2>5 DEF SweepsExited, Active, vars, threadVars, processVars
  <2>6. ~ (CreateFail \/ CreateLoad \/ DestroyStore \/ YieldSwitch \/ UnblockWake \/ ExitSelf
            \/ ExitReturn \/ \E t \in Worker : CreateStore(t))
    BY <1>5 DEF CreateFail, CreateLoad, DestroyStore, YieldSwitch, UnblockWake, ExitSelf,
       ExitReturn, CreateStore, At
  <2>7. QED
    BY <2>1, <2>2, <2>3, <2>4, <2>5, <2>6 DEF Next, Continue
<1>6. QED
  BY <1>4, <1>5

(* A queued thread is unlinked by the sweep of its own process only.       *)
LEMMA ExitStep ==
  ASSUME IInv, SweepsExited, [Next]_vars, NEW t \in ToSet(ready), t \in ToSet(terminated')
  PROVE  pstate[process[t]] = "terminated"
<1>1. /\ terminated \in Seq(Thread) /\ ready \in Seq(Thread) /\ current \in live
      /\ live \subseteq Thread /\ state[current] = "running"
      /\ call \in [Thread -> Calls]
  BY DEF IInv, TypeOK, Residents
<1>2. t \in live /\ t # current /\ state[t] = "ready" /\ t \notin ToSet(terminated)
  BY DEF IInv, Placement
<1>3. ~ UNCHANGED terminated
  BY <1>2
<1>4. ~ Tick
  <2>1. terminated' = <<current>> => ToSet(terminated') = {current}
    BY DEF ToSet
  <2>2. terminated' = <<>> => ToSet(terminated') = {}
    BY DEF ToSet
  <2>3. QED
    BY <1>2, <2>1, <2>2 DEF Tick
<1>5. ASSUME NEW u \in Thread, u # t PROVE terminated' # Append(terminated, u)
  <2>1. ToSet(Append(terminated, u)) = ToSet(terminated) \cup {u}
    BY <1>1, AppendFacts
  <2>2. QED
    BY <2>1, <1>2, <1>5
<1>6. ~ TerminateCurrent
  BY <1>1, <1>2, <1>5 DEF TerminateCurrent
<1>7. ~ UnblockWake
  <2>1. At("unblock") => call[current].thread \in Thread
                           /\ state[call[current].thread] = "blocked"
    BY <1>1 DEF IInv, WakersAgree, Active, At
  <2>2. call[current].thread # t \/ ~ At("unblock")
    BY <1>2, <2>1
  <2>3. QED
    BY <1>3, <1>5, <2>1, <2>2 DEF UnblockWake
<1>8. ASSUME NEW i \in DOMAIN ready, SweepUnlink(i) PROVE pstate[process[t]] = "terminated"
  <2>1. /\ call[current].at = "sweep" /\ terminated' = Append(terminated, ready[i])
        /\ process[ready[i]] = call[current].process
    BY <1>8 DEF SweepUnlink, At, FirstDoomed, Doomed
  <2>2. ready[i] \in Thread
    BY <1>1
  <2>3. t = ready[i]
    BY <1>5, <2>1, <2>2
  <2>4. QED
    BY <1>1, <2>1, <2>3 DEF SweepsExited, Active
<1>9. CASE Continue
  BY <1>3, <1>6, <1>7, <1>8, <1>9 DEF Continue, CreateFail, CreateLoad, CreateStore,
     DestroyStore, YieldSwitch, SweepBegin, SweepEnd, ExitSelf, ExitReturn
<1>10. ~ Call
  BY <1>3, <1>6 DEF Call, YieldDequeue, Block, Terminate, Enqueue, DestroyLoad, UnblockCheck,
     CreateCheck, ProcessCreate, ProcessDestroy, ExitMark
<1>11. ~ UNCHANGED vars
  BY <1>3 DEF vars
<1>12. QED
  BY <1>4, <1>9, <1>10, <1>11 DEF Next

(* process_exit terminates queued threads of the process it was called for *)
(* only, as long as the timer stays out of the window between its mark and *)
(* its sweep, where the process could be reaped and its memory reused.     *)
THEOREM ExitIsExact ==
  ASSUME SweepSafePreempt
  PROVE  Spec => ExitHitsOnlyExited
<1> DEFINE A == \A t \in ToSet(ready) : t \in ToSet(terminated')
                   => pstate[process[t]] = "terminated"
<1>1. SafePreempt
  BY DEF SweepSafePreempt, SafePreempt
<1>2. Init => SweepsExited
  BY DEF Init, SweepsExited, NoCall, Thread
<1>3. IInv /\ SweepsExited /\ [Next]_vars => SweepsExited'
  BY SweepStep
<1>4. IInv /\ SweepsExited /\ [Next]_vars => [A]_vars
  BY ExitStep
<1>5. Spec => [][A]_vars
  BY <1>1, <1>2, <1>3, <1>4, Invariance, PTL DEF Spec
<1>6. QED
  BY <1>5 DEF ExitHitsOnlyExited
=============================================================================
