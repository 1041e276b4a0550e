-------------------------- MODULE ThreadQueueProofs --------------------------
(***************************************************************************)
(* Proofs about ThreadQueues, for any threads and any ready queue at the   *)
(* start: as long as the timer interrupt keeps out of thread_enqueue and   *)
(* thread_dequeue, the links implement two FIFO queues.                    *)
(***************************************************************************)
EXTENDS ThreadQueues, SequenceTheorems, FiniteSetTheorems, WellFoundedInduction, TLAPS

-----------------------------------------------------------------------------
(* Numbers.                                                                *)

LEMMA Least ==
  ASSUME NEW T \in SUBSET Nat, T # {}
  PROVE  \E n \in T : \A m \in T : n <= m
<1> DEFINE Less == OpToRel(<, Nat)
<1>1. IsWellFoundedOn(Less, Nat)
  BY NatLessThanWellFounded, Zenon
<1>2. \A m, n \in Nat : <<m, n>> \in Less <=> m < n
  BY DEF OpToRel
<1> HIDE DEF Less
<1>3. PICK n \in T : \A m \in T : <<m, n>> \notin Less
  BY <1>1, WFMin
<1>4. \A m \in T : ~ (m < n)
  BY <1>2, <1>3
<1>5. \A m \in T : n <= m
  BY <1>4
<1>6. QED
  BY <1>5

LEMMA UpTo ==
  ASSUME NEW N \in Nat, NEW S, 0 \in S,
         \A n \in 0 .. N - 1 : n \in S => n + 1 \in S
  PROVE  0 .. N \subseteq S
<1> DEFINE T == {n \in 0 .. N : n \notin S}
<1>1. SUFFICES ASSUME T # {}  PROVE FALSE
  OBVIOUS
<1>2. PICK n \in T : \A m \in T : n <= m
  <2>1. T \in SUBSET Nat
    OBVIOUS
  <2> HIDE DEF T
  <2>2. QED
    BY <1>1, <2>1, Least
<1>3. n # 0 /\ n - 1 \in 0 .. N - 1 /\ n - 1 \notin T
  BY <1>2
<1>4. QED
  BY <1>3

-----------------------------------------------------------------------------
(* The invariant: r and q are the two queues.                              *)

LastOf(s) == IF s = <<>> THEN None ELSE s[Len(s)]

(* s is the list that begins with h and goes on along nx.                  *)
Linked(h, s, nx) ==
  /\ s \in Seq(Thread) /\ IsInjective(s)
  /\ h = IF s = <<>> THEN None ELSE s[1]
  /\ \A i \in 1 .. Len(s) : nx[s[i]] = IF i = Len(s) THEN None ELSE s[i + 1]

Enqueuing == {"enqueue", "first", "append", "settail"}
Dequeuing == {"dequeue", "advance", "emptied", "detach"}

(* What the running context is in: a call of the queues, for its return.   *)
Mode == IF Me.pc \in Enqueuing \cup Dequeuing THEN Me.ret ELSE Me.pc

PcNames ==
  {"enqueue", "first", "append", "settail", "dequeue", "advance", "emptied", "detach",
   "run", "yield", "unmask", "switch", "switchaway", "sweep",
   "chosen", "dispatch", "reap", "off"}

StateNames == {"new", "starting", "ready", "running", "blocked", "terminated", "freed"}

Contexts ==
  [pc : PcNames, masked : BOOLEAN, arg : Thread \cup {None}, ret : PcNames,
   prev : Thread \cup {None}, keep : Thread \cup {None}]

TypeOK ==
  /\ head \in Thread \cup {None} /\ tail \in Thread \cup {None}
  /\ thead \in Thread \cup {None} /\ ttail \in Thread \cup {None}
  /\ next \in [Thread -> Thread \cup {None}]
  /\ state \in [Thread -> StateNames]
  /\ current \in Thread
  /\ ctx \in [Thread \cup {Irq} -> Contexts]

(* One context at a time is inside a call, never the idle thread.          *)
OneInside ==
  /\ \A t \in Thread : t # Running \/ t = Idle => ctx[t].pc = "run"
  /\ Running = Irq <=> Mode \in {"chosen", "dispatch", "reap"}
  /\ \/ Me.pc \in Enqueuing /\ Me.ret \in {"run", "unmask", "switch", "dispatch"}
     \/ Me.pc \in Dequeuing /\ Me.ret \in {"yield", "switchaway", "chosen"}
     \/ Me.pc \in {"run", "yield", "unmask", "switch", "switchaway", "sweep",
                   "chosen", "dispatch", "reap"}

States ==
  /\ state[Idle] \notin {"ready", "terminated", "blocked"}
  /\ Mode \in {"run", "unmask", "yield", "sweep", "chosen", "reap"} => state[current] = "running"

Lists(r, q) ==
  /\ Linked(head, r, next) /\ Linked(thead, q, next)
  /\ ttail = LastOf(q)
  /\ \A t \in ToSet(r) : state[t] = "ready"
  /\ \A t \in ToSet(q) : state[t] = "terminated"

(* A thread that has left the ready queue to be run next.                  *)
Held(x, r) == x \in Thread /\ state[x] = "ready" /\ x \notin ToSet(r)

(* A loop over the list s has come to arg, with prev before it.            *)
Before(s, i) == IF i = 1 THEN None ELSE s[i - 1]
PlaceIn(s, x, p) == \E i \in 1 .. Len(s) : x = s[i] /\ p = Before(s, i)
Cursor(s) == Me.arg # None => PlaceIn(s, Me.arg, Me.prev)

(* Where the call in progress is.                                          *)
TailAt(r) ==
  CASE At("settail") -> r # <<>> /\ LastOf(r) = Me.arg
    [] At("emptied") -> r # <<>> => tail = LastOf(r)
    [] OTHER -> tail = LastOf(r)

EnqueueAt(r) ==
  /\ Me.pc \in Enqueuing => Me.arg \in Thread \ {Idle}
  /\ At("enqueue") => state[Me.arg] \notin {"ready", "terminated"}
  /\ At("enqueue") /\ Mode \in {"run", "unmask"} => Me.arg # current
  /\ Me.pc \in {"first", "append"} => Held(Me.arg, r) /\ next[Me.arg] = None
  /\ At("first") => tail = None
  /\ At("append") => tail # None
  /\ Mode \in {"switch", "dispatch"} =>
       /\ Me.keep = Idle \/ Held(Me.keep, r)
       /\ Me.pc \in Enqueuing => Me.keep # Me.arg

DequeueAt(r) ==
  /\ At("advance") => Me.arg = head /\ head # None
  /\ Me.pc \in {"emptied", "detach"} => Held(Me.arg, r)
  /\ Me.pc \in {"yield", "switchaway", "chosen"} => Me.arg = None \/ Held(Me.arg, r)

CallAt(r, q) ==
  /\ TailAt(r) /\ EnqueueAt(r) /\ DequeueAt(r)
  /\ At("sweep") => Cursor(r)
  /\ At("reap") => Cursor(q)

Inv(r, q) == TypeOK /\ OneInside /\ States /\ Lists(r, q) /\ CallAt(r, q)

-----------------------------------------------------------------------------
(* Following the links gives the list.                                     *)

LEMMA ThreadsFinite == IsFiniteSet(Thread) /\ Cardinality(Thread) \in Nat
<1>1. IsFiniteSet({Boot, Idle})
  <2>1. IsFiniteSet({} \cup {Boot})
    BY FS_EmptySet, FS_AddElement
  <2>2. IsFiniteSet(({} \cup {Boot}) \cup {Idle})
    BY <2>1, FS_AddElement
  <2>3. QED
    BY <2>2
<1>2. QED
  BY <1>1, ThreadsAssumption, FS_Union, FS_CardinalityType DEF Thread

(* A list without repetition is no longer than there are threads.          *)
LEMMA ListsAreShort ==
  ASSUME NEW s \in Seq(Thread), IsInjective(s)
  PROVE  Len(s) <= Cardinality(Thread)
<1>1. Len(s) \in Nat /\ s \in [1 .. Len(s) -> Thread]
  OBVIOUS
<1>2. IsFiniteSet(1 .. Len(s)) /\ Cardinality(1 .. Len(s)) = Len(s)
  BY <1>1, FS_Interval
<1>3. s \in Injection(1 .. Len(s), Thread)
  BY <1>1 DEF Injection, IsInjective
<1>4. QED
  BY <1>2, <1>3, ThreadsFinite, FS_Injection

Walk(nx, t) ==
  LET walk[i \in 0 .. Cardinality(Thread)] ==
        IF i = 0 THEN IF t = None THEN <<>> ELSE <<t>>
        ELSE LET w == walk[i - 1] IN
             IF Len(w) < i \/ nx[Last(w)] = None THEN w ELSE Append(w, nx[Last(w)])
  IN walk[Cardinality(Thread)]

LEMMA SomeLength ==
  ASSUME NEW s \in Seq(Thread), s # <<>>
  PROVE  Len(s) \in Nat /\ Len(s) > 0
  BY EmptySeq

LEMMA PrefixFacts ==
  ASSUME NEW s \in Seq(Thread), NEW i \in 1 .. Len(s)
  PROVE  /\ Len(SubSeq(s, 1, i)) = i /\ Last(SubSeq(s, 1, i)) = s[i]
         /\ i < Len(s) => SubSeq(s, 1, i + 1) = Append(SubSeq(s, 1, i), s[i + 1])
         /\ SubSeq(s, 1, Len(s)) = s /\ SubSeq(s, 1, 1) = <<s[1]>>
<1> DEFINE n == Len(s)
           z == SubSeq(s, 1, i)
<1>1. n \in Nat /\ \A k \in 1 .. n : s[k] \in Thread
  OBVIOUS
<1>2. z \in Seq(Thread) /\ Len(z) = i /\ \A k \in 1 .. i : z[k] = s[k]
  BY SubSeqProperties
<1>3. Last(z) = s[i]
  BY <1>2 DEF Last
<1>4. ASSUME i < n  PROVE SubSeq(s, 1, i + 1) = Append(z, s[i + 1])
  <2> DEFINE y == SubSeq(s, 1, i + 1)
  <2>1. i + 1 \in 1 .. n /\ s[i + 1] \in Thread
    BY <1>1, <1>4
  <2>2. y \in Seq(Thread) /\ Len(y) = i + 1 /\ \A k \in 1 .. i + 1 : y[k] = s[k]
    BY <2>1, SubSeqProperties
  <2> HIDE DEF y, z, n
  <2>3. /\ Append(z, s[i + 1]) \in Seq(Thread) /\ Len(Append(z, s[i + 1])) = i + 1
        /\ \A k \in 1 .. i + 1 : Append(z, s[i + 1])[k] = s[k]
    BY <1>2, <2>1
  <2>4. y = Append(z, s[i + 1])
    BY <2>2, <2>3, SeqEqual
  <2>5. QED
    BY <2>4 DEF y
<1>5. SubSeq(s, 1, 1) = <<s[1]>>
  <2> DEFINE y == SubSeq(s, 1, 1)
             o == <<s[1]>>
  <2>1. y \in Seq(Thread) /\ Len(y) = 1 /\ \A k \in 1 .. 1 : y[k] = s[k]
    BY <1>1, SubSeqProperties
  <2>2. o \in Seq(Thread) /\ Len(o) = 1 /\ \A k \in 1 .. 1 : o[k] = s[k]
    BY <1>1
  <2> HIDE DEF y, o
  <2>3. y = o
    BY <2>1, <2>2, SeqEqual
  <2>4. QED
    BY <2>3 DEF y, o
<1>6. QED
  BY <1>2, <1>3, <1>4, <1>5, SubSeqFull

LEMMA WalkIsList ==
  ASSUME NEW h, NEW s, NEW nx, Linked(h, s, nx)
  PROVE  Walk(nx, h) = s
<1> DEFINE N == Cardinality(Thread)
           n == Len(s)
           Goes(w, i) == IF i = 0 THEN IF h = None THEN <<>> ELSE <<h>>
                         ELSE IF Len(w[i - 1]) < i \/ nx[Last(w[i - 1])] = None
                              THEN w[i - 1]
                              ELSE Append(w[i - 1], nx[Last(w[i - 1])])
           f == [i \in 0 .. N |-> IF i < n THEN SubSeq(s, 1, i + 1) ELSE s]
<1>1. /\ s \in Seq(Thread) /\ n \in Nat /\ s \in [1 .. n -> Thread]
      /\ n <= N /\ N \in Nat
      /\ h = IF s = <<>> THEN None ELSE s[1]
      /\ \A i \in 1 .. n : nx[s[i]] = IF i = n THEN None ELSE s[i + 1]
  BY ListsAreShort, ThreadsFinite DEF Linked
<1> HIDE DEF N
<1>2. None \notin Thread
  BY ThreadsAssumption
<1>3. /\ s # <<>> => n > 0
      /\ n > 0 => SubSeq(s, 1, 1) = <<s[1]>>
      /\ \A i \in 1 .. n :
           /\ Len(SubSeq(s, 1, i)) = i /\ Last(SubSeq(s, 1, i)) = s[i]
           /\ i < n => SubSeq(s, 1, i + 1) = Append(SubSeq(s, 1, i), s[i + 1])
           /\ SubSeq(s, 1, n) = s /\ SubSeq(s, 1, 1) = <<s[1]>>
  <2> HIDE DEF f, Goes
  <2>1. \A i \in 1 .. n :
           /\ Len(SubSeq(s, 1, i)) = i /\ Last(SubSeq(s, 1, i)) = s[i]
           /\ i < n => SubSeq(s, 1, i + 1) = Append(SubSeq(s, 1, i), s[i + 1])
           /\ SubSeq(s, 1, n) = s /\ SubSeq(s, 1, 1) = <<s[1]>>
    BY <1>1, PrefixFacts
  <2>2. s # <<>> => n > 0
    BY <1>1, SomeLength
  <2>3. n > 0 => SubSeq(s, 1, 1) = <<s[1]>>
    <3> HIDE DEF n
    <3>1. n > 0 => 1 \in 1 .. n
      BY <1>1
    <3>2. QED
      BY <2>1, <3>1
  <2>4. QED
    BY <2>1, <2>2, <2>3
<1> HIDE DEF n
<1>4. ASSUME NEW i \in 0 .. N  PROVE f[i] = Goes(f, i)
  <2>1. CASE i = 0
    <3>1. CASE s = <<>>
      <4>1. n = 0 /\ f[0] = s
        BY <1>1, <3>1 DEF n
      <4>2. QED
        BY <1>1, <2>1, <3>1, <4>1
    <3>2. CASE s # <<>>
      <4>1. n > 0
        BY <1>3, <3>2
      <4>2. SubSeq(s, 1, 1) = <<s[1]>>
        BY <1>3, <4>1
      <4>3. f[0] = <<s[1]>> /\ h = s[1] /\ h # None
        BY <1>1, <1>2, <3>2, <4>1, <4>2
      <4>4. QED
        BY <2>1, <4>3
    <3>3. QED
      BY <3>1, <3>2
  <2>2. CASE i # 0
    <3> DEFINE w == f[i - 1]
    <3>1. i - 1 \in 0 .. N /\ i \in Nat /\ i > 0
      BY <1>1, <2>2
    <3>2. w = IF i - 1 < n THEN SubSeq(s, 1, (i - 1) + 1) ELSE s
      BY <3>1
    <3>3. f[i] = IF i < n THEN SubSeq(s, 1, i + 1) ELSE s
      OBVIOUS
    <3>4. Goes(f, i) = IF Len(w) < i \/ nx[Last(w)] = None THEN w ELSE Append(w, nx[Last(w)])
      BY <2>2
    <3> HIDE DEF f, w, Goes
    <3>5. CASE i < n
      <4>1. w = SubSeq(s, 1, i) /\ i \in 1 .. n
        BY <1>1, <3>1, <3>2, <3>5
      <4>2. nx[s[i]] = s[i + 1] /\ s[i + 1] # None
        BY <1>1, <1>2, <3>1, <3>5
      <4>3. Len(w) = i /\ Last(w) = s[i] /\ SubSeq(s, 1, i + 1) = Append(w, s[i + 1])
        BY <1>3, <3>5, <4>1
      <4>4. ~ (Len(w) < i) /\ nx[Last(w)] = s[i + 1]
        BY <3>1, <4>2, <4>3
      <4>5. f[i] = SubSeq(s, 1, i + 1)
        BY <3>3, <3>5
      <4>6. QED
        BY <3>4, <4>2, <4>3, <4>4, <4>5, Zenon
    <3>6. CASE i = n
      <4>1. w = SubSeq(s, 1, i) /\ i \in 1 .. n
        BY <1>1, <3>1, <3>2, <3>6
      <4>2. nx[s[i]] = None
        BY <1>1, <3>6, <4>1
      <4>3. Len(w) = i /\ Last(w) = s[i] /\ w = s
        BY <1>3, <3>6, <4>1
      <4>4. QED
        BY <1>1, <3>1, <3>3, <3>4, <3>6, <4>2, <4>3
    <3>7. CASE i > n
      <4>1. w = s
        BY <1>1, <3>1, <3>2, <3>7
      <4>2. Len(w) < i
        BY <4>1, <3>7 DEF n
      <4>3. QED
        BY <1>1, <3>1, <3>3, <3>4, <3>7, <4>1, <4>2
    <3>8. QED
      BY <1>1, <3>1, <3>5, <3>6, <3>7
  <2>3. QED
    BY <2>1, <2>2
<1>5. f = [i \in 0 .. N |-> Goes(f, i)]
  <2> DEFINE g == [i \in 0 .. N |-> Goes(f, i)]
  <2>1. \A i \in 0 .. N : f[i] = g[i]
    BY <1>4, Zenon
  <2>2. f = [i \in 0 .. N |-> f[i]] /\ g = [i \in 0 .. N |-> g[i]]
    OBVIOUS
  <2> HIDE DEF f, g
  <2>3. f = g
    BY <2>1, <2>2
  <2>4. QED
    BY <2>3 DEF g
<1> DEFINE walk == CHOOSE w : w = [i \in 0 .. N |-> Goes(w, i)]
<1>6. walk = [i \in 0 .. N |-> Goes(walk, i)]
  <2> HIDE DEF f, Goes
  <2>1. QED
    BY <1>5, Zenon
<1>7. \A i \in 0 .. N : f[i] = Goes(f, i) /\ walk[i] = Goes(walk, i)
  <2> HIDE DEF walk, f, Goes
  <2>1. QED
    BY <1>4, <1>6
<1>8. 0 .. N \subseteq {i \in 0 .. N : walk[i] = f[i]}
  <2> DEFINE S == {i \in 0 .. N : walk[i] = f[i]}
  <2>1. 0 \in S
    <3>1. walk[0] = Goes(walk, 0) /\ f[0] = Goes(f, 0) /\ 0 \in 0 .. N
      <4> HIDE DEF walk, f, Goes
      <4>1. QED
        BY <1>1, <1>7
    <3> HIDE DEF walk, f
    <3>2. QED
      BY <3>1
  <2>2. ASSUME NEW m \in 0 .. N - 1, m \in S  PROVE m + 1 \in S
    <3>1. m + 1 \in 0 .. N /\ (m + 1) - 1 = m /\ m + 1 # 0
      BY <1>1
    <3>2. walk[m + 1] = Goes(walk, m + 1) /\ f[m + 1] = Goes(f, m + 1)
      <4> HIDE DEF walk, f, Goes
      <4>1. QED
        BY <1>7, <3>1
    <3>3. walk[m] = f[m]
      BY <2>2
    <3> HIDE DEF walk, f
    <3>4. Goes(walk, m + 1) = Goes(f, m + 1)
      BY <3>1, <3>3
    <3>5. QED
      BY <3>1, <3>2, <3>4
  <2> HIDE DEF S
  <2>3. 0 .. N \subseteq S
    BY <1>1, <2>1, <2>2, UpTo
  <2>4. QED
    BY <2>3 DEF S
<1>9. walk[N] = f[N]
  <2> HIDE DEF walk, f
  <2>1. QED
    BY <1>1, <1>8
<1>10. f[N] = s
  BY <1>1
<1>11. Walk(nx, h) = walk[N]
  BY Zenon DEF Walk, N
<1>12. QED
  BY <1>9, <1>10, <1>11

-----------------------------------------------------------------------------
(* What the steps do to a list.                                            *)

LEMMA ListFacts ==
  ASSUME NEW h, NEW s, NEW nx, Linked(h, s, nx)
  PROVE  /\ s \in Seq(Thread) /\ Len(s) \in Nat
         /\ \A i \in 1 .. Len(s) : /\ s[i] \in Thread /\ s[i] # None /\ s[i] \in ToSet(s)
                                   /\ nx[s[i]] = IF i = Len(s) THEN None ELSE s[i + 1]
         /\ \A i, j \in 1 .. Len(s) : s[i] = s[j] => i = j
         /\ \A x \in ToSet(s) : \E i \in 1 .. Len(s) : x = s[i]
         /\ ToSet(s) \subseteq Thread /\ None \notin ToSet(s)
         /\ IF s = <<>> THEN Len(s) = 0 /\ h = None /\ ToSet(s) = {}
                        ELSE Len(s) > 0 /\ h = s[1] /\ h # None /\ h \in ToSet(s)
<1>1. /\ s \in Seq(Thread) /\ Len(s) \in Nat /\ DOMAIN s = 1 .. Len(s)
      /\ \A i \in 1 .. Len(s) : s[i] \in Thread
      /\ None \notin Thread
  BY ThreadsAssumption DEF Linked
<1>2. s # <<>> => Len(s) > 0
  BY <1>1, SomeLength
<1>3. s = <<>> => Len(s) = 0
  BY <1>1
<1>4. \A i, j \in 1 .. Len(s) : s[i] = s[j] => i = j
  BY <1>1 DEF Linked, IsInjective
<1>5. ToSet(s) = {s[i] : i \in 1 .. Len(s)}
  BY <1>1 DEF ToSet
<1>6. \A i \in 1 .. Len(s) : nx[s[i]] = IF i = Len(s) THEN None ELSE s[i + 1]
  BY DEF Linked
<1>7. h = IF s = <<>> THEN None ELSE s[1]
  BY DEF Linked
<1>8. s # <<>> => 1 \in 1 .. Len(s)
  BY <1>1, <1>2
<1>9. /\ ToSet(s) \subseteq Thread /\ None \notin ToSet(s)
      /\ \A i \in 1 .. Len(s) : s[i] # None /\ s[i] \in ToSet(s)
      /\ \A x \in ToSet(s) : \E i \in 1 .. Len(s) : x = s[i]
  BY <1>1, <1>5
<1>10. s = <<>> => ToSet(s) = {}
  BY <1>1, <1>3, <1>5
<1>11. s # <<>> => h = s[1] /\ h # None /\ h \in ToSet(s)
  BY <1>7, <1>8, <1>9
<1>12. QED
  BY <1>1, <1>2, <1>3, <1>4, <1>6, <1>7, <1>9, <1>10, <1>11

LEMMA ListEnds ==
  ASSUME NEW h, NEW s, NEW nx, Linked(h, s, nx)
  PROVE  /\ s # <<>> => LastOf(s) \in ToSet(s) /\ LastOf(s) # None
         /\ s = <<>> => LastOf(s) = None
         /\ (h = None <=> s = <<>>)
<1>1. /\ Len(s) \in Nat
      /\ \A i \in 1 .. Len(s) : s[i] # None /\ s[i] \in ToSet(s)
      /\ IF s = <<>> THEN h = None ELSE Len(s) > 0 /\ h # None
  BY ListFacts
<1>2. s # <<>> => Len(s) \in 1 .. Len(s)
  BY <1>1
<1>3. QED
  BY <1>1, <1>2 DEF LastOf

(* How to show that a sequence is a list.                                  *)
LEMMA ListFrom ==
  ASSUME NEW h, NEW s \in Seq(Thread), NEW nx,
         \A i, j \in 1 .. Len(s) : s[i] = s[j] => i = j,
         h = IF s = <<>> THEN None ELSE s[1],
         \A i \in 1 .. Len(s) : nx[s[i]] = IF i = Len(s) THEN None ELSE s[i + 1]
  PROVE  Linked(h, s, nx)
<1>1. DOMAIN s = 1 .. Len(s)
  OBVIOUS
<1>2. IsInjective(s)
  BY <1>1 DEF IsInjective
<1>3. QED
  BY <1>2 DEF Linked

(* Links of other threads do not matter.                                   *)
LEMMA SameList ==
  ASSUME NEW h, NEW s, NEW nx, NEW ny, Linked(h, s, nx),
         \A x \in ToSet(s) : ny[x] = nx[x]
  PROVE  Linked(h, s, ny)
<1>1. \A i \in 1 .. Len(s) : s[i] \in ToSet(s)
  BY ListFacts
<1>2. QED
  BY <1>1 DEF Linked

LEMMA AppendFacts ==
  ASSUME NEW s \in Seq(Thread), NEW t \in Thread, NEW z, z = Append(s, t)
  PROVE  /\ LastOf(z) = t /\ z # <<>>
         /\ ToSet(z) = ToSet(s) \cup {t}
<1> DEFINE n == Len(s)
<1>1. n \in Nat
  OBVIOUS
<1>2. /\ z \in Seq(Thread) /\ Len(z) = n + 1 /\ z[n + 1] = t
      /\ \A i \in 1 .. n : z[i] = s[i]
  OBVIOUS
<1>3. z # <<>>
  BY <1>1, <1>2
<1>4. LastOf(z) = t
  BY <1>2, <1>3 DEF LastOf
<1>5. ToSet(z) = {z[i] : i \in 1 .. n + 1} /\ ToSet(s) = {s[i] : i \in 1 .. n}
  BY <1>2 DEF ToSet
<1>6. ToSet(z) = ToSet(s) \cup {t}
  <2>1. \A i \in 1 .. n + 1 : i = n + 1 \/ i \in 1 .. n
    BY <1>1
  <2>2. 1 .. n \subseteq 1 .. n + 1 /\ n + 1 \in 1 .. n + 1
    BY <1>1
  <2> HIDE DEF n
  <2>3. \A x : x \in ToSet(z) => x \in ToSet(s) \cup {t}
    BY <1>2, <1>5, <2>1
  <2>4. \A x \in ToSet(s) \cup {t} : x \in ToSet(z)
    BY <1>2, <1>5, <2>2
  <2>5. QED
    BY <2>3, <2>4
<1>7. QED
  BY <1>3, <1>4, <1>6

LEMMA LongerList ==
  ASSUME NEW h, NEW s, NEW nx, NEW ny, NEW t \in Thread,
         Linked(h, s, nx), t \notin ToSet(s),
         ny[t] = None,
         s # <<>> => ny[LastOf(s)] = t,
         \A x \in ToSet(s) : x # LastOf(s) => ny[x] = nx[x],
         NEW z, z = Append(s, t), NEW g, s = <<>> => g = t, s # <<>> => g = h
  PROVE  Linked(g, z, ny)
<1> DEFINE n == Len(s)
<1>1. /\ s \in Seq(Thread) /\ n \in Nat
      /\ \A i \in 1 .. n : s[i] \in Thread /\ s[i] # None /\ s[i] \in ToSet(s)
      /\ \A i \in 1 .. n : nx[s[i]] = IF i = n THEN None ELSE s[i + 1]
      /\ \A i, j \in 1 .. n : s[i] = s[j] => i = j
      /\ \A x \in ToSet(s) : \E i \in 1 .. n : x = s[i]
      /\ IF s = <<>> THEN n = 0 /\ h = None /\ ToSet(s) = {} ELSE n > 0 /\ h = s[1]
  BY ListFacts
<1>2. /\ z \in Seq(Thread) /\ Len(z) = n + 1 /\ z[n + 1] = t
      /\ \A i \in 1 .. n : z[i] = s[i]
  BY <1>1
<1>3. z # <<>>
  BY <1>1, <1>2
<1>4. s # <<>> => LastOf(s) = s[n]
  BY DEF LastOf
<1>7. \A i, j \in 1 .. n + 1 : z[i] = z[j] => i = j
  <2>1. \A i \in 1 .. n : z[i] # t
    BY <1>1, <1>2
  <2>2. \A i \in 1 .. n + 1 : i = n + 1 \/ i \in 1 .. n
    BY <1>1
  <2> HIDE DEF n
  <2>3. QED
    BY <1>1, <1>2, <2>1, <2>2
<1>8. ASSUME NEW i \in 1 .. n + 1  PROVE ny[z[i]] = IF i = n + 1 THEN None ELSE z[i + 1]
  <2>1. CASE i = n + 1
    BY <1>2, <2>1
  <2>2. CASE i = n /\ i # n + 1
    <3>1. i \in 1 .. n /\ s # <<>> /\ z[i + 1] = t /\ z[i] = s[n]
      BY <1>1, <1>2, <2>2
    <3>2. QED
      BY <1>4, <2>2, <3>1
  <2>3. CASE i \in 1 .. n /\ i # n
    <3>1. i \in 1 .. n /\ i + 1 \in 1 .. n /\ n \in 1 .. n /\ s # <<>>
      BY <1>1, <2>3
    <3>2. s[i] # LastOf(s) /\ s[i] \in ToSet(s) /\ nx[s[i]] = s[i + 1]
      BY <1>1, <1>4, <2>3, <3>1
    <3>3. z[i] = s[i] /\ z[i + 1] = s[i + 1]
      BY <1>2, <3>1
    <3>4. i # n + 1
      BY <1>1, <2>3
    <3>5. QED
      BY <3>2, <3>3, <3>4
  <2>4. QED
    BY <1>1, <2>1, <2>2, <2>3
<1>9. g = IF z = <<>> THEN None ELSE z[1]
  <2>1. s # <<>> => 1 \in 1 .. n
    BY <1>1
  <2>2. s = <<>> => n + 1 = 1
    BY <1>1
  <2> HIDE DEF n
  <2>3. QED
    BY <1>1, <1>2, <1>3, <2>1, <2>2
<1>10. Linked(g, z, ny)
  <2>1. /\ \A i, j \in 1 .. Len(z) : z[i] = z[j] => i = j
        /\ \A i \in 1 .. Len(z) : ny[z[i]] = IF i = Len(z) THEN None ELSE z[i + 1]
    BY <1>2, <1>7, <1>8
  <2> HIDE DEF n
  <2>2. QED
    BY <1>2, <1>9, <2>1, ListFrom
<1>11. QED
  BY <1>10

(* A list without the thread at i, which the one before it skips.          *)
Skips(s, i, nx, ny) ==
  \A x \in ToSet(s) \ {s[i]} : ny[x] = IF i > 1 /\ x = s[i - 1] THEN nx[s[i]] ELSE nx[x]

Cut(s, i, z) ==
  /\ Len(z) = Len(s) - 1
  /\ \A k \in 1 .. Len(s) - 1 : z[k] = IF k < i THEN s[k] ELSE s[k + 1]

Without(h, s, i, nx, ny, z) ==
  /\ Linked(IF i = 1 THEN nx[s[1]] ELSE h, z, ny)
  /\ LastOf(z) = IF i # Len(s) THEN LastOf(s) ELSE Before(s, i)
  /\ ToSet(z) = ToSet(s) \ {s[i]}
  /\ Cut(s, i, z)

LEMMA ShorterList ==
  ASSUME NEW h, NEW s, NEW nx, NEW ny, NEW i \in 1 .. Len(s), Linked(h, s, nx),
         Skips(s, i, nx, ny), NEW z, z = RemoveAt(s, i)
  PROVE  Without(h, s, i, nx, ny, z)
<1> DEFINE n == Len(s)
<1>1. /\ s \in Seq(Thread) /\ n \in Nat
      /\ \A k \in 1 .. n : s[k] \in Thread /\ s[k] # None /\ s[k] \in ToSet(s)
      /\ \A k \in 1 .. n : nx[s[k]] = IF k = n THEN None ELSE s[k + 1]
      /\ \A j, k \in 1 .. n : s[j] = s[k] => j = k
      /\ \A x \in ToSet(s) : \E k \in 1 .. n : x = s[k]
      /\ s # <<>> /\ n > 0 /\ h = s[1]
  <2>1. /\ s \in Seq(Thread) /\ n \in Nat
        /\ \A k \in 1 .. n : s[k] \in Thread /\ s[k] # None /\ s[k] \in ToSet(s)
        /\ \A k \in 1 .. n : nx[s[k]] = IF k = n THEN None ELSE s[k + 1]
        /\ \A j, k \in 1 .. n : s[j] = s[k] => j = k
        /\ \A x \in ToSet(s) : \E k \in 1 .. n : x = s[k]
        /\ IF s = <<>> THEN n = 0 ELSE n > 0 /\ h = s[1]
    BY ListFacts
  <2>2. n # 0
    BY <2>1
  <2>3. s # <<>>
    BY <2>1, <2>2
  <2>4. QED
    BY <2>1, <2>3
<1>2. /\ z \in Seq(Thread) /\ Len(z) = n - 1
      /\ \A k \in 1 .. n - 1 : z[k] = IF k < i THEN s[k] ELSE s[k + 1]
  <2> DEFINE a == SubSeq(s, 1, i - 1)
             b == SubSeq(s, i + 1, n)
  <2>1. a \in Seq(Thread) /\ Len(a) = i - 1 /\ \A k \in 1 .. i - 1 : a[k] = s[k]
    BY <1>1, SubSeqProperties
  <2>2. b \in Seq(Thread) /\ Len(b) = n - i /\ \A k \in 1 .. n - i : b[k] = s[k + i]
    BY <1>1, SubSeqProperties
  <2>3. z = a \o b
    BY DEF RemoveAt
  <2> HIDE DEF a, b, n
  <2>4. /\ z \in Seq(Thread) /\ Len(z) = n - 1
        /\ \A k \in 1 .. n - 1 : z[k] = IF k <= i - 1 THEN a[k] ELSE b[k - (i - 1)]
    <3>1. /\ a \o b \in Seq(Thread) /\ Len(a \o b) = Len(a) + Len(b)
          /\ \A k \in 1 .. Len(a) + Len(b) :
               (a \o b)[k] = IF k <= Len(a) THEN a[k] ELSE b[k - Len(a)]
      BY <2>1, <2>2, ConcatProperties
    <3>2. Len(a) + Len(b) = n - 1
      BY <1>1, <2>1, <2>2
    <3>3. QED
      BY <2>1, <2>3, <3>1, <3>2
  <2>5. ASSUME NEW k \in 1 .. n - 1  PROVE z[k] = IF k < i THEN s[k] ELSE s[k + 1]
    <3>1. CASE k < i
      BY <2>1, <2>4, <3>1
    <3>2. CASE ~ (k < i)
      <4>1. k - (i - 1) \in 1 .. n - i /\ (k - (i - 1)) + i = k + 1 /\ ~ (k <= i - 1)
        BY <1>1, <3>2
      <4>2. QED
        BY <2>2, <2>4, <3>2, <4>1
    <3>3. QED
      BY <3>1, <3>2
  <2>6. QED
    BY <2>4, <2>5
<1>3. DOMAIN z = 1 .. n - 1 /\ (z = <<>> <=> n = 1)
  BY <1>1, <1>2
<1>4. ToSet(z) = ToSet(s) \ {s[i]}
  <2>1. ToSet(z) = {z[k] : k \in 1 .. n - 1}
    BY <1>3 DEF ToSet
  <2>2. ASSUME NEW k \in 1 .. n - 1  PROVE z[k] \in ToSet(s) \ {s[i]}
    <3>1. CASE k < i
      BY <1>1, <1>2, <3>1
    <3>2. CASE ~ (k < i)
      <4>1. k + 1 \in 1 .. n /\ k + 1 # i /\ z[k] = s[k + 1]
        BY <1>1, <1>2, <3>2
      <4>2. QED
        BY <1>1, <4>1
    <3>3. QED
      BY <3>1, <3>2
  <2>3. ASSUME NEW x \in ToSet(s) \ {s[i]}  PROVE x \in ToSet(z)
    <3>1. PICK k \in 1 .. n : x = s[k]
      BY <1>1
    <3>2. CASE k < i
      <4>1. k \in 1 .. n - 1 /\ z[k] = s[k]
        BY <1>1, <1>2, <3>2
      <4>2. QED
        BY <2>1, <3>1, <4>1
    <3>3. CASE ~ (k < i)
      <4>1. k - 1 \in 1 .. n - 1 /\ ~ (k - 1 < i) /\ (k - 1) + 1 = k
        BY <1>1, <2>3, <3>1, <3>3
      <4>2. z[k - 1] = s[k]
        BY <1>2, <4>1
      <4>3. QED
        BY <2>1, <3>1, <4>1, <4>2
    <3>4. QED
      BY <3>2, <3>3
  <2>4. QED
    BY <2>1, <2>2, <2>3
<1>5. \A j, k \in 1 .. n - 1 : z[j] = z[k] => j = k
  <2>1. SUFFICES ASSUME NEW j \in 1 .. n - 1, NEW k \in 1 .. n - 1, z[j] = z[k]  PROVE j = k
    OBVIOUS
  <2>2. /\ j \in 1 .. n /\ j + 1 \in 1 .. n /\ k \in 1 .. n /\ k + 1 \in 1 .. n
    BY <1>1
  <2>3. QED
    BY <1>1, <1>2, <2>1, <2>2
<1>6. ASSUME NEW k \in 1 .. n - 1  PROVE ny[z[k]] = IF k = n - 1 THEN None ELSE z[k + 1]
  <2>1. z[k] \in ToSet(s) \ {s[i]}
    BY <1>3, <1>4 DEF ToSet
  <2>2. ny[z[k]] = IF i > 1 /\ z[k] = s[i - 1] THEN nx[s[i]] ELSE nx[z[k]]
    BY <2>1 DEF Skips
  <2>3. CASE k + 1 < i
    <3>1. /\ k \in 1 .. n /\ i - 1 \in 1 .. n /\ k # i - 1 /\ k + 1 \in 1 .. n - 1
          /\ k # n - 1 /\ k < i
      BY <1>1, <2>3
    <3>2. z[k] = s[k] /\ z[k + 1] = s[k + 1] /\ s[k] # s[i - 1] /\ nx[s[k]] = s[k + 1]
      BY <1>1, <1>2, <2>3, <3>1
    <3>3. QED
      BY <2>2, <3>1, <3>2
  <2>4. CASE k + 1 = i
    <3>1. k < i /\ i > 1 /\ i - 1 = k /\ (k = n - 1 <=> i = n) /\ (i # n => i \in 1 .. n - 1)
      BY <1>1, <2>4
    <3>2. ny[z[k]] = nx[s[i]]
      BY <1>2, <2>2, <3>1
    <3>3. i # n => z[k + 1] = s[i + 1]
      BY <1>2, <2>4, <3>1
    <3>4. nx[s[i]] = IF i = n THEN None ELSE s[i + 1]
      BY <1>1
    <3>5. QED
      BY <3>1, <3>2, <3>3, <3>4
  <2>5. CASE k + 1 > i
    <3>1. /\ ~ (k < i) /\ k + 1 \in 1 .. n /\ k + 1 # i - 1 /\ (k = n - 1 <=> k + 1 = n)
          /\ (i > 1 => i - 1 \in 1 .. n)
          /\ (k # n - 1 => k + 1 \in 1 .. n - 1 /\ ~ (k + 1 < i))
      BY <1>1, <2>5
    <3>2. z[k] = s[k + 1] /\ (i > 1 => s[k + 1] # s[i - 1])
      BY <1>1, <1>2, <3>1
    <3>3. nx[s[k + 1]] = IF k + 1 = n THEN None ELSE s[(k + 1) + 1]
      BY <1>1, <3>1
    <3>4. k # n - 1 => z[k + 1] = s[(k + 1) + 1]
      BY <1>2, <3>1
    <3>5. QED
      BY <2>2, <3>1, <3>2, <3>3, <3>4
  <2>6. QED
    BY <1>1, <2>3, <2>4, <2>5
<1>7. (IF i = 1 THEN nx[s[1]] ELSE h) = IF z = <<>> THEN None ELSE z[1]
  <2>1. CASE i = 1
    <3>1. nx[s[1]] = IF n = 1 THEN None ELSE s[2]
      <4>1. 1 \in 1 .. n /\ 1 + 1 = 2
        BY <1>1
      <4>2. nx[s[1]] = IF 1 = n THEN None ELSE s[1 + 1]
        BY <1>1, <4>1
      <4>3. QED
        BY <4>1, <4>2
    <3>2. n # 1 => z[1] = s[2]
      BY <1>1, <1>2, <2>1
    <3>3. QED
      BY <1>3, <2>1, <3>1, <3>2
  <2>2. CASE i # 1
    <3>1. n # 1 /\ 1 \in 1 .. n - 1 /\ 1 < i
      BY <1>1, <2>2
    <3>2. z[1] = s[1]
      BY <1>2, <3>1
    <3>3. QED
      BY <1>1, <1>3, <2>2, <3>1, <3>2
  <2>3. QED
    BY <2>1, <2>2
<1>8. Linked(IF i = 1 THEN nx[s[1]] ELSE h, z, ny)
  BY <1>2, <1>5, <1>6, <1>7, ListFrom
<1>9. LastOf(z) = IF i # n THEN LastOf(s) ELSE IF i = 1 THEN None ELSE s[i - 1]
  <2>1. LastOf(s) = s[n] /\ LastOf(z) = IF n = 1 THEN None ELSE z[n - 1]
    BY <1>1, <1>2, <1>3 DEF LastOf
  <2>2. CASE i # n
    <3>1. n # 1 /\ n - 1 \in 1 .. n - 1 /\ ~ (n - 1 < i) /\ (n - 1) + 1 = n
      BY <1>1, <2>2
    <3>2. z[n - 1] = s[n]
      BY <1>2, <3>1
    <3>3. QED
      BY <2>1, <2>2, <3>1, <3>2
  <2>3. CASE i = n /\ i # 1
    <3>1. n # 1 /\ n - 1 \in 1 .. n - 1 /\ n - 1 < i
      BY <1>1, <2>3
    <3>2. z[n - 1] = s[n - 1]
      BY <1>2, <3>1
    <3>3. QED
      BY <2>1, <2>3, <3>1, <3>2
  <2>4. CASE i = n /\ i = 1
    BY <2>1, <2>4
  <2>5. QED
    BY <2>2, <2>3, <2>4
<1>10. QED
  BY <1>2, <1>4, <1>8, <1>9 DEF Without, Cut, Before

LEMMA RestOfList ==
  ASSUME NEW h, NEW s, NEW nx, Linked(h, s, nx), s # <<>>
  PROVE  /\ Linked(nx[h], Tail(s), nx)
         /\ h \in Thread /\ h \in ToSet(s)
         /\ ToSet(Tail(s)) = ToSet(s) \ {h}
         /\ Tail(s) # <<>> => LastOf(Tail(s)) = LastOf(s)
<1> DEFINE n == Len(s)
           z == RemoveAt(s, 1)
<1>1. /\ s \in Seq(Thread) /\ n \in Nat /\ n > 0 /\ h = s[1] /\ 1 \in 1 .. n
      /\ h \in Thread /\ h \in ToSet(s)
  BY ListFacts
<1>2. /\ Linked(nx[s[1]], z, nx)
      /\ LastOf(z) = IF 1 # n THEN LastOf(s) ELSE None
      /\ ToSet(z) = ToSet(s) \ {s[1]}
      /\ Len(z) = n - 1
      /\ \A k \in 1 .. n - 1 : z[k] = s[k + 1]
  <2>1. Skips(s, 1, nx, nx)
    BY DEF Skips
  <2>2. Without(h, s, 1, nx, nx, z)
    BY <1>1, <2>1, ShorterList
  <2>3. \A k \in 1 .. n - 1 : ~ (k < 1)
    BY <1>1
  <2> HIDE DEF z
  <2>4. QED
    BY <2>2, <2>3 DEF Without, Cut, Before
<1>3. Tail(s) = z
  <2>1. /\ Tail(s) \in Seq(Thread) /\ Len(Tail(s)) = n - 1
        /\ \A k \in 1 .. n - 1 : Tail(s)[k] = s[k + 1]
    BY <1>1
  <2>2. z \in Seq(Thread)
    BY <1>2 DEF Linked
  <2> HIDE DEF z, n
  <2>3. QED
    BY <1>2, <2>1, <2>2, SeqEqual
<1>4. Tail(s) # <<>> => n # 1
  BY <1>1
<1>5. QED
  BY <1>1, <1>2, <1>3, <1>4

-----------------------------------------------------------------------------
-----------------------------------------------------------------------------
(* The steps.                                                              *)

LEMMA InvFacts ==
  ASSUME NEW r, NEW q, Inv(r, q)
  PROVE  /\ Running \in Thread \cup {Irq} /\ Me \in Contexts
         /\ r \in Seq(Thread) /\ q \in Seq(Thread)
         /\ \A x \in ToSet(r) : x \in Thread /\ x # Idle /\ state[x] = "ready" /\ x \notin ToSet(q)
         /\ \A x \in ToSet(q) : x \in Thread /\ x # Idle /\ state[x] = "terminated" /\ x \notin ToSet(r)
         /\ None \notin Thread /\ Irq \notin Thread /\ None \notin ToSet(r) \cup ToSet(q)
         /\ Idle \in Thread /\ Boot \in Thread /\ Worker \subseteq Thread
         /\ Me.pc # "off"
<1>1. Running \in Thread \cup {Irq}
  BY DEF Inv, TypeOK, Running
<1>2. Me \in Contexts
  BY <1>1 DEF Inv, TypeOK, Me
<1>3. None \notin Thread /\ Irq \notin Thread /\ Idle \in Thread /\ Boot \in Thread /\ Worker \subseteq Thread
  BY ThreadsAssumption DEF Thread
<1>4. /\ Linked(head, r, next) /\ Linked(thead, q, next)
      /\ \A t \in ToSet(r) : state[t] = "ready"
      /\ \A t \in ToSet(q) : state[t] = "terminated"
      /\ state[Idle] \notin {"ready", "terminated", "blocked"}
  BY DEF Inv, Lists, States
<1>5. /\ r \in Seq(Thread) /\ q \in Seq(Thread)
      /\ ToSet(r) \subseteq Thread /\ ToSet(q) \subseteq Thread
  BY <1>4, ListFacts
<1>6. Me.pc # "off"
  BY DEF Inv, OneInside, Enqueuing, Dequeuing
<1>7. "ready" # "terminated"
  OBVIOUS
<1>8. QED
  BY <1>1, <1>2, <1>3, <1>4, <1>5, <1>6, <1>7

(* The running context goes on.                                            *)
LEMMA GoesOn ==
  ASSUME TypeOK, OneInside, NEW c \in Contexts, Become(c), current' = current, c.pc # "off",
         Me.pc # "run" \/ Running # Idle
  PROVE  /\ Running' = Running /\ Me' = c
         /\ ctx' \in [Thread \cup {Irq} -> Contexts]
         /\ \A t \in Thread : t # Running' \/ t = Idle => (ctx[t].pc)' = "run"
<1>1. Running \in Thread \cup {Irq} /\ current \in Thread /\ Irq \notin Thread
  BY ThreadsAssumption DEF TypeOK, Running
<1>2. /\ ctx' \in [Thread \cup {Irq} -> Contexts] /\ ctx'[Running] = c
      /\ \A x \in Thread \cup {Irq} : x # Running => ctx'[x] = ctx[x]
  BY <1>1 DEF Become, TypeOK
<1>3. Running' = Running
  <2>1. CASE Running = Irq
    BY <1>2, <2>1 DEF Running
  <2>2. CASE Running # Irq
    <3>1. ctx[Irq].pc = "off" /\ Running = current
      BY <2>2 DEF Running
    <3>2. ctx'[Irq].pc = "off"
      BY <1>2, <2>2, <3>1
    <3>3. QED
      BY <3>1, <3>2 DEF Running
  <2>3. QED
    BY <2>1, <2>2
<1>4. Me' = c
  BY <1>2, <1>3 DEF Me
<1>5. Running # Idle
  BY DEF OneInside, Me, Thread
<1>6. QED
  BY <1>1, <1>2, <1>3, <1>4, <1>5 DEF OneInside

LEMMA Overwrite ==
  ASSUME NEW S, NEW T, NEW f \in [S -> T], NEW x \in S, NEW v \in T,
         NEW g, g = [f EXCEPT ![x] = v]
  PROVE  /\ g \in [S -> T] /\ g[x] = v
         /\ \A y \in S : y # x => g[y] = f[y]
  OBVIOUS

LEMMA OldCtx ==
  ASSUME NEW o \in Contexts, NEW p \in PcNames
  PROVE  LET c == [o EXCEPT !.pc = p] IN
         /\ c \in Contexts /\ c.pc = p /\ c.arg = o.arg /\ c.ret = o.ret
         /\ c.prev = o.prev /\ c.keep = o.keep
  BY DEF Contexts

LEMMA GotoFacts ==
  ASSUME TypeOK, OneInside, NEW p \in PcNames, p # "off", Goto(p), current' = current,
         Me.pc # "run"
  PROVE  /\ Running' = Running
         /\ Me' \in Contexts /\ Me'.pc = p /\ Me'.arg = Me.arg /\ Me'.ret = Me.ret
         /\ Me'.prev = Me.prev /\ Me'.keep = Me.keep
         /\ ctx' \in [Thread \cup {Irq} -> Contexts]
         /\ \A t \in Thread : t # Running' \/ t = Idle => (ctx[t].pc)' = "run"
<1> DEFINE c == [Me EXCEPT !.pc = p]
<1>1. Me \in Contexts
  BY DEF TypeOK, Me, Running
<1>2. /\ c \in Contexts /\ c.pc = p /\ c.arg = Me.arg /\ c.ret = Me.ret
      /\ c.prev = Me.prev /\ c.keep = Me.keep
  BY <1>1, OldCtx
<1>3. Become(c)
  BY DEF Goto
<1> HIDE DEF c
<1>4. /\ Running' = Running /\ Me' = c
      /\ ctx' \in [Thread \cup {Irq} -> Contexts]
      /\ \A t \in Thread : t # Running' \/ t = Idle => (ctx[t].pc)' = "run"
  BY <1>2, <1>3, GoesOn
<1>5. QED
  BY <1>2, <1>4

LEMMA Enqueue1Step ==
  ASSUME NEW r, NEW q, Inv(r, q), Enqueue1
  PROVE  Inv(r, q)'
<1> DEFINE t == Me.arg
           p == IF tail = None THEN "first" ELSE "append"
<1>1. /\ TypeOK /\ OneInside /\ States /\ Lists(r, q) /\ TailAt(r) /\ EnqueueAt(r)
  BY DEF Inv, CallAt
<1>2. /\ Me \in Contexts /\ Me.pc = "enqueue" /\ t \in Thread \ {Idle}
      /\ state[t] \notin {"ready", "terminated"}
      /\ t \notin ToSet(r) /\ t \notin ToSet(q)
      /\ Me.ret \in {"run", "unmask", "switch", "dispatch"}
      /\ Mode = Me.ret
  BY <1>1, InvFacts DEF Enqueue1, At, EnqueueAt, OneInside, Enqueuing, Dequeuing, Mode
<1>3. p \in PcNames /\ p # "off" /\ (p = "first" <=> tail = None) /\ p \in {"first", "append"}
  BY DEF PcNames
<1>4. Goto(p) /\ current' = current
  BY DEF Enqueue1
<1> HIDE DEF p
<1>5. /\ Running' = Running
      /\ Me' \in Contexts /\ Me'.pc = p /\ Me'.arg = t /\ Me'.ret = Me.ret
      /\ Me'.prev = Me.prev /\ Me'.keep = Me.keep
      /\ ctx' \in [Thread \cup {Irq} -> Contexts]
      /\ \A x \in Thread : x # Running' \/ x = Idle => (ctx[x].pc)' = "run"
  BY <1>1, <1>2, <1>3, <1>4, GotoFacts
<1>6. /\ next' = [next EXCEPT ![t] = None] /\ state' = [state EXCEPT ![t] = "ready"]
      /\ UNCHANGED <<head, tail, thead, ttail, current>>
  BY DEF Enqueue1
<1> HIDE DEF t
<1>7. /\ next'[t] = None /\ \A x \in Thread : x # t => next'[x] = next[x]
      /\ state'[t] = "ready" /\ \A x \in Thread : x # t => state'[x] = state[x]
      /\ next' \in [Thread -> Thread \cup {None}]
      /\ state' \in [Thread -> StateNames]
  <2>1. /\ next \in [Thread -> Thread \cup {None}] /\ state \in [Thread -> StateNames]
        /\ None \in Thread \cup {None} /\ "ready" \in StateNames /\ t \in Thread
    BY <1>1, <1>2 DEF TypeOK, StateNames
  <2>2. QED
    BY <1>6, <2>1, Overwrite
<1>8. Mode' = Mode
  BY <1>2, <1>3, <1>5 DEF Mode, Enqueuing, Dequeuing
<1>9. TypeOK'
  BY <1>1, <1>5, <1>6, <1>7 DEF TypeOK
<1>10. OneInside'
  BY <1>1, <1>2, <1>3, <1>5, <1>8 DEF OneInside, Enqueuing
<1>11. States'
  <2>1. state'[Idle] = state[Idle]
    BY <1>2, <1>7, InvFacts
  <2>2. Mode \in {"run", "unmask"} => current # t
    BY <1>1, <1>2 DEF EnqueueAt, At, t
  <2>3. QED
    BY <1>1, <1>2, <1>6, <1>7, <1>8, <2>1, <2>2 DEF States, TypeOK
<1>12. Lists(r, q)'
  <2>1. \A x \in ToSet(r) \cup ToSet(q) : x \in Thread /\ x # t
    BY <1>2, InvFacts
  <2>2. Linked(head, r, next') /\ Linked(thead, q, next')
    BY <1>1, <1>7, <2>1, SameList DEF Lists
  <2>3. QED
    BY <1>1, <1>6, <1>7, <2>1, <2>2 DEF Lists
<1>13. CallAt(r, q)'
  <2>1. TailAt(r)'
    BY <1>1, <1>2, <1>3, <1>5, <1>6 DEF TailAt, At
  <2>2. EnqueueAt(r)'
    <3>1. Mode \in {"switch", "dispatch"} =>
            /\ Me.keep = Idle \/ Held(Me.keep, r)
            /\ Me.keep # t
      BY <1>1, <1>2 DEF EnqueueAt, Enqueuing, t
    <3>2. QED
      BY <1>2, <1>3, <1>5, <1>6, <1>7, <1>8, <3>1 DEF EnqueueAt, At, Held, Enqueuing
  <2>3. DequeueAt(r)'
    BY <1>3, <1>5 DEF DequeueAt, At
  <2>4. QED
    BY <1>3, <1>5, <2>1, <2>2, <2>3 DEF CallAt, At
<1>14. QED
  BY <1>9, <1>10, <1>11, <1>12, <1>13 DEF Inv

(* The new thread joins the ready queue when a link leads to it.           *)
LEMMA FirstStep ==
  ASSUME NEW r, NEW q, Inv(r, q), First
  PROVE  \E t \in Thread \ (ToSet(r) \cup ToSet(q)) : Inv(Append(r, t), q)'
<1>0. PICK t : t = Me.arg
  OBVIOUS
<1>z. PICK z : z = Append(r, t)
  OBVIOUS
<1>1. /\ TypeOK /\ OneInside /\ States /\ Lists(r, q) /\ TailAt(r) /\ EnqueueAt(r)
  BY DEF Inv, CallAt
<1>2. /\ Me \in Contexts /\ Me.pc = "first" /\ t \in Thread \ {Idle}
      /\ Held(t, r) /\ next[t] = None /\ tail = None /\ tail = LastOf(r)
      /\ t \notin ToSet(r) /\ t \notin ToSet(q)
      /\ Me.ret \in {"run", "unmask", "switch", "dispatch"}
      /\ Mode = Me.ret
  BY <1>0, <1>1, InvFacts DEF First, At, TailAt, EnqueueAt, OneInside, Enqueuing, Dequeuing, Mode, Held
<1>3. r = <<>>
  <2>1. r # <<>> => LastOf(r) # None
    <3>1. Linked(head, r, next)
      BY <1>1 DEF Lists
    <3>2. QED
      BY <3>1, ListEnds
  <2>2. QED
    BY <1>2, <2>1
<1>4. Goto("settail") /\ current' = current /\ head' = t
      /\ UNCHANGED <<tail, thead, ttail, next, state>>
  BY <1>0 DEF First
<1>5. /\ Running' = Running
      /\ Me' \in Contexts /\ Me'.pc = "settail" /\ Me'.arg = t /\ Me'.ret = Me.ret
      /\ Me'.prev = Me.prev /\ Me'.keep = Me.keep
      /\ ctx' \in [Thread \cup {Irq} -> Contexts]
      /\ \A x \in Thread : x # Running' \/ x = Idle => (ctx[x].pc)' = "run"
  BY <1>0, <1>1, <1>2, <1>4, GotoFacts DEF PcNames
<1>6. /\ Linked(t, z, next) /\ LastOf(z) = t /\ z # <<>> /\ ToSet(z) = ToSet(r) \cup {t}
  <2>1. Linked(head, r, next)
    BY <1>1 DEF Lists
  <2>2. ToSet(r) = {}
    BY <1>3, <2>1, ListFacts
  <2>3. Linked(t, z, next)
    <3>1. /\ t \in Thread /\ t \notin ToSet(r) /\ next[t] = None
          /\ r # <<>> => next[LastOf(r)] = t
          /\ \A x \in ToSet(r) : x # LastOf(r) => next[x] = next[x]
          /\ (r # <<>> => t = head)
      BY <1>2, <1>3
    <3>2. QED
      BY <1>z, <2>1, <3>1, LongerList, Zenon
  <2>4. r \in Seq(Thread) /\ t \in Thread
    BY <1>2, InvFacts
  <2>5. LastOf(z) = t /\ z # <<>> /\ ToSet(z) = ToSet(r) \cup {t}
    BY <1>z, <2>4, AppendFacts
  <2>6. QED
    BY <2>3, <2>5
<1>8. Mode' = Mode
  BY <1>2, <1>5 DEF Mode, Enqueuing, Dequeuing
<1>9. TypeOK'
  BY <1>1, <1>2, <1>4, <1>5 DEF TypeOK
<1>10. OneInside'
  BY <1>1, <1>2, <1>5, <1>8 DEF OneInside, Enqueuing
<1>11. States'
  BY <1>1, <1>4, <1>8 DEF States
<1>12. Lists(z, q)'
  BY <1>1, <1>2, <1>4, <1>6 DEF Lists, Held
<1>13. CallAt(z, q)'
  <2>1. TailAt(z)'
    BY <1>5, <1>6 DEF TailAt, At
  <2>2. EnqueueAt(z)'
    <3>1. Mode \in {"switch", "dispatch"} =>
            /\ Me.keep = Idle \/ Held(Me.keep, r)
            /\ Me.keep # t
      BY <1>0, <1>1, <1>2 DEF EnqueueAt, Enqueuing
    <3>2. QED
      BY <1>2, <1>4, <1>5, <1>6, <1>8, <3>1 DEF EnqueueAt, At, Held, Enqueuing
  <2>3. DequeueAt(z)'
    BY <1>5 DEF DequeueAt, At
  <2>4. QED
    BY <1>5, <2>1, <2>2, <2>3 DEF CallAt, At
<1>14. QED
  BY <1>z, <1>2, <1>9, <1>10, <1>11, <1>12, <1>13 DEF Inv

LEMMA AppendLinkStep ==
  ASSUME NEW r, NEW q, Inv(r, q), AppendLink
  PROVE  \E t \in Thread \ (ToSet(r) \cup ToSet(q)) : Inv(Append(r, t), q)'
<1>0. PICK t : t = Me.arg
  OBVIOUS
<1>z. PICK z : z = Append(r, t)
  OBVIOUS
<1>1. /\ TypeOK /\ OneInside /\ States /\ Lists(r, q) /\ TailAt(r) /\ EnqueueAt(r)
  BY DEF Inv, CallAt
<1>2. /\ Me \in Contexts /\ Me.pc = "append" /\ t \in Thread \ {Idle}
      /\ Held(t, r) /\ next[t] = None /\ tail # None /\ tail = LastOf(r)
      /\ t \notin ToSet(r) /\ t \notin ToSet(q)
      /\ Me.ret \in {"run", "unmask", "switch", "dispatch"}
      /\ Mode = Me.ret
  BY <1>0, <1>1, InvFacts DEF AppendLink, At, TailAt, EnqueueAt, OneInside, Enqueuing, Dequeuing, Mode, Held
<1>3. r # <<>> /\ tail \in ToSet(r) /\ tail # t /\ tail \in Thread /\ tail \notin ToSet(q)
  <2>1. r # <<>>
    BY <1>2 DEF LastOf
  <2>2. LastOf(r) \in ToSet(r)
    <3>1. Linked(head, r, next)
      BY <1>1 DEF Lists
    <3>2. QED
      BY <2>1, <3>1, ListEnds
  <2>3. QED
    BY <1>2, <2>1, <2>2, InvFacts
<1>4. Goto("settail") /\ current' = current /\ next' = [next EXCEPT ![tail] = t]
      /\ UNCHANGED <<head, tail, thead, ttail, state>>
  BY <1>0, <1>2 DEF AppendLink
<1>5. /\ Running' = Running
      /\ Me' \in Contexts /\ Me'.pc = "settail" /\ Me'.arg = t /\ Me'.ret = Me.ret
      /\ Me'.prev = Me.prev /\ Me'.keep = Me.keep
      /\ ctx' \in [Thread \cup {Irq} -> Contexts]
      /\ \A x \in Thread : x # Running' \/ x = Idle => (ctx[x].pc)' = "run"
  BY <1>0, <1>1, <1>2, <1>4, GotoFacts DEF PcNames
<1>6. /\ next' \in [Thread -> Thread \cup {None}] /\ next'[tail] = t
      /\ \A x \in Thread : x # tail => next'[x] = next[x]
  <2>1. next \in [Thread -> Thread \cup {None}] /\ t \in Thread \cup {None}
    BY <1>1, <1>2 DEF TypeOK
  <2>2. QED
    BY <1>3, <1>4, <2>1, Overwrite
<1>7. /\ Linked(head, z, next') /\ LastOf(z) = t /\ z # <<>> /\ ToSet(z) = ToSet(r) \cup {t}
      /\ Linked(thead, q, next')
  <2>1. Linked(head, r, next) /\ Linked(thead, q, next)
    BY <1>1 DEF Lists
  <2>2. /\ \A x \in ToSet(r) : x # LastOf(r) => next'[x] = next[x]
        /\ \A x \in ToSet(q) : next'[x] = next[x]
    BY <1>2, <1>3, <1>6, InvFacts
  <2>3. next'[t] = None /\ next'[LastOf(r)] = t
    BY <1>2, <1>3, <1>6
  <2>4. Linked(head, z, next')
    <3>1. /\ t \in Thread /\ t \notin ToSet(r) /\ next'[t] = None
          /\ r # <<>> => next'[LastOf(r)] = t
          /\ \A x \in ToSet(r) : x # LastOf(r) => next'[x] = next[x]
          /\ (r = <<>> => head = t)
      BY <1>2, <1>3, <2>2, <2>3
    <3>2. Linked(head, r, next)
      BY <2>1
    <3>3. QED
      BY <1>z, <3>1, <3>2, LongerList, Zenon
  <2>5. Linked(thead, q, next')
    BY <2>1, <2>2, SameList
  <2>6. r \in Seq(Thread) /\ t \in Thread
    BY <1>2, InvFacts
  <2>7. LastOf(z) = t /\ z # <<>> /\ ToSet(z) = ToSet(r) \cup {t}
    BY <1>z, <2>6, AppendFacts
  <2>8. QED
    BY <2>4, <2>5, <2>7
<1>8. Mode' = Mode
  BY <1>2, <1>5 DEF Mode, Enqueuing, Dequeuing
<1>9. TypeOK'
  BY <1>1, <1>2, <1>4, <1>5, <1>6 DEF TypeOK
<1>10. OneInside'
  BY <1>1, <1>2, <1>5, <1>8 DEF OneInside, Enqueuing
<1>11. States'
  BY <1>1, <1>4, <1>8 DEF States
<1>12. Lists(z, q)'
  BY <1>1, <1>2, <1>4, <1>7 DEF Lists, Held
<1>13. CallAt(z, q)'
  <2>1. TailAt(z)'
    BY <1>5, <1>7 DEF TailAt, At
  <2>2. EnqueueAt(z)'
    <3>1. Mode \in {"switch", "dispatch"} =>
            /\ Me.keep = Idle \/ Held(Me.keep, r)
            /\ Me.keep # t
      BY <1>0, <1>1, <1>2 DEF EnqueueAt, Enqueuing
    <3>2. QED
      BY <1>2, <1>4, <1>5, <1>7, <1>8, <3>1 DEF EnqueueAt, At, Held, Enqueuing
  <2>3. DequeueAt(z)'
    BY <1>5 DEF DequeueAt, At
  <2>4. QED
    BY <1>5, <2>1, <2>2, <2>3 DEF CallAt, At
<1>14. QED
  BY <1>z, <1>2, <1>9, <1>10, <1>11, <1>12, <1>13 DEF Inv

(* A step that changes only where the running context is.                  *)
LEMMA CtxOnly ==
  ASSUME NEW r, NEW q, Inv(r, q), NEW c \in Contexts, Become(c), c.pc # "off",
         UNCHANGED <<links, state, current>>, Me.pc # "run" \/ Running # Idle
  PROVE  /\ Running' = Running /\ Me' = c
         /\ \A t \in Thread : t # Running' \/ t = Idle => (ctx[t].pc)' = "run"
         /\ TypeOK' /\ Lists(r, q)'
         /\ UNCHANGED <<head, tail, thead, ttail, next, state, current>>
<1>1. TypeOK /\ OneInside /\ Lists(r, q)
  BY DEF Inv
<1>2. UNCHANGED <<head, tail, thead, ttail, next, state, current>>
  BY DEF links
<1>3. /\ Running' = Running /\ Me' = c
      /\ ctx' \in [Thread \cup {Irq} -> Contexts]
      /\ \A t \in Thread : t # Running' \/ t = Idle => (ctx[t].pc)' = "run"
  BY <1>1, <1>2, GoesOn
<1>4. TypeOK'
  BY <1>1, <1>2, <1>3 DEF TypeOK
<1>5. Lists(r, q)'
  BY <1>1, <1>2 DEF Lists
<1>6. QED
  BY <1>2, <1>3, <1>4, <1>5

LEMMA SetTailStep ==
  ASSUME NEW r, NEW q, Inv(r, q), SetTail
  PROVE  Inv(r, q)'
<1>0. PICK t : t = Me.arg
  OBVIOUS
<1>1. /\ TypeOK /\ OneInside /\ States /\ Lists(r, q) /\ TailAt(r) /\ EnqueueAt(r)
  BY DEF Inv, CallAt
<1>2. /\ Me \in Contexts /\ Me.pc = "settail" /\ t \in Thread
      /\ r # <<>> /\ LastOf(r) = t
      /\ Me.ret \in {"run", "unmask", "switch", "dispatch"}
      /\ Mode = Me.ret
  BY <1>0, <1>1, InvFacts DEF SetTail, At, TailAt, EnqueueAt, OneInside, Enqueuing, Dequeuing, Mode
<1>3. Goto(Me.ret) /\ tail' = t /\ UNCHANGED <<head, thead, ttail, next, state, current>>
  BY <1>0 DEF SetTail, ReturnFromCall
<1>4. Me.ret \in PcNames /\ Me.ret # "off"
  BY <1>2 DEF PcNames
<1>5. /\ Running' = Running
      /\ Me' \in Contexts /\ Me'.pc = Me.ret /\ Me'.arg = t /\ Me'.ret = Me.ret
      /\ Me'.prev = Me.prev /\ Me'.keep = Me.keep
      /\ ctx' \in [Thread \cup {Irq} -> Contexts]
      /\ \A x \in Thread : x # Running' \/ x = Idle => (ctx[x].pc)' = "run"
  BY <1>0, <1>1, <1>2, <1>3, <1>4, GotoFacts
<1>8. Mode' = Mode
  BY <1>2, <1>5 DEF Mode, Enqueuing, Dequeuing
<1>9. TypeOK'
  BY <1>1, <1>2, <1>3, <1>5 DEF TypeOK
<1>10. OneInside'
  BY <1>1, <1>2, <1>5, <1>8 DEF OneInside, Enqueuing
<1>11. States'
  BY <1>1, <1>3, <1>8 DEF States
<1>12. Lists(r, q)'
  BY <1>1, <1>3 DEF Lists
<1>13. CallAt(r, q)'
  <2>1. TailAt(r)'
    BY <1>2, <1>3, <1>5 DEF TailAt, At
  <2>2. EnqueueAt(r)'
    <3>1. Mode \in {"switch", "dispatch"} => Me.keep = Idle \/ Held(Me.keep, r)
      BY <1>1 DEF EnqueueAt
    <3>2. QED
      BY <1>2, <1>3, <1>5, <1>8, <3>1 DEF EnqueueAt, At, Held, Enqueuing
  <2>3. DequeueAt(r)'
    BY <1>2, <1>5 DEF DequeueAt, At
  <2>4. QED
    BY <1>2, <1>5, <2>1, <2>2, <2>3 DEF CallAt, At
<1>14. QED
  BY <1>9, <1>10, <1>11, <1>12, <1>13 DEF Inv

LEMMA Dequeue1Step ==
  ASSUME NEW r, NEW q, Inv(r, q), Dequeue1
  PROVE  Inv(r, q)'
<1> DEFINE p == IF head = None THEN Me.ret ELSE "advance"
           c == [Me EXCEPT !.arg = head, !.pc = p]
<1>1. /\ TypeOK /\ OneInside /\ States /\ Lists(r, q) /\ TailAt(r)
  BY DEF Inv, CallAt
<1>2. /\ Me \in Contexts /\ Me.pc = "dequeue" /\ tail = LastOf(r)
      /\ Me.ret \in {"yield", "switchaway", "chosen"}
      /\ Mode = Me.ret /\ head \in Thread \cup {None}
  BY <1>1, InvFacts DEF Dequeue1, At, TailAt, OneInside, Enqueuing, Dequeuing, Mode, TypeOK
<1>3. /\ p \in PcNames /\ p # "off" /\ p \in {"advance", Me.ret}
      /\ (p = "advance" <=> head # None)
  BY <1>2 DEF PcNames
<1>4. Become(c) /\ UNCHANGED <<links, state, current>>
  BY DEF Dequeue1
<1> HIDE DEF p
<1>5. c \in Contexts /\ c.pc = p /\ c.arg = head /\ c.ret = Me.ret
  BY <1>2, <1>3 DEF Contexts
<1> HIDE DEF c
<1>6. /\ Running' = Running /\ Me' = c
      /\ \A x \in Thread : x # Running' \/ x = Idle => (ctx[x].pc)' = "run"
      /\ TypeOK' /\ Lists(r, q)'
      /\ UNCHANGED <<head, tail, thead, ttail, next, state, current>>
  BY <1>2, <1>3, <1>4, <1>5, CtxOnly
<1>8. Mode' = Mode
  BY <1>2, <1>3, <1>5, <1>6 DEF Mode, Enqueuing, Dequeuing
<1>10. OneInside'
  BY <1>1, <1>2, <1>3, <1>5, <1>6, <1>8 DEF OneInside, Dequeuing
<1>11. States'
  BY <1>1, <1>6, <1>8 DEF States
<1>12. TailAt(r)'
  BY <1>2, <1>3, <1>5, <1>6 DEF TailAt, At
<1>13. EnqueueAt(r)'
  BY <1>2, <1>3, <1>5, <1>6, <1>8 DEF EnqueueAt, At, Enqueuing
<1>14. DequeueAt(r)'
  BY <1>2, <1>3, <1>5, <1>6 DEF DequeueAt, At
<1>15. QED
  BY <1>2, <1>3, <1>5, <1>6, <1>10, <1>11, <1>12, <1>13, <1>14 DEF Inv, CallAt, At

(* The first thread leaves the ready queue when the head moves on.         *)
LEMMA AdvanceStep ==
  ASSUME NEW r, NEW q, Inv(r, q), Advance
  PROVE  r # <<>> /\ Inv(Tail(r), q)'
<1>0. PICK t : t = Me.arg
  OBVIOUS
<1>z. PICK z : z = Tail(r)
  OBVIOUS
<1>1. /\ TypeOK /\ OneInside /\ States /\ Lists(r, q) /\ TailAt(r) /\ DequeueAt(r)
  BY DEF Inv, CallAt
<1>2. /\ Me \in Contexts /\ Me.pc = "advance" /\ tail = LastOf(r)
      /\ t = head /\ head # None
      /\ Me.ret \in {"yield", "switchaway", "chosen"}
      /\ Mode = Me.ret
      /\ Linked(head, r, next)
  BY <1>0, <1>1, InvFacts
     DEF Advance, At, TailAt, DequeueAt, OneInside, Enqueuing, Dequeuing, Mode, Lists
<1>3. r # <<>>
  BY <1>2, ListEnds
<1>4. /\ Linked(next[t], z, next) /\ t \in Thread /\ t \in ToSet(r)
      /\ ToSet(z) = ToSet(r) \ {t}
      /\ z # <<>> => LastOf(z) = tail
  BY <1>z, <1>2, <1>3, RestOfList
<1>5. Goto("emptied") /\ head' = next[t] /\ UNCHANGED <<tail, thead, ttail, next, state, current>>
  BY <1>0 DEF Advance
<1>6. /\ Running' = Running
      /\ Me' \in Contexts /\ Me'.pc = "emptied" /\ Me'.arg = t /\ Me'.ret = Me.ret
      /\ ctx' \in [Thread \cup {Irq} -> Contexts]
      /\ \A x \in Thread : x # Running' \/ x = Idle => (ctx[x].pc)' = "run"
  BY <1>0, <1>1, <1>2, <1>5, GotoFacts DEF PcNames
<1>8. Mode' = Mode
  BY <1>2, <1>6 DEF Mode, Enqueuing, Dequeuing
<1>9. TypeOK'
  <2>1. next[t] \in Thread \cup {None}
    BY <1>1, <1>4 DEF TypeOK
  <2>2. QED
    BY <1>1, <1>5, <1>6, <2>1 DEF TypeOK
<1>10. OneInside'
  BY <1>1, <1>2, <1>6, <1>8 DEF OneInside, Dequeuing
<1>11. States'
  BY <1>1, <1>5, <1>8 DEF States
<1>12. Lists(z, q)'
  BY <1>1, <1>4, <1>5 DEF Lists
<1>13. TailAt(z)'
  BY <1>4, <1>5, <1>6 DEF TailAt, At
<1>14. EnqueueAt(z)'
  BY <1>2, <1>6, <1>8 DEF EnqueueAt, At, Enqueuing
<1>15. DequeueAt(z)'
  <2>1. state[t] = "ready"
    BY <1>1, <1>4 DEF Lists
  <2>2. QED
    BY <1>4, <1>5, <1>6, <2>1 DEF DequeueAt, At, Held
<1>16. QED
  BY <1>z, <1>3, <1>6, <1>9, <1>10, <1>11, <1>12, <1>13, <1>14, <1>15 DEF Inv, CallAt, At

LEMMA EmptiedStep ==
  ASSUME NEW r, NEW q, Inv(r, q), Emptied
  PROVE  Inv(r, q)'
<1>0. PICK t : t = Me.arg
  OBVIOUS
<1>1. /\ TypeOK /\ OneInside /\ States /\ Lists(r, q) /\ TailAt(r) /\ DequeueAt(r)
  BY DEF Inv, CallAt
<1>2. /\ Me \in Contexts /\ Me.pc = "emptied" /\ (r # <<>> => tail = LastOf(r))
      /\ Held(t, r)
      /\ Me.ret \in {"yield", "switchaway", "chosen"}
      /\ Mode = Me.ret
      /\ Linked(head, r, next)
  BY <1>0, <1>1, InvFacts
     DEF Emptied, At, TailAt, DequeueAt, OneInside, Enqueuing, Dequeuing, Mode, Lists
<1>3. Goto("detach") /\ UNCHANGED <<head, thead, ttail, next, state, current>>
  BY DEF Emptied
<1>4. tail' = LastOf(r)
  <2>1. (head = None <=> r = <<>>) /\ (r = <<>> => LastOf(r) = None)
    BY <1>2, ListEnds
  <2>2. tail' = IF head = None THEN None ELSE tail
    BY DEF Emptied
  <2>3. QED
    BY <1>2, <2>1, <2>2
<1>6. /\ Running' = Running
      /\ Me' \in Contexts /\ Me'.pc = "detach" /\ Me'.arg = t /\ Me'.ret = Me.ret
      /\ ctx' \in [Thread \cup {Irq} -> Contexts]
      /\ \A x \in Thread : x # Running' \/ x = Idle => (ctx[x].pc)' = "run"
  BY <1>0, <1>1, <1>2, <1>3, GotoFacts DEF PcNames
<1>8. Mode' = Mode
  BY <1>2, <1>6 DEF Mode, Enqueuing, Dequeuing
<1>9. TypeOK'
  <2>1. tail' \in Thread \cup {None}
    BY <1>1 DEF Emptied, TypeOK
  <2>2. QED
    BY <1>1, <1>3, <1>6, <2>1 DEF TypeOK
<1>10. OneInside'
  BY <1>1, <1>2, <1>6, <1>8 DEF OneInside, Dequeuing
<1>11. States'
  BY <1>1, <1>3, <1>8 DEF States
<1>12. Lists(r, q)'
  BY <1>1, <1>3 DEF Lists
<1>13. TailAt(r)'
  BY <1>4, <1>6 DEF TailAt, At
<1>14. EnqueueAt(r)'
  BY <1>2, <1>6, <1>8 DEF EnqueueAt, At, Enqueuing
<1>15. DequeueAt(r)'
  BY <1>2, <1>3, <1>6 DEF DequeueAt, At, Held
<1>16. QED
  BY <1>6, <1>9, <1>10, <1>11, <1>12, <1>13, <1>14, <1>15 DEF Inv, CallAt, At

LEMMA DetachStep ==
  ASSUME NEW r, NEW q, Inv(r, q), Detach
  PROVE  Inv(r, q)'
<1>0. PICK t : t = Me.arg
  OBVIOUS
<1>1. /\ TypeOK /\ OneInside /\ States /\ Lists(r, q) /\ TailAt(r) /\ DequeueAt(r)
  BY DEF Inv, CallAt
<1>2. /\ Me \in Contexts /\ Me.pc = "detach" /\ tail = LastOf(r)
      /\ Held(t, r) /\ t \in Thread /\ t \notin ToSet(r) /\ t \notin ToSet(q)
      /\ Me.ret \in {"yield", "switchaway", "chosen"}
      /\ Mode = Me.ret
      /\ Linked(head, r, next) /\ Linked(thead, q, next)
  BY <1>0, <1>1, InvFacts
     DEF Detach, At, TailAt, DequeueAt, OneInside, Enqueuing, Dequeuing, Mode, Lists, Held
<1>3. /\ Goto(Me.ret) /\ next' = [next EXCEPT ![t] = None]
      /\ UNCHANGED <<head, tail, thead, ttail, state, current>>
  BY <1>0 DEF Detach, ReturnFromCall
<1>4. Me.ret \in PcNames /\ Me.ret # "off"
  BY <1>2 DEF PcNames
<1>5. /\ next' \in [Thread -> Thread \cup {None}]
      /\ \A x \in Thread : x # t => next'[x] = next[x]
  <2>1. next \in [Thread -> Thread \cup {None}] /\ None \in Thread \cup {None}
    BY <1>1 DEF TypeOK
  <2>2. QED
    BY <1>2, <1>3, <2>1, Overwrite
<1>6. /\ Running' = Running
      /\ Me' \in Contexts /\ Me'.pc = Me.ret /\ Me'.arg = t /\ Me'.ret = Me.ret
      /\ ctx' \in [Thread \cup {Irq} -> Contexts]
      /\ \A x \in Thread : x # Running' \/ x = Idle => (ctx[x].pc)' = "run"
  BY <1>0, <1>1, <1>2, <1>3, <1>4, GotoFacts
<1>8. Mode' = Mode
  BY <1>2, <1>6 DEF Mode, Enqueuing, Dequeuing
<1>9. TypeOK'
  BY <1>1, <1>3, <1>5, <1>6 DEF TypeOK
<1>10. OneInside'
  BY <1>1, <1>2, <1>6, <1>8 DEF OneInside
<1>11. States'
  BY <1>1, <1>3, <1>8 DEF States
<1>12. Lists(r, q)'
  <2>1. \A x \in ToSet(r) \cup ToSet(q) : next'[x] = next[x]
    BY <1>2, <1>5, InvFacts
  <2>2. Linked(head, r, next') /\ Linked(thead, q, next')
    BY <1>2, <2>1, SameList
  <2>3. QED
    BY <1>1, <1>3, <2>2 DEF Lists
<1>13. TailAt(r)'
  BY <1>2, <1>3, <1>6 DEF TailAt, At
<1>14. EnqueueAt(r)'
  BY <1>2, <1>6, <1>8 DEF EnqueueAt, At, Enqueuing
<1>15. DequeueAt(r)'
  BY <1>2, <1>3, <1>6 DEF DequeueAt, At, Held
<1>16. QED
  BY <1>2, <1>6, <1>9, <1>10, <1>11, <1>12, <1>13, <1>14, <1>15 DEF Inv, CallAt, At

LEMMA YieldEnqueueStep ==
  ASSUME NEW r, NEW q, Inv(r, q), YieldEnqueue
  PROVE  Inv(r, q)'
<1> DEFINE none == Ctx("run", FALSE, None, "run")
           c == [Ctx("enqueue", TRUE, Running, "switch") EXCEPT !.keep = Me.arg]
<1>1. /\ TypeOK /\ OneInside /\ States /\ Lists(r, q) /\ TailAt(r) /\ DequeueAt(r)
  BY DEF Inv, CallAt
<1>2. /\ Me \in Contexts /\ Me.pc = "yield" /\ Mode = "yield"
      /\ tail = LastOf(r) /\ (Me.arg = None \/ Held(Me.arg, r))
  BY <1>1, InvFacts DEF YieldEnqueue, At, TailAt, DequeueAt, Enqueuing, Dequeuing, Mode
<1>3. /\ Running # Irq /\ Running = current /\ current \in Thread /\ current # Idle
      /\ state[current] = "running"
  <2>1. Running # Irq /\ state[current] = "running" /\ current \in Thread
    BY <1>1, <1>2 DEF OneInside, States, TypeOK
  <2>2. Running = current
    BY <2>1 DEF Running
  <2>3. Running # Idle
    BY <1>1, <1>2 DEF OneInside, Me, Thread
  <2>4. QED
    BY <2>1, <2>2, <2>3
<1>4. UNCHANGED <<links, state, current>>
  BY DEF YieldEnqueue
<1>5. CASE Me.arg = None
  <2>1. Become(none)
    BY <1>5 DEF YieldEnqueue
  <2>2. none \in Contexts /\ none.pc = "run"
    BY DEF Ctx, Contexts, PcNames
  <2> HIDE DEF none
  <2>3. /\ Running' = Running /\ Me' = none
        /\ \A x \in Thread : x # Running' \/ x = Idle => (ctx[x].pc)' = "run"
        /\ TypeOK' /\ Lists(r, q)'
        /\ UNCHANGED <<head, tail, thead, ttail, next, state, current>>
    BY <1>2, <1>4, <2>1, <2>2, CtxOnly
  <2>4. Me'.pc = "run" /\ Mode' = "run"
    BY <2>2, <2>3 DEF Mode, Enqueuing, Dequeuing
  <2>5. OneInside' /\ States'
    BY <1>1, <1>3, <2>3, <2>4 DEF OneInside, States
  <2>6. CallAt(r, q)'
    BY <1>2, <2>3, <2>4 DEF CallAt, At, TailAt, EnqueueAt, DequeueAt, Enqueuing
  <2>7. QED
    BY <2>3, <2>5, <2>6 DEF Inv
<1>6. CASE Me.arg # None
  <2>1. Become(c)
    BY <1>6 DEF YieldEnqueue
  <2>2. PICK k : k = Me.arg
    OBVIOUS
  <2>3. Held(k, r) /\ k # current
    BY <1>2, <1>3, <1>6, <2>2 DEF Held
  <2>4. /\ c \in Contexts /\ c.pc = "enqueue" /\ c.ret = "switch" /\ c.arg = current /\ c.keep = k
    BY <1>3, <2>2, <2>3 DEF Ctx, Contexts, PcNames, Held
  <2> HIDE DEF c
  <2>5. /\ Running' = Running /\ Me' = c
        /\ \A x \in Thread : x # Running' \/ x = Idle => (ctx[x].pc)' = "run"
        /\ TypeOK' /\ Lists(r, q)'
        /\ UNCHANGED <<head, tail, thead, ttail, next, state, current>>
    BY <1>2, <1>4, <2>1, <2>4, CtxOnly
  <2>6. /\ Me'.pc = "enqueue" /\ Me'.ret = "switch" /\ Me'.arg = current /\ Me'.keep = k
        /\ Mode' = "switch"
    BY <2>4, <2>5 DEF Mode, Enqueuing, Dequeuing
  <2>7. OneInside' /\ States'
    BY <1>1, <1>3, <2>5, <2>6 DEF OneInside, States, Enqueuing
  <2>8. TailAt(r)' /\ DequeueAt(r)'
    BY <1>2, <2>5, <2>6 DEF At, TailAt, DequeueAt
  <2>9. EnqueueAt(r)'
    BY <1>3, <2>3, <2>5, <2>6 DEF At, EnqueueAt, Enqueuing, Held
  <2>10. QED
    BY <2>5, <2>6, <2>7, <2>8, <2>9 DEF Inv, CallAt, At
<1>7. QED
  BY <1>5, <1>6

(* The CPU goes to t.                                                      *)
LEMMA SwitchStep ==
  ASSUME NEW r, NEW q, Inv(r, q), Switch \/ SwitchAway
  PROVE  Inv(r, q)'
<1> DEFINE c == Ctx("run", FALSE, None, "run")
<1>1. /\ TypeOK /\ OneInside /\ States /\ Lists(r, q)
      /\ TailAt(r) /\ EnqueueAt(r) /\ DequeueAt(r)
  BY DEF Inv, CallAt
<1>2. /\ Me.pc \in {"switch", "switchaway"} /\ Mode = Me.pc /\ tail = LastOf(r)
  BY <1>1 DEF Switch, SwitchAway, At, TailAt, Enqueuing, Dequeuing, Mode
<1>3. PICK t : SwitchTo(t) /\ (t = Idle \/ Held(t, r))
  <2>1. CASE Switch
    BY <1>1, <1>2, <2>1 DEF Switch, At, EnqueueAt
  <2>2. CASE SwitchAway /\ Me.arg = None
    BY <2>2 DEF SwitchAway
  <2>3. CASE SwitchAway /\ Me.arg # None
    <3>1. SwitchTo(Me.arg) /\ Me.pc = "switchaway"
      BY <2>3 DEF SwitchAway, At
    <3>2. Held(Me.arg, r)
      BY <1>1, <2>3, <3>1 DEF DequeueAt
    <3>3. QED
      BY <3>1, <3>2
  <2>4. QED
    BY <2>1, <2>2, <2>3
<1>4. /\ t \in Thread /\ t \notin ToSet(r) /\ t \notin ToSet(q)
  BY <1>3, InvFacts DEF Held
<1>5. /\ current' = t /\ state' = [state EXCEPT ![t] = "running"] /\ Become(c)
      /\ UNCHANGED <<head, tail, thead, ttail, next>>
  BY <1>3 DEF SwitchTo, links
<1>6. c \in Contexts /\ c.pc = "run"
  BY DEF Ctx, Contexts, PcNames
<1> HIDE DEF c
<1>7. /\ state' \in [Thread -> StateNames] /\ state'[t] = "running"
      /\ \A x \in Thread : x # t => state'[x] = state[x]
  <2>1. state \in [Thread -> StateNames] /\ "running" \in StateNames
    BY <1>1 DEF TypeOK, StateNames
  <2>2. QED
    BY <1>4, <1>5, <2>1, Overwrite
<1>8. /\ Running # Irq /\ Running = current /\ current \in Thread /\ ctx[Irq].pc = "off"
      /\ Irq \notin Thread
  <2>1. Running # Irq /\ current \in Thread
    BY <1>1, <1>2 DEF OneInside, TypeOK
  <2>2. QED
    BY <2>1, InvFacts DEF Running
<1>9. /\ ctx' \in [Thread \cup {Irq} -> Contexts] /\ ctx'[Irq] = ctx[Irq]
      /\ \A x \in Thread : ctx'[x].pc = "run"
  <2>1. ctx' = [ctx EXCEPT ![current] = c] /\ ctx \in [Thread \cup {Irq} -> Contexts]
    BY <1>1, <1>5, <1>8 DEF Become, TypeOK
  <2>2. /\ ctx' \in [Thread \cup {Irq} -> Contexts] /\ ctx'[current] = c
        /\ \A x \in Thread \cup {Irq} : x # current => ctx'[x] = ctx[x]
    BY <1>6, <1>8, <2>1
  <2>3. \A x \in Thread : x # current => ctx[x].pc = "run"
    BY <1>1, <1>8 DEF OneInside
  <2>4. QED
    BY <1>6, <1>8, <2>2, <2>3
<1>10. Running' = t /\ Me'.pc = "run" /\ Mode' = "run"
  <2>1. Running' = t
    BY <1>5, <1>8, <1>9 DEF Running
  <2>2. Me'.pc = "run"
    BY <1>4, <1>9, <2>1 DEF Me
  <2>3. QED
    BY <2>1, <2>2 DEF Mode, Enqueuing, Dequeuing
<1>11. TypeOK'
  BY <1>1, <1>4, <1>5, <1>7, <1>9 DEF TypeOK
<1>12. OneInside'
  BY <1>4, <1>8, <1>9, <1>10 DEF OneInside
<1>13. States'
  BY <1>1, <1>4, <1>5, <1>7, <1>10, InvFacts DEF States
<1>14. Lists(r, q)'
  BY <1>1, <1>4, <1>5, <1>7, InvFacts DEF Lists
<1>15. CallAt(r, q)'
  BY <1>2, <1>5, <1>10 DEF CallAt, At, TailAt, EnqueueAt, DequeueAt, Enqueuing
<1>16. QED
  BY <1>11, <1>12, <1>13, <1>14, <1>15 DEF Inv

LEMMA UnmaskStep ==
  ASSUME NEW r, NEW q, Inv(r, q), Unmask
  PROVE  Inv(r, q)'
<1> DEFINE c == Ctx("run", FALSE, None, "run")
<1>1. /\ TypeOK /\ OneInside /\ States /\ TailAt(r)
  BY DEF Inv, CallAt
<1>2. Me.pc = "unmask" /\ Mode = "unmask" /\ tail = LastOf(r)
  BY <1>1 DEF Unmask, At, TailAt, Enqueuing, Dequeuing, Mode
<1>3. c \in Contexts /\ c.pc = "run"
  BY DEF Ctx, Contexts, PcNames
<1>4. Become(c) /\ UNCHANGED <<links, state, current>>
  BY DEF Unmask
<1> HIDE DEF c
<1>5. /\ Running' = Running /\ Me' = c
      /\ \A x \in Thread : x # Running' \/ x = Idle => (ctx[x].pc)' = "run"
      /\ TypeOK' /\ Lists(r, q)'
      /\ UNCHANGED <<head, tail, thead, ttail, next, state, current>>
  BY <1>2, <1>3, <1>4, CtxOnly
<1>6. Me'.pc = "run" /\ Mode' = "run"
  BY <1>3, <1>5 DEF Mode, Enqueuing, Dequeuing
<1>7. OneInside' /\ States'
  BY <1>1, <1>2, <1>5, <1>6 DEF OneInside, States
<1>8. CallAt(r, q)'
  BY <1>2, <1>5, <1>6 DEF CallAt, At, TailAt, EnqueueAt, DequeueAt, Enqueuing
<1>9. QED
  BY <1>5, <1>7, <1>8 DEF Inv

LEMMA SweepEndStep ==
  ASSUME NEW r, NEW q, Inv(r, q), SweepEnd
  PROVE  Inv(r, q)'
<1>1. /\ TypeOK /\ OneInside /\ States /\ Lists(r, q) /\ TailAt(r)
  BY DEF Inv, CallAt
<1>2. Me.pc = "sweep" /\ Mode = "sweep" /\ tail = LastOf(r)
  BY <1>1 DEF SweepEnd, At, TailAt, Enqueuing, Dequeuing, Mode
<1>4. Goto("unmask") /\ UNCHANGED <<head, tail, thead, ttail, next, state, current>>
  BY DEF SweepEnd, links
<1>5. /\ Running' = Running /\ Me'.pc = "unmask"
      /\ ctx' \in [Thread \cup {Irq} -> Contexts]
      /\ \A x \in Thread : x # Running' \/ x = Idle => (ctx[x].pc)' = "run"
  BY <1>1, <1>2, <1>4, GotoFacts DEF PcNames
<1>6. Mode' = "unmask"
  BY <1>5 DEF Mode, Enqueuing, Dequeuing
<1>7. OneInside' /\ States'
  BY <1>1, <1>2, <1>4, <1>5, <1>6 DEF OneInside, States
<1>8. CallAt(r, q)'
  BY <1>2, <1>4, <1>5, <1>6 DEF CallAt, At, TailAt, EnqueueAt, DequeueAt, Enqueuing
<1>9. TypeOK' /\ Lists(r, q)'
  BY <1>1, <1>4, <1>5 DEF TypeOK, Lists
<1>10. QED
  BY <1>7, <1>8, <1>9 DEF Inv

(* A thread that calls the scheduler.                                      *)
LEMMA CallFacts ==
  ASSUME NEW r, NEW q, Inv(r, q), CanCall
  PROVE  /\ TypeOK /\ OneInside /\ States /\ Lists(r, q) /\ TailAt(r)
         /\ Me.pc = "run" /\ Mode = "run" /\ tail = LastOf(r)
         /\ Running = current /\ Running # Irq /\ Running # Idle
         /\ current \in Thread /\ state[current] = "running"
         /\ current \notin ToSet(r) /\ current \notin ToSet(q)
<1>1. TypeOK /\ OneInside /\ States /\ Lists(r, q) /\ TailAt(r)
  BY DEF Inv, CallAt
<1>2. Me.pc = "run" /\ Mode = "run" /\ tail = LastOf(r)
  BY <1>1 DEF CanCall, At, TailAt, Enqueuing, Dequeuing, Mode
<1>3. Running \in Thread /\ Running # Idle /\ Running # Irq
  BY InvFacts DEF CanCall
<1>4. Running = current
  BY <1>3 DEF Running
<1>5. state[current] = "running"
  BY <1>1, <1>2 DEF States
<1>6. QED
  BY <1>1, <1>2, <1>3, <1>4, <1>5, InvFacts

LEMMA YieldStep ==
  ASSUME NEW r, NEW q, Inv(r, q), Yield
  PROVE  Inv(r, q)'
<1> DEFINE c == Ctx("dequeue", FALSE, None, "yield")
<1>1. /\ TypeOK /\ OneInside /\ States /\ Mode = "run" /\ tail = LastOf(r) /\ Running # Irq
      /\ state[current] = "running" /\ Running # Idle
  BY CallFacts DEF Yield
<1>2. c \in Contexts /\ c.pc = "dequeue" /\ c.ret = "yield"
  BY DEF Ctx, Contexts, PcNames
<1>3. Become(c) /\ UNCHANGED <<links, state, current>>
  BY DEF Yield
<1> HIDE DEF c
<1>4. /\ Running' = Running /\ Me' = c
      /\ \A x \in Thread : x # Running' \/ x = Idle => (ctx[x].pc)' = "run"
      /\ TypeOK' /\ Lists(r, q)'
      /\ UNCHANGED <<head, tail, thead, ttail, next, state, current>>
  BY <1>1, <1>2, <1>3, CtxOnly
<1>5. Me'.pc = "dequeue" /\ Me'.ret = "yield" /\ Mode' = "yield"
  BY <1>2, <1>4 DEF Mode, Enqueuing, Dequeuing
<1>6. OneInside' /\ States'
  BY <1>1, <1>4, <1>5 DEF OneInside, States, Dequeuing
<1>7. CallAt(r, q)'
  BY <1>1, <1>4, <1>5 DEF CallAt, At, TailAt, EnqueueAt, DequeueAt, Enqueuing
<1>8. QED
  BY <1>4, <1>6, <1>7 DEF Inv

LEMMA SweepStep ==
  ASSUME NEW r, NEW q, Inv(r, q), Sweep
  PROVE  Inv(r, q)'
<1> DEFINE c == Ctx("sweep", TRUE, head, "unmask")
<1>1. /\ TypeOK /\ OneInside /\ States /\ Mode = "run" /\ tail = LastOf(r) /\ Running # Irq
      /\ state[current] = "running" /\ Running # Idle /\ head \in Thread \cup {None}
      /\ Linked(head, r, next)
  BY CallFacts DEF Sweep, TypeOK, Lists
<1>2. c \in Contexts /\ c.pc = "sweep" /\ c.arg = head /\ c.prev = None
  BY <1>1 DEF Ctx, Contexts, PcNames
<1>3. Become(c) /\ UNCHANGED <<links, state, current>>
  BY DEF Sweep, Masked
<1> HIDE DEF c
<1>4. /\ Running' = Running /\ Me' = c
      /\ \A x \in Thread : x # Running' \/ x = Idle => (ctx[x].pc)' = "run"
      /\ TypeOK' /\ Lists(r, q)'
      /\ UNCHANGED <<head, tail, thead, ttail, next, state, current>>
  BY <1>1, <1>2, <1>3, CtxOnly
<1>5. Me'.pc = "sweep" /\ Me'.arg = head /\ Me'.prev = None /\ Mode' = "sweep"
  BY <1>2, <1>4 DEF Mode, Enqueuing, Dequeuing
<1>6. OneInside' /\ States'
  BY <1>1, <1>4, <1>5 DEF OneInside, States
<1>7. Cursor(r)'
  <2>1. head # None => 1 \in 1 .. Len(r) /\ head = r[1]
    BY <1>1, ListFacts
  <2>2. QED
    BY <1>5, <2>1 DEF Cursor, PlaceIn, Before
<1>8. CallAt(r, q)'
  BY <1>1, <1>4, <1>5, <1>7 DEF CallAt, At, TailAt, EnqueueAt, DequeueAt, Enqueuing
<1>9. QED
  BY <1>4, <1>6, <1>8 DEF Inv

LEMMA UnblockStep ==
  ASSUME NEW r, NEW q, Inv(r, q), NEW t \in Thread, Unblock(t)
  PROVE  Inv(r, q)'
<1> DEFINE c == Ctx("enqueue", TRUE, t, "unmask")
<1>1. /\ TypeOK /\ OneInside /\ States /\ Mode = "run" /\ tail = LastOf(r) /\ Running # Irq
      /\ state[current] = "running" /\ Running # Idle
  BY CallFacts DEF Unblock
<1>2. c \in Contexts /\ c.pc = "enqueue" /\ c.arg = t /\ c.ret = "unmask"
  BY DEF Ctx, Contexts, PcNames
<1>3. Become(c) /\ UNCHANGED <<links, state, current>> /\ state[t] = "blocked"
  BY DEF Unblock, Masked
<1> HIDE DEF c
<1>4. /\ Running' = Running /\ Me' = c
      /\ \A x \in Thread : x # Running' \/ x = Idle => (ctx[x].pc)' = "run"
      /\ TypeOK' /\ Lists(r, q)'
      /\ UNCHANGED <<head, tail, thead, ttail, next, state, current>>
  BY <1>1, <1>2, <1>3, CtxOnly
<1>5. Me'.pc = "enqueue" /\ Me'.ret = "unmask" /\ Me'.arg = t /\ Mode' = "unmask"
  BY <1>2, <1>4 DEF Mode, Enqueuing, Dequeuing
<1>6. OneInside' /\ States'
  BY <1>1, <1>4, <1>5 DEF OneInside, States, Enqueuing
<1>7. t # Idle /\ t # current
  BY <1>1, <1>3 DEF States
<1>8. CallAt(r, q)'
  BY <1>1, <1>3, <1>4, <1>5, <1>7 DEF CallAt, At, TailAt, EnqueueAt, DequeueAt, Enqueuing
<1>9. QED
  BY <1>4, <1>6, <1>8 DEF Inv

LEMMA StartThreadStep ==
  ASSUME NEW r, NEW q, Inv(r, q), NEW t \in Thread, StartThread(t)
  PROVE  Inv(r, q)'
<1> DEFINE c == Ctx("enqueue", FALSE, t, "run")
<1>1. /\ TypeOK /\ OneInside /\ States /\ Lists(r, q)
      /\ Mode = "run" /\ tail = LastOf(r) /\ Running # Irq
      /\ state[current] = "running" /\ Running # Idle
  BY CallFacts DEF StartThread
<1>2. c \in Contexts /\ c.pc = "enqueue" /\ c.arg = t /\ c.ret = "run"
  BY DEF Ctx, Contexts, PcNames
<1>3. /\ Become(c) /\ state[t] = "new" /\ t # Idle
      /\ state' = [state EXCEPT ![t] = "starting"]
      /\ UNCHANGED <<head, tail, thead, ttail, next, current>>
  BY ThreadsAssumption DEF StartThread, links
<1> HIDE DEF c
<1>4. /\ Running' = Running /\ Me' = c
      /\ ctx' \in [Thread \cup {Irq} -> Contexts]
      /\ \A x \in Thread : x # Running' \/ x = Idle => (ctx[x].pc)' = "run"
  BY <1>1, <1>2, <1>3, GoesOn
<1>5. Me'.pc = "enqueue" /\ Me'.ret = "run" /\ Me'.arg = t /\ Mode' = "run"
  BY <1>2, <1>4 DEF Mode, Enqueuing, Dequeuing
<1>6. /\ state' \in [Thread -> StateNames] /\ state'[t] = "starting"
      /\ \A x \in Thread : x # t => state'[x] = state[x]
  <2>1. state \in [Thread -> StateNames] /\ "starting" \in StateNames
    BY <1>1 DEF TypeOK, StateNames
  <2>2. QED
    BY <1>3, <2>1, Overwrite
<1>7. t # current /\ current \in Thread /\ t \notin ToSet(r) /\ t \notin ToSet(q)
  BY <1>1, <1>3, InvFacts DEF TypeOK
<1>8. OneInside' /\ States'
  <2>1. OneInside'
    BY <1>1, <1>4, <1>5 DEF OneInside, Enqueuing
  <2>2. state'[Idle] = state[Idle] /\ state'[current] = "running"
    BY <1>1, <1>3, <1>6, <1>7, InvFacts
  <2>3. QED
    BY <1>1, <1>3, <2>1, <2>2 DEF States
<1>9. TypeOK'
  BY <1>1, <1>3, <1>4, <1>6 DEF TypeOK
<1>10. Lists(r, q)'
  BY <1>1, <1>3, <1>6, <1>7, InvFacts DEF Lists
<1>11. CallAt(r, q)'
  BY <1>1, <1>3, <1>4, <1>5, <1>6, <1>7 DEF CallAt, At, TailAt, EnqueueAt, DequeueAt, Enqueuing
<1>12. QED
  BY <1>8, <1>9, <1>10, <1>11 DEF Inv

LEMMA BlockStep ==
  ASSUME NEW r, NEW q, Inv(r, q), Block
  PROVE  Inv(r, q)'
<1> DEFINE c == Ctx("dequeue", TRUE, None, "switchaway")
<1>1. /\ TypeOK /\ OneInside /\ States /\ Lists(r, q)
      /\ Mode = "run" /\ tail = LastOf(r) /\ Running # Irq
      /\ Running # Idle /\ Running = current /\ current \in Thread
      /\ current \notin ToSet(r) /\ current \notin ToSet(q)
  BY CallFacts DEF Block
<1>2. c \in Contexts /\ c.pc = "dequeue" /\ c.ret = "switchaway"
  BY DEF Ctx, Contexts, PcNames
<1>3. /\ Become(c)
      /\ state' = [state EXCEPT ![current] = "blocked"]
      /\ UNCHANGED <<head, tail, thead, ttail, next, current>>
  BY DEF Block, links, Masked
<1> HIDE DEF c
<1>4. /\ Running' = Running /\ Me' = c
      /\ ctx' \in [Thread \cup {Irq} -> Contexts]
      /\ \A x \in Thread : x # Running' \/ x = Idle => (ctx[x].pc)' = "run"
  BY <1>1, <1>2, <1>3, GoesOn
<1>5. Me'.pc = "dequeue" /\ Me'.ret = "switchaway" /\ Mode' = "switchaway"
  BY <1>2, <1>4 DEF Mode, Enqueuing, Dequeuing
<1>6. /\ state' \in [Thread -> StateNames]
      /\ \A x \in Thread : x # current => state'[x] = state[x]
  <2>1. state \in [Thread -> StateNames] /\ "blocked" \in StateNames
    BY <1>1 DEF TypeOK, StateNames
  <2>2. QED
    BY <1>1, <1>3, <2>1, Overwrite
<1>8. OneInside' /\ States'
  <2>1. OneInside'
    BY <1>1, <1>4, <1>5 DEF OneInside, Dequeuing
  <2>2. state'[Idle] = state[Idle]
    BY <1>1, <1>6, InvFacts
  <2>3. QED
    BY <1>1, <1>5, <2>1, <2>2 DEF States
<1>9. TypeOK'
  BY <1>1, <1>3, <1>4, <1>6 DEF TypeOK
<1>10. Lists(r, q)'
  BY <1>1, <1>3, <1>6, InvFacts DEF Lists
<1>11. CallAt(r, q)'
  BY <1>1, <1>3, <1>4, <1>5 DEF CallAt, At, TailAt, EnqueueAt, DequeueAt, Enqueuing
<1>12. QED
  BY <1>8, <1>9, <1>10, <1>11 DEF Inv

(* The interrupt comes between two statements of the threads' code.        *)
LEMMA TickStep ==
  ASSUME NEW r, NEW q, Inv(r, q), Tick, Preempt = {}
  PROVE  Inv(r, q)'
<1> DEFINE c == Ctx("dequeue", TRUE, None, "chosen")
<1>1. /\ TypeOK /\ OneInside /\ States /\ Lists(r, q) /\ TailAt(r)
  BY DEF Inv, CallAt
<1>2. /\ Running = current /\ current \in Thread /\ Me = ctx[current] /\ Irq \notin Thread
  BY <1>1, InvFacts DEF Tick, Running, Me, TypeOK
<1>3. Me.pc = "run"
  BY <1>2 DEF Tick, Interruptible
<1>4. Mode = "run" /\ state[current] = "running" /\ tail = LastOf(r)
  BY <1>1, <1>3 DEF Mode, Enqueuing, Dequeuing, States, TailAt, At
<1>5. /\ ctx' = [ctx EXCEPT ![Irq] = c]
      /\ UNCHANGED <<head, tail, thead, ttail, next, state, current>>
  BY DEF Tick, links
<1>6. c \in Contexts /\ c.pc = "dequeue" /\ c.ret = "chosen"
  BY DEF Ctx, Contexts, PcNames
<1> HIDE DEF c
<1>7. /\ ctx' \in [Thread \cup {Irq} -> Contexts] /\ ctx'[Irq] = c
      /\ \A x \in Thread : ctx'[x].pc = "run"
  <2>1. /\ ctx' \in [Thread \cup {Irq} -> Contexts] /\ ctx'[Irq] = c
        /\ \A x \in Thread : ctx'[x] = ctx[x]
    BY <1>1, <1>2, <1>5, <1>6 DEF TypeOK
  <2>2. \A x \in Thread : ctx[x].pc = "run"
    BY <1>1, <1>2, <1>3 DEF OneInside
  <2>3. QED
    BY <2>1, <2>2
<1>8. Running' = Irq /\ Me' = c
  BY <1>6, <1>7 DEF Running, Me
<1>9. Me'.pc = "dequeue" /\ Me'.ret = "chosen" /\ Mode' = "chosen"
  BY <1>6, <1>8 DEF Mode, Enqueuing, Dequeuing
<1>10. TypeOK' /\ Lists(r, q)'
  BY <1>1, <1>5, <1>7 DEF TypeOK, Lists
<1>11. OneInside' /\ States'
  BY <1>1, <1>4, <1>5, <1>7, <1>8, <1>9 DEF OneInside, States, Dequeuing
<1>12. CallAt(r, q)'
  BY <1>4, <1>5, <1>9 DEF CallAt, At, TailAt, EnqueueAt, DequeueAt, Enqueuing
<1>13. QED
  BY <1>10, <1>11, <1>12 DEF Inv

LEMMA ChosenStep ==
  ASSUME NEW r, NEW q, Inv(r, q), Chosen
  PROVE  Inv(r, q)'
<1>0. PICK t : t = IF Me.arg = None THEN Idle ELSE Me.arg
  OBVIOUS
<1> DEFINE e == [Ctx("enqueue", TRUE, current, "dispatch") EXCEPT !.keep = t]
           d == [Ctx("dispatch", TRUE, None, "dispatch") EXCEPT !.keep = t]
<1>1. /\ TypeOK /\ OneInside /\ States /\ Lists(r, q) /\ TailAt(r) /\ DequeueAt(r)
  BY DEF Inv, CallAt
<1>2. /\ Me.pc = "chosen" /\ Mode = "chosen"
      /\ tail = LastOf(r) /\ (Me.arg = None \/ Held(Me.arg, r))
  BY <1>1, InvFacts DEF Chosen, At, TailAt, DequeueAt, Enqueuing, Dequeuing, Mode
<1>3. /\ Running = Irq /\ current \in Thread /\ state[current] = "running"
      /\ Running # Idle
  BY <1>1, <1>2, InvFacts DEF OneInside, States, TypeOK
<1>4. t \in Thread /\ (t = Idle \/ Held(t, r))
  BY <1>0, <1>2, InvFacts DEF Held
<1>5. UNCHANGED <<links, state, current>>
  BY DEF Chosen
<1>6. CASE current # Idle /\ state[current] \notin {"terminated", "blocked"}
  <2>1. Become(e)
    BY <1>0, <1>6 DEF Chosen
  <2>2. /\ e \in Contexts /\ e.pc = "enqueue" /\ e.ret = "dispatch" /\ e.arg = current /\ e.keep = t
    BY <1>3, <1>4 DEF Ctx, Contexts, PcNames
  <2> HIDE DEF e
  <2>3. /\ Running' = Running /\ Me' = e
        /\ \A x \in Thread : x # Running' \/ x = Idle => (ctx[x].pc)' = "run"
        /\ TypeOK' /\ Lists(r, q)'
        /\ UNCHANGED <<head, tail, thead, ttail, next, state, current>>
    BY <1>2, <1>5, <2>1, <2>2, CtxOnly
  <2>4. /\ Me'.pc = "enqueue" /\ Me'.ret = "dispatch" /\ Me'.arg = current /\ Me'.keep = t
        /\ Mode' = "dispatch"
    BY <2>2, <2>3 DEF Mode, Enqueuing, Dequeuing
  <2>5. OneInside' /\ States'
    BY <1>1, <1>3, <2>3, <2>4 DEF OneInside, States, Enqueuing
  <2>6. TailAt(r)' /\ DequeueAt(r)'
    BY <1>2, <2>3, <2>4 DEF At, TailAt, DequeueAt
  <2>7. t # current
    BY <1>3, <1>4, <1>6 DEF Held
  <2>8. EnqueueAt(r)'
    BY <1>3, <1>4, <1>6, <2>3, <2>4, <2>7 DEF At, EnqueueAt, Enqueuing, Held
  <2>9. QED
    BY <2>3, <2>4, <2>5, <2>6, <2>8 DEF Inv, CallAt, At
<1>7. CASE ~ (current # Idle /\ state[current] \notin {"terminated", "blocked"})
  <2>1. Become(d)
    BY <1>0, <1>7 DEF Chosen
  <2>2. d \in Contexts /\ d.pc = "dispatch" /\ d.keep = t
    BY <1>4 DEF Ctx, Contexts, PcNames
  <2> HIDE DEF d
  <2>3. /\ Running' = Running /\ Me' = d
        /\ \A x \in Thread : x # Running' \/ x = Idle => (ctx[x].pc)' = "run"
        /\ TypeOK' /\ Lists(r, q)'
        /\ UNCHANGED <<head, tail, thead, ttail, next, state, current>>
    BY <1>2, <1>5, <2>1, <2>2, CtxOnly
  <2>4. Me'.pc = "dispatch" /\ Me'.keep = t /\ Mode' = "dispatch"
    BY <2>2, <2>3 DEF Mode, Enqueuing, Dequeuing
  <2>5. OneInside' /\ States'
    BY <1>1, <1>3, <2>3, <2>4 DEF OneInside, States
  <2>6. CallAt(r, q)'
    BY <1>2, <1>4, <2>3, <2>4 DEF CallAt, At, TailAt, EnqueueAt, DequeueAt, Enqueuing, Held
  <2>7. QED
    BY <2>3, <2>5, <2>6 DEF Inv
<1>8. QED
  BY <1>6, <1>7

LEMMA DispatchStep ==
  ASSUME NEW r, NEW q, Inv(r, q), Dispatch
  PROVE  Inv(r, q)'
<1>0. PICK t : t = Me.keep
  OBVIOUS
<1> DEFINE c == [Ctx("reap", TRUE, thead, "off") EXCEPT !.keep = current]
<1>1. /\ TypeOK /\ OneInside /\ States /\ Lists(r, q) /\ TailAt(r) /\ EnqueueAt(r)
  BY DEF Inv, CallAt
<1>2. /\ Me.pc = "dispatch" /\ Mode = "dispatch" /\ tail = LastOf(r)
      /\ (t = Idle \/ Held(t, r)) /\ Linked(thead, q, next)
  BY <1>0, <1>1 DEF Dispatch, At, TailAt, EnqueueAt, Enqueuing, Dequeuing, Mode, Lists
<1>3. /\ Running = Irq /\ current \in Thread /\ thead \in Thread \cup {None}
      /\ t \in Thread /\ t \notin ToSet(r) /\ t \notin ToSet(q) /\ Irq \notin Thread
  BY <1>1, <1>2, InvFacts DEF OneInside, TypeOK, Held
<1>4. /\ Become(c) /\ current' = t /\ state' = [state EXCEPT ![t] = "running"]
      /\ UNCHANGED <<head, tail, thead, ttail, next>>
  BY <1>0 DEF Dispatch, links
<1>5. c \in Contexts /\ c.pc = "reap" /\ c.arg = thead /\ c.prev = None
  BY <1>3 DEF Ctx, Contexts, PcNames
<1> HIDE DEF c
<1>6. /\ ctx' \in [Thread \cup {Irq} -> Contexts] /\ ctx'[Irq] = c
      /\ \A x \in Thread : ctx'[x].pc = "run"
  <2>1. /\ ctx' \in [Thread \cup {Irq} -> Contexts] /\ ctx'[Irq] = c
        /\ \A x \in Thread : ctx'[x] = ctx[x]
    BY <1>1, <1>3, <1>4, <1>5 DEF Become, TypeOK
  <2>2. \A x \in Thread : ctx[x].pc = "run"
    BY <1>1, <1>3 DEF OneInside
  <2>3. QED
    BY <2>1, <2>2
<1>7. Running' = Irq /\ Me' = c
  BY <1>5, <1>6 DEF Running, Me
<1>8. Me'.pc = "reap" /\ Me'.arg = thead /\ Me'.prev = None /\ Mode' = "reap"
  BY <1>5, <1>7 DEF Mode, Enqueuing, Dequeuing
<1>9. /\ state' \in [Thread -> StateNames] /\ state'[t] = "running"
      /\ \A x \in Thread : x # t => state'[x] = state[x]
  <2>1. state \in [Thread -> StateNames] /\ "running" \in StateNames
    BY <1>1 DEF TypeOK, StateNames
  <2>2. QED
    BY <1>3, <1>4, <2>1, Overwrite
<1>10. TypeOK'
  BY <1>1, <1>3, <1>4, <1>6, <1>9 DEF TypeOK
<1>11. Lists(r, q)'
  BY <1>1, <1>3, <1>4, <1>9, InvFacts DEF Lists
<1>12. OneInside'
  BY <1>6, <1>7, <1>8 DEF OneInside
<1>13. States'
  BY <1>1, <1>3, <1>4, <1>8, <1>9, InvFacts DEF States
<1>14. Cursor(q)'
  <2>1. thead # None => 1 \in 1 .. Len(q) /\ thead = q[1]
    BY <1>2, ListFacts
  <2>2. QED
    BY <1>8, <2>1 DEF Cursor, PlaceIn, Before
<1>15. CallAt(r, q)'
  BY <1>2, <1>4, <1>8, <1>14 DEF CallAt, At, TailAt, EnqueueAt, DequeueAt, Enqueuing
<1>16. QED
  BY <1>10, <1>11, <1>12, <1>13, <1>15 DEF Inv

LEMMA ReapEndStep ==
  ASSUME NEW r, NEW q, Inv(r, q), ReapEnd
  PROVE  Inv(r, q)'
<1> DEFINE c == Ctx("off", TRUE, None, "off")
<1>1. /\ TypeOK /\ OneInside /\ States /\ Lists(r, q) /\ TailAt(r)
  BY DEF Inv, CallAt
<1>2. Me.pc = "reap" /\ Mode = "reap" /\ tail = LastOf(r)
  BY <1>1 DEF ReapEnd, At, TailAt, Enqueuing, Dequeuing, Mode
<1>3. /\ Running = Irq /\ current \in Thread /\ state[current] = "running" /\ Irq \notin Thread
  BY <1>1, <1>2, InvFacts DEF OneInside, States, TypeOK
<1>4. Become(c) /\ UNCHANGED <<head, tail, thead, ttail, next, state, current>>
  BY DEF ReapEnd, links
<1>5. c \in Contexts /\ c.pc = "off"
  BY DEF Ctx, Contexts, PcNames
<1> HIDE DEF c
<1>6. /\ ctx' \in [Thread \cup {Irq} -> Contexts] /\ ctx'[Irq].pc = "off"
      /\ \A x \in Thread : ctx'[x].pc = "run"
  <2>1. /\ ctx' \in [Thread \cup {Irq} -> Contexts] /\ ctx'[Irq] = c
        /\ \A x \in Thread : ctx'[x] = ctx[x]
    BY <1>1, <1>3, <1>4, <1>5 DEF Become, TypeOK
  <2>2. \A x \in Thread : ctx[x].pc = "run"
    BY <1>1, <1>3 DEF OneInside
  <2>3. QED
    BY <1>5, <2>1, <2>2
<1>7. Running' = current
  BY <1>4, <1>6 DEF Running
<1>8. Me'.pc = "run"
  BY <1>3, <1>6, <1>7 DEF Me
<1>9. Mode' = "run" /\ Running' # Irq
  BY <1>3, <1>7, <1>8 DEF Mode, Enqueuing, Dequeuing
<1>10. TypeOK' /\ Lists(r, q)'
  BY <1>1, <1>4, <1>6 DEF TypeOK, Lists
<1>11. OneInside' /\ States'
  BY <1>1, <1>3, <1>4, <1>6, <1>8, <1>9 DEF OneInside, States
<1>12. CallAt(r, q)'
  BY <1>2, <1>4, <1>8, <1>9 DEF CallAt, At, TailAt, EnqueueAt, DequeueAt, Enqueuing
<1>13. QED
  BY <1>10, <1>11, <1>12 DEF Inv

(* A thread joins the terminated queue.                                    *)
Buried(q, z, t, nx) ==
  /\ Linked(thead', z, next') /\ ttail' = LastOf(z) /\ ToSet(z) = ToSet(q) \cup {t}
  /\ next' \in [Thread -> Thread \cup {None}] /\ next'[t] = None
  /\ \A x \in Thread : x # t /\ x \notin ToSet(q) => next'[x] = nx[x]
  /\ state' \in [Thread -> StateNames] /\ state'[t] = "terminated"
  /\ \A x \in Thread : x # t => state'[x] = state[x]
  /\ thead' \in Thread \cup {None} /\ ttail' \in Thread \cup {None}

LEMMA BuryFacts ==
  ASSUME NEW q, NEW z, NEW t \in Thread, NEW nx \in [Thread -> Thread \cup {None}], Bury(t, nx),
         Linked(thead, q, next), ttail = LastOf(q), t \notin ToSet(q),
         \A x \in ToSet(q) : nx[x] = next[x],
         state \in [Thread -> StateNames], thead \in Thread \cup {None}, z = Append(q, t)
  PROVE  Buried(q, z, t, nx)
<1>1. /\ q \in Seq(Thread) /\ ToSet(q) \subseteq Thread /\ None \notin Thread
      /\ (q # <<>> => ttail \in ToSet(q) /\ ttail # None)
      /\ (q = <<>> => ttail = None)
  <2>1. q \in Seq(Thread) /\ ToSet(q) \subseteq Thread
    BY ListFacts
  <2>2. /\ (q # <<>> => LastOf(q) \in ToSet(q) /\ LastOf(q) # None)
        /\ (q = <<>> => LastOf(q) = None)
    BY ListEnds
  <2>3. QED
    BY <2>1, <2>2, ThreadsAssumption
<1>2. /\ next' \in [Thread -> Thread \cup {None}] /\ next'[t] = None
      /\ (q # <<>> => next'[ttail] = t)
      /\ \A x \in Thread : x # t /\ x # ttail => next'[x] = nx[x]
  <2> DEFINE f == [nx EXCEPT ![t] = None]
  <2>1. /\ f \in [Thread -> Thread \cup {None}] /\ f[t] = None
        /\ \A x \in Thread : x # t => f[x] = nx[x]
    OBVIOUS
  <2>2. CASE q = <<>>
    <3>1. next' = f
      BY <1>1, <2>2 DEF Bury
    <3> HIDE DEF f
    <3>2. QED
      BY <2>1, <2>2, <3>1
  <2>3. CASE q # <<>>
    <3>1. ttail \in Thread /\ ttail # t /\ ttail # None
      BY <1>1, <2>3
    <3>2. next' = [f EXCEPT ![ttail] = t]
      BY <2>3, <3>1 DEF Bury
    <3> HIDE DEF f
    <3>3. /\ next' \in [Thread -> Thread \cup {None}] /\ next'[ttail] = t
          /\ \A x \in Thread : x # ttail => next'[x] = f[x]
      BY <2>1, <3>1, <3>2
    <3>4. QED
      BY <2>1, <3>1, <3>3
  <2>4. QED
    BY <2>2, <2>3
<1>3. /\ state' \in [Thread -> StateNames] /\ state'[t] = "terminated"
      /\ \A x \in Thread : x # t => state'[x] = state[x]
  <2>1. "terminated" \in StateNames /\ state' = [state EXCEPT ![t] = "terminated"]
    BY DEF Bury, StateNames
  <2>2. QED
    BY <2>1, Overwrite
<1>4. LastOf(z) = t /\ ToSet(z) = ToSet(q) \cup {t}
  BY <1>1, AppendFacts
<1>5. Linked(thead', z, next')
  <2>1. thead' = IF q = <<>> THEN t ELSE thead
    BY <1>1 DEF Bury
  <2>2. (q # <<>> => next'[LastOf(q)] = t) /\ next'[t] = None
    BY <1>2
  <2>3. \A x \in ToSet(q) : x # LastOf(q) => next'[x] = next[x]
    BY <1>1, <1>2
  <2>4. PICK g, ny : g = thead' /\ ny = next'
    OBVIOUS
  <2>5. /\ t \in Thread /\ t \notin ToSet(q) /\ ny[t] = None
        /\ (q # <<>> => ny[LastOf(q)] = t)
        /\ \A x \in ToSet(q) : x # LastOf(q) => ny[x] = next[x]
        /\ (q = <<>> => g = t) /\ (q # <<>> => g = thead)
    BY <2>1, <2>2, <2>3, <2>4
  <2>6. Linked(g, z, ny)
    <3>1. Linked(thead, q, next) /\ z = Append(q, t)
      OBVIOUS
    <3>2. QED
      BY ONLY <2>5, <3>1, LongerList
  <2>7. QED
    BY <2>4, <2>6
<1>6. ttail' = t /\ thead' \in Thread \cup {None}
  BY DEF Bury
<1>7. \A x \in Thread : x # t /\ x \notin ToSet(q) => next'[x] = nx[x]
  <2>1. q = <<>> => ttail \notin Thread
    BY <1>1
  <2>2. QED
    BY <1>1, <1>2, <2>1
<1>8. QED
  BY <1>2, <1>3, <1>4, <1>5, <1>6, <1>7 DEF Buried

LEMMA TerminateStep ==
  ASSUME NEW r, NEW q, Inv(r, q), Terminate
  PROVE  \E t \in Thread \ (ToSet(r) \cup ToSet(q)) : Inv(r, Append(q, t))'
<1>0. PICK t : t = current
  OBVIOUS
<1>z. PICK z : z = Append(q, t)
  OBVIOUS
<1> DEFINE c == Ctx("dequeue", TRUE, None, "switchaway")
<1>1. /\ TypeOK /\ OneInside /\ States /\ Lists(r, q)
      /\ Mode = "run" /\ tail = LastOf(r) /\ Running # Irq
      /\ Running # Idle /\ Running = current /\ t \in Thread
      /\ t \notin ToSet(r) /\ t \notin ToSet(q)
  BY <1>0, CallFacts DEF Terminate
<1>2. c \in Contexts /\ c.pc = "dequeue" /\ c.ret = "switchaway"
  BY DEF Ctx, Contexts, PcNames
<1>3. Become(c) /\ Bury(t, next) /\ UNCHANGED <<head, tail, current>>
  BY <1>0 DEF Terminate, Masked
<1> HIDE DEF c
<1>4. /\ Running' = Running /\ Me' = c
      /\ ctx' \in [Thread \cup {Irq} -> Contexts]
      /\ \A x \in Thread : x # Running' \/ x = Idle => (ctx[x].pc)' = "run"
  BY <1>1, <1>2, <1>3, GoesOn
<1>5. Me'.pc = "dequeue" /\ Me'.ret = "switchaway" /\ Mode' = "switchaway"
  BY <1>2, <1>4 DEF Mode, Enqueuing, Dequeuing
<1>6. Buried(q, z, t, next)
  <2>1. /\ next \in [Thread -> Thread \cup {None}] /\ Linked(thead, q, next) /\ ttail = LastOf(q)
        /\ state \in [Thread -> StateNames] /\ thead \in Thread \cup {None}
    BY <1>1 DEF TypeOK, Lists
  <2>2. \A x \in ToSet(q) : next[x] = next[x]
    OBVIOUS
  <2>3. QED
    BY <1>z, <1>1, <1>3, <2>1, <2>2, BuryFacts
<1>7. OneInside' /\ States'
  <2>1. OneInside'
    BY <1>1, <1>4, <1>5 DEF OneInside, Dequeuing
  <2>2. state'[Idle] = state[Idle]
    BY <1>0, <1>1, <1>6, InvFacts DEF Buried
  <2>3. QED
    BY <1>1, <1>5, <2>1, <2>2 DEF States
<1>8. TypeOK'
  BY <1>1, <1>3, <1>4, <1>6 DEF TypeOK, Buried
<1>9. Lists(r, z)'
  <2>1. \A x \in ToSet(r) : x \in Thread /\ x # t /\ x \notin ToSet(q)
    BY <1>1, InvFacts
  <2>2. Linked(head, r, next')
    <3>1. Linked(head, r, next) /\ \A x \in ToSet(r) : next'[x] = next[x]
      BY <1>1, <1>6, <2>1 DEF Lists, Buried
    <3>2. QED
      BY <3>1, SameList
  <2>3. \A x \in ToSet(q) : x \in Thread
    BY InvFacts
  <2>4. QED
    BY <1>1, <1>3, <1>6, <2>1, <2>2, <2>3 DEF Lists, Buried
<1>10. CallAt(r, z)'
  BY <1>1, <1>3, <1>4, <1>5 DEF CallAt, At, TailAt, EnqueueAt, DequeueAt, Enqueuing
<1>11. Inv(r, z)'
  BY <1>7, <1>8, <1>9, <1>10 DEF Inv
<1>12. QED
  BY <1>z, <1>1, <1>11

(* The loops move on to the next thread, past one that stays and past one  *)
(* that goes.                                                              *)
LEMMA CursorMoves ==
  ASSUME NEW h, NEW s, NEW nx, Linked(h, s, nx), NEW i \in 1 .. Len(s), nx[s[i]] # None
  PROVE  PlaceIn(s, nx[s[i]], s[i])
<1>1. Len(s) \in Nat /\ nx[s[i]] = IF i = Len(s) THEN None ELSE s[i + 1]
  BY ListFacts
<1>2. i + 1 \in 1 .. Len(s) /\ nx[s[i]] = s[i + 1] /\ i + 1 # 1 /\ (i + 1) - 1 = i
  BY <1>1
<1>3. QED
  BY <1>2 DEF PlaceIn, Before

LEMMA CursorStays ==
  ASSUME NEW h, NEW s, NEW nx, Linked(h, s, nx), NEW i \in 1 .. Len(s), nx[s[i]] # None,
         NEW z, Cut(s, i, z)
  PROVE  PlaceIn(z, nx[s[i]], Before(s, i))
<1>1. Len(s) \in Nat /\ nx[s[i]] = IF i = Len(s) THEN None ELSE s[i + 1]
  BY ListFacts
<1>2. i \in 1 .. Len(s) - 1 /\ nx[s[i]] = s[i + 1]
  BY <1>1
<1>3. z[i] = s[i + 1] /\ Len(z) = Len(s) - 1
  BY <1>2 DEF Cut
<1>4. i # 1 => z[i - 1] = s[i - 1]
  <2>1. i # 1 => i - 1 \in 1 .. Len(s) - 1 /\ i - 1 < i
    BY <1>1, <1>2
  <2>2. QED
    BY <2>1 DEF Cut
<1>5. QED
  BY <1>2, <1>3, <1>4 DEF PlaceIn, Before

(* The loop over the ready queue, at a thread that it kills.               *)
LEMMA KillStep ==
  ASSUME NEW r, NEW q, Inv(r, q), SweepThread, Me.arg \in Doomed, Me.arg # current
  PROVE  \E i \in 1 .. Len(r) : Inv(RemoveAt(r, i), Append(q, r[i]))'
<1>0. PICK t, p, after : t = Me.arg /\ p = Me.prev /\ after = next[t]
  OBVIOUS
<1>1. /\ TypeOK /\ OneInside /\ States /\ Lists(r, q) /\ TailAt(r) /\ Cursor(r)
  BY DEF Inv, CallAt, SweepThread
<1>2. /\ Me \in Contexts /\ Me.pc = "sweep" /\ Mode = "sweep" /\ t # None
      /\ tail = LastOf(r) /\ Linked(head, r, next) /\ Linked(thead, q, next) /\ ttail = LastOf(q)
  BY <1>0, <1>1, InvFacts DEF SweepThread, At, TailAt, Enqueuing, Dequeuing, Mode, Lists
<1>3. PICK i \in 1 .. Len(r) : t = r[i] /\ p = Before(r, i)
  BY <1>0, <1>1, <1>2 DEF Cursor, PlaceIn
<1>4. PICK z, y : z = RemoveAt(r, i) /\ y = Append(q, t)
  OBVIOUS
<1>5. /\ t \in Thread /\ t \in ToSet(r) /\ t \notin ToSet(q) /\ t # Idle /\ t # current
      /\ Len(r) \in Nat /\ r # <<>> /\ None \notin Thread
      /\ (i # 1 => p \in ToSet(r) /\ p \in Thread /\ p # t) /\ (i = 1 => p = None)
      /\ (tail = t <=> i = Len(r))
      /\ after \in Thread \cup {None} /\ current \in Thread
      /\ next \in [Thread -> Thread \cup {None}] /\ state \in [Thread -> StateNames]
  <2>1. /\ Len(r) \in Nat /\ \A j \in 1 .. Len(r) : r[j] \in Thread /\ r[j] \in ToSet(r)
        /\ \A j, k \in 1 .. Len(r) : r[j] = r[k] => j = k
        /\ (r = <<>> => Len(r) = 0) /\ None \notin Thread
    BY <1>2, ListFacts, InvFacts
  <2>2. t \in Thread /\ t \in ToSet(r) /\ r # <<>>
    BY <1>3, <2>1
  <2>3. i # 1 => i - 1 \in 1 .. Len(r) /\ i - 1 # i
    BY <2>1
  <2>4. (i # 1 => p \in ToSet(r) /\ p \in Thread /\ p # t) /\ (i = 1 => p = None)
    BY <1>3, <2>1, <2>3 DEF Before
  <2>5. tail = r[Len(r)] /\ Len(r) \in 1 .. Len(r)
    BY <1>2, <2>1, <2>2 DEF LastOf
  <2>6. tail = t <=> i = Len(r)
    BY <1>3, <2>1, <2>5
  <2>7. t \notin ToSet(q) /\ t # Idle
    BY <2>2, InvFacts
  <2>8. /\ next \in [Thread -> Thread \cup {None}] /\ state \in [Thread -> StateNames]
        /\ current \in Thread
    BY <1>1 DEF TypeOK
  <2>9. after \in Thread \cup {None} /\ t # current
    BY <1>0, <2>2, <2>8
  <2>10. QED
    BY <2>1, <2>2, <2>4, <2>6, <2>7, <2>8, <2>9
<1> DEFINE nx == IF p = None THEN next ELSE [next EXCEPT ![p] = after]
           c == [Me EXCEPT !.arg = after]
<1>6. /\ head' = IF p = None THEN after ELSE head
      /\ tail' = IF tail = t THEN p ELSE tail
      /\ Bury(t, nx) /\ Become(c) /\ UNCHANGED current
  BY <1>0 DEF SweepThread
<1>7. c \in Contexts /\ c.pc = "sweep" /\ c.arg = after /\ c.prev = p
  BY <1>0, <1>2, <1>5 DEF Contexts
<1> HIDE DEF c
<1>8. /\ Running' = Running /\ Me' = c
      /\ ctx' \in [Thread \cup {Irq} -> Contexts]
      /\ \A x \in Thread : x # Running' \/ x = Idle => (ctx[x].pc)' = "run"
  BY <1>1, <1>2, <1>6, <1>7, GoesOn
<1>9. Me'.pc = "sweep" /\ Me'.arg = after /\ Me'.prev = p /\ Mode' = "sweep"
  BY <1>7, <1>8 DEF Mode, Enqueuing, Dequeuing
<1>10. /\ nx \in [Thread -> Thread \cup {None}]
       /\ \A x \in Thread : nx[x] = IF i > 1 /\ x = p THEN after ELSE next[x]
  <2>1. CASE i = 1
    BY <1>5, <2>1
  <2>2. CASE i # 1
    <3>1. p # None /\ i > 1
      BY <1>5, <2>2
    <3>2. nx = [next EXCEPT ![p] = after]
      BY <3>1
    <3> HIDE DEF nx
    <3>3. QED
      BY <1>5, <2>2, <3>1, <3>2
  <2>3. QED
    BY <2>1, <2>2
<1> HIDE DEF nx
<1>11. Buried(q, y, t, nx)
  <2>1. thead \in Thread \cup {None} /\ state \in [Thread -> StateNames]
    BY <1>1 DEF TypeOK
  <2>2. \A x \in ToSet(q) : nx[x] = next[x]
    <3>1. \A x \in ToSet(q) : x \in Thread /\ x \notin ToSet(r)
      BY InvFacts
    <3>2. i > 1 => p \in ToSet(r)
      BY <1>5
    <3>3. QED
      BY <1>10, <3>1, <3>2
  <2>3. QED
    BY <1>2, <1>4, <1>5, <1>6, <1>10, <2>1, <2>2, BuryFacts
<1>12. /\ Linked(head', z, next') /\ tail' = LastOf(z) /\ ToSet(z) = ToSet(r) \ {t}
       /\ Cut(r, i, z)
  <2>1. PICK ny : ny = next'
    OBVIOUS
  <2>2. Skips(r, i, next, ny)
    <3>1. \A x \in ToSet(r) \ {t} : x \in Thread /\ x # t /\ x \notin ToSet(q)
      BY InvFacts
    <3>2. \A x \in ToSet(r) \ {t} : ny[x] = nx[x]
      BY <1>11, <2>1, <3>1 DEF Buried
    <3>3. i > 1 => p = r[i - 1]
      BY <1>3 DEF Before
    <3>4. QED
      BY <1>0, <1>3, <1>10, <3>1, <3>2, <3>3 DEF Skips
  <2>3. Without(head, r, i, next, ny, z)
    BY <1>2, <1>4, <2>2, ShorterList
  <2>4. head' = IF i = 1 THEN next[r[1]] ELSE head
    BY <1>0, <1>3, <1>5, <1>6
  <2>5. tail' = LastOf(z)
    BY <1>2, <1>3, <1>5, <1>6, <2>3 DEF Without
  <2>6. QED
    BY <1>3, <2>1, <2>3, <2>4, <2>5 DEF Without
<1>13. TypeOK'
  <2>1. head' \in Thread \cup {None} /\ tail' \in Thread \cup {None}
    BY <1>1, <1>5, <1>6 DEF TypeOK
  <2>2. QED
    BY <1>1, <1>6, <1>8, <1>11, <2>1 DEF TypeOK, Buried
<1>14. OneInside'
  BY <1>1, <1>2, <1>8, <1>9 DEF OneInside
<1>15. States'
  <2>1. state'[Idle] = state[Idle] /\ state'[current] = state[current]
    BY <1>5, <1>11, InvFacts DEF Buried
  <2>2. QED
    BY <1>1, <1>2, <1>6, <1>9, <2>1 DEF States
<1>16. Lists(z, y)'
  <2>1. /\ \A x \in ToSet(z) : x \in Thread /\ x # t /\ state[x] = "ready"
        /\ \A x \in ToSet(q) : x \in Thread /\ x # t /\ state[x] = "terminated"
    BY <1>5, <1>12, InvFacts
  <2>2. QED
    BY <1>11, <1>12, <2>1 DEF Lists, Buried
<1>17. Cursor(z)'
  <2>1. ASSUME after # None  PROVE PlaceIn(z, after, p)
    <3>1. next[r[i]] # None
      BY <1>0, <1>3, <2>1
    <3>2. PlaceIn(z, next[r[i]], Before(r, i))
      BY <1>2, <1>12, <3>1, CursorStays
    <3>3. QED
      BY <1>0, <1>3, <3>2
  <2>2. QED
    BY <1>9, <2>1 DEF Cursor
<1>18. CallAt(z, y)'
  BY <1>9, <1>12, <1>17 DEF CallAt, At, TailAt, EnqueueAt, DequeueAt, Enqueuing
<1>19. Inv(z, y)'
  BY <1>13, <1>14, <1>15, <1>16, <1>18 DEF Inv
<1>20. QED
  BY <1>3, <1>4, <1>19

LEMMA SweepThreadStep ==
  ASSUME NEW r, NEW q, Inv(r, q), SweepThread
  PROVE  \/ Inv(r, q)'
         \/ \E i \in 1 .. Len(r) : Inv(RemoveAt(r, i), Append(q, r[i]))'
<1>1. CASE Me.arg \in Doomed /\ Me.arg # current
  BY <1>1, KillStep
<1>2. CASE ~ (Me.arg \in Doomed /\ Me.arg # current)
  <2>0. PICK t, p, after : t = Me.arg /\ p = Me.prev /\ after = next[t]
    OBVIOUS
  <2>1. /\ TypeOK /\ OneInside /\ States /\ TailAt(r) /\ Cursor(r)
    BY DEF Inv, CallAt, SweepThread
  <2>2. /\ Me \in Contexts /\ Me.pc = "sweep" /\ Mode = "sweep" /\ t # None
        /\ tail = LastOf(r) /\ Linked(head, r, next)
    BY <2>0, <2>1, InvFacts DEF SweepThread, At, TailAt, Enqueuing, Dequeuing, Mode, Inv, Lists
  <2>3. PICK i \in 1 .. Len(r) : t = r[i]
    BY <2>0, <2>1, <2>2 DEF Cursor, PlaceIn
  <2>4. t \in Thread /\ after \in Thread \cup {None}
    BY <2>0, <2>1, <2>2, <2>3, ListFacts DEF TypeOK
  <2> DEFINE c == [Me EXCEPT !.arg = after, !.prev = t]
  <2>5. Become(c) /\ UNCHANGED <<links, state, current>>
    BY <1>2, <2>0 DEF SweepThread
  <2>6. c \in Contexts /\ c.pc = "sweep" /\ c.arg = after /\ c.prev = t
    BY <2>2, <2>4 DEF Contexts
  <2> HIDE DEF c
  <2>7. /\ Running' = Running /\ Me' = c
        /\ \A x \in Thread : x # Running' \/ x = Idle => (ctx[x].pc)' = "run"
        /\ TypeOK' /\ Lists(r, q)'
        /\ UNCHANGED <<head, tail, thead, ttail, next, state, current>>
    BY <2>2, <2>5, <2>6, CtxOnly
  <2>8. Me'.pc = "sweep" /\ Me'.arg = after /\ Me'.prev = t /\ Mode' = "sweep"
    BY <2>6, <2>7 DEF Mode, Enqueuing, Dequeuing
  <2>9. OneInside' /\ States'
    BY <2>1, <2>2, <2>7, <2>8 DEF OneInside, States
  <2>10. Cursor(r)'
    <3>1. after # None => PlaceIn(r, after, t)
      BY <2>0, <2>2, <2>3, CursorMoves
    <3>2. QED
      BY <2>8, <3>1 DEF Cursor
  <2>11. CallAt(r, q)'
    BY <2>2, <2>7, <2>8, <2>10 DEF CallAt, At, TailAt, EnqueueAt, DequeueAt, Enqueuing
  <2>12. QED
    BY <2>7, <2>9, <2>11 DEF Inv
<1>3. QED
  BY <1>1, <1>2

(* The reap loop, at a thread that it frees.                               *)
LEMMA FreeStep ==
  ASSUME NEW r, NEW q, Inv(r, q), ReapThread, Me.arg # Me.keep
  PROVE  \E i \in 1 .. Len(q) : Inv(r, RemoveAt(q, i))'
<1>0. PICK t, p, after : t = Me.arg /\ p = Me.prev /\ after = next[t]
  OBVIOUS
<1>1. /\ TypeOK /\ OneInside /\ States /\ Lists(r, q) /\ TailAt(r) /\ Cursor(q)
  BY DEF Inv, CallAt, ReapThread
<1>2. /\ Me \in Contexts /\ Me.pc = "reap" /\ Mode = "reap" /\ t # None
      /\ tail = LastOf(r) /\ Linked(head, r, next) /\ Linked(thead, q, next) /\ ttail = LastOf(q)
  BY <1>0, <1>1, InvFacts DEF ReapThread, At, TailAt, Enqueuing, Dequeuing, Mode, Lists
<1>3. PICK i \in 1 .. Len(q) : t = q[i] /\ p = Before(q, i)
  BY <1>0, <1>1, <1>2 DEF Cursor, PlaceIn
<1>4. PICK z : z = RemoveAt(q, i)
  OBVIOUS
<1>5. /\ t \in Thread /\ t \in ToSet(q) /\ t \notin ToSet(r) /\ t # Idle /\ t # current
      /\ Len(q) \in Nat /\ q # <<>> /\ None \notin Thread
      /\ (i # 1 => p \in ToSet(q) /\ p \in Thread /\ p # t) /\ (i = 1 => p = None)
      /\ (ttail = t <=> i = Len(q))
      /\ after \in Thread \cup {None} /\ p \in Thread \cup {None} /\ current \in Thread
      /\ next \in [Thread -> Thread \cup {None}] /\ state \in [Thread -> StateNames]
  <2>1. /\ Len(q) \in Nat /\ \A j \in 1 .. Len(q) : q[j] \in Thread /\ q[j] \in ToSet(q)
        /\ \A j, k \in 1 .. Len(q) : q[j] = q[k] => j = k
        /\ (q = <<>> => Len(q) = 0) /\ None \notin Thread
    BY <1>2, ListFacts, InvFacts
  <2>2. t \in Thread /\ t \in ToSet(q) /\ q # <<>>
    BY <1>3, <2>1
  <2>3. i # 1 => i - 1 \in 1 .. Len(q) /\ i - 1 # i
    BY <2>1
  <2>4. (i # 1 => p \in ToSet(q) /\ p \in Thread /\ p # t) /\ (i = 1 => p = None)
    BY <1>3, <2>1, <2>3 DEF Before
  <2>5. ttail = q[Len(q)] /\ Len(q) \in 1 .. Len(q)
    BY <1>2, <2>1, <2>2 DEF LastOf
  <2>6. ttail = t <=> i = Len(q)
    BY <1>3, <2>1, <2>5
  <2>7. t \notin ToSet(r) /\ t # Idle /\ state[t] = "terminated"
    BY <2>2, InvFacts
  <2>8. /\ next \in [Thread -> Thread \cup {None}] /\ state \in [Thread -> StateNames]
        /\ current \in Thread
    BY <1>1 DEF TypeOK
  <2>9. after \in Thread \cup {None} /\ t # current
    BY <1>0, <1>1, <1>2, <2>2, <2>7, <2>8 DEF States
  <2>10. QED
    BY <2>1, <2>2, <2>4, <2>6, <2>7, <2>8, <2>9
<1> DEFINE c == [Me EXCEPT !.arg = after]
<1>6. /\ thead' = IF p = None THEN after ELSE thead
      /\ ttail' = IF ttail = t THEN p ELSE ttail
      /\ next' = [x \in Thread |-> IF x = t THEN None ELSE IF x = p THEN after ELSE next[x]]
      /\ state' = [state EXCEPT ![t] = "freed"]
      /\ Become(c) /\ UNCHANGED <<head, tail, current>>
  BY <1>0 DEF ReapThread
<1>7. c \in Contexts /\ c.pc = "reap" /\ c.arg = after /\ c.prev = p
  BY <1>0, <1>2, <1>5 DEF Contexts
<1> HIDE DEF c
<1>8. /\ Running' = Running /\ Me' = c
      /\ ctx' \in [Thread \cup {Irq} -> Contexts]
      /\ \A x \in Thread : x # Running' \/ x = Idle => (ctx[x].pc)' = "run"
  BY <1>1, <1>2, <1>6, <1>7, GoesOn
<1>9. Me'.pc = "reap" /\ Me'.arg = after /\ Me'.prev = p /\ Mode' = "reap"
  BY <1>7, <1>8 DEF Mode, Enqueuing, Dequeuing
<1>10. /\ next' \in [Thread -> Thread \cup {None}]
       /\ \A x \in Thread : next'[x] = IF x = t THEN None ELSE IF x = p THEN after ELSE next[x]
  BY <1>5, <1>6
<1>11. /\ state' \in [Thread -> StateNames]
       /\ \A x \in Thread : x # t => state'[x] = state[x]
  <2>1. "freed" \in StateNames
    BY DEF StateNames
  <2>2. QED
    BY <1>5, <1>6, <2>1, Overwrite
<1>12. /\ Linked(thead', z, next') /\ ttail' = LastOf(z) /\ ToSet(z) = ToSet(q) \ {t}
       /\ Cut(q, i, z)
  <2>1. PICK ny : ny = next'
    OBVIOUS
  <2>2. Skips(q, i, next, ny)
    <3>1. \A x \in ToSet(q) \ {t} : x \in Thread /\ x # t
      BY InvFacts
    <3>2. i > 1 => p = q[i - 1]
      BY <1>3 DEF Before
    <3>3. (i > 1 <=> i # 1) /\ (i = 1 => p \notin Thread)
      BY <1>5
    <3>4. \A x \in ToSet(q) \ {t} : ny[x] = IF i > 1 /\ x = p THEN after ELSE next[x]
      BY <1>10, <2>1, <3>1, <3>3
    <3>5. QED
      BY <1>0, <1>3, <3>2, <3>4 DEF Skips
  <2>3. Without(thead, q, i, next, ny, z)
    BY <1>2, <1>4, <2>2, ShorterList
  <2>4. thead' = IF i = 1 THEN next[q[1]] ELSE thead
    BY <1>0, <1>3, <1>5, <1>6
  <2>5. ttail' = LastOf(z)
    BY <1>2, <1>3, <1>5, <1>6, <2>3 DEF Without
  <2>6. QED
    BY <1>3, <2>1, <2>3, <2>4, <2>5 DEF Without
<1>13. TypeOK'
  <2>1. thead' \in Thread \cup {None} /\ ttail' \in Thread \cup {None}
    BY <1>1, <1>5, <1>6 DEF TypeOK
  <2>2. QED
    BY <1>1, <1>6, <1>8, <1>10, <1>11, <2>1 DEF TypeOK
<1>14. OneInside'
  BY <1>1, <1>2, <1>8, <1>9 DEF OneInside
<1>15. States'
  <2>1. state'[Idle] = state[Idle] /\ state'[current] = state[current]
    BY <1>5, <1>11, InvFacts
  <2>2. QED
    BY <1>1, <1>2, <1>6, <1>9, <2>1 DEF States
<1>16. Lists(r, z)'
  <2>1. /\ \A x \in ToSet(z) : x \in Thread /\ x # t /\ state[x] = "terminated"
        /\ \A x \in ToSet(r) : x \in Thread /\ x # t /\ x # p /\ state[x] = "ready"
    BY <1>5, <1>12, InvFacts
  <2>2. Linked(head, r, next')
    <3>1. \A x \in ToSet(r) : next'[x] = next[x]
      BY <1>10, <2>1
    <3>2. QED
      BY <1>2, <3>1, SameList
  <2>3. QED
    BY <1>6, <1>11, <1>12, <2>1, <2>2 DEF Lists
<1>17. Cursor(z)'
  <2>1. ASSUME after # None  PROVE PlaceIn(z, after, p)
    <3>1. next[q[i]] # None
      BY <1>0, <1>3, <2>1
    <3>2. PlaceIn(z, next[q[i]], Before(q, i))
      BY <1>2, <1>12, <3>1, CursorStays
    <3>3. QED
      BY <1>0, <1>3, <3>2
  <2>2. QED
    BY <1>9, <2>1 DEF Cursor
<1>18. CallAt(r, z)'
  BY <1>2, <1>6, <1>9, <1>17 DEF CallAt, At, TailAt, EnqueueAt, DequeueAt, Enqueuing
<1>19. Inv(r, z)'
  BY <1>13, <1>14, <1>15, <1>16, <1>18 DEF Inv
<1>20. QED
  BY <1>3, <1>4, <1>19

LEMMA ReapThreadStep ==
  ASSUME NEW r, NEW q, Inv(r, q), ReapThread
  PROVE  \/ Inv(r, q)'
         \/ \E i \in 1 .. Len(q) : Inv(r, RemoveAt(q, i))'
<1>1. CASE Me.arg # Me.keep
  BY <1>1, FreeStep
<1>2. CASE Me.arg = Me.keep
  <2>0. PICK t, p, after : t = Me.arg /\ p = Me.prev /\ after = next[t]
    OBVIOUS
  <2>1. /\ TypeOK /\ OneInside /\ States /\ TailAt(r) /\ Cursor(q)
    BY DEF Inv, CallAt, ReapThread
  <2>2. /\ Me \in Contexts /\ Me.pc = "reap" /\ Mode = "reap" /\ t # None
        /\ tail = LastOf(r) /\ Linked(thead, q, next)
    BY <2>0, <2>1, InvFacts DEF ReapThread, At, TailAt, Enqueuing, Dequeuing, Mode, Inv, Lists
  <2>3. PICK i \in 1 .. Len(q) : t = q[i]
    BY <2>0, <2>1, <2>2 DEF Cursor, PlaceIn
  <2>4. t \in Thread /\ after \in Thread \cup {None}
    BY <2>0, <2>1, <2>2, <2>3, ListFacts DEF TypeOK
  <2> DEFINE c == [Me EXCEPT !.arg = after, !.prev = t]
  <2>5. Become(c) /\ UNCHANGED <<links, state, current>>
    BY <1>2, <2>0 DEF ReapThread, links
  <2>6. c \in Contexts /\ c.pc = "reap" /\ c.arg = after /\ c.prev = t
    BY <2>2, <2>4 DEF Contexts
  <2> HIDE DEF c
  <2>7. /\ Running' = Running /\ Me' = c
        /\ \A x \in Thread : x # Running' \/ x = Idle => (ctx[x].pc)' = "run"
        /\ TypeOK' /\ Lists(r, q)'
        /\ UNCHANGED <<head, tail, thead, ttail, next, state, current>>
    BY <2>2, <2>5, <2>6, CtxOnly
  <2>8. Me'.pc = "reap" /\ Me'.arg = after /\ Me'.prev = t /\ Mode' = "reap"
    BY <2>6, <2>7 DEF Mode, Enqueuing, Dequeuing
  <2>9. OneInside' /\ States'
    BY <2>1, <2>2, <2>7, <2>8 DEF OneInside, States
  <2>10. Cursor(q)'
    <3>1. after # None => PlaceIn(q, after, t)
      BY <2>0, <2>2, <2>3, CursorMoves
    <3>2. QED
      BY <2>8, <3>1 DEF Cursor
  <2>11. CallAt(r, q)'
    BY <2>2, <2>7, <2>8, <2>10 DEF CallAt, At, TailAt, EnqueueAt, DequeueAt, Enqueuing
  <2>12. QED
    BY <2>7, <2>9, <2>11 DEF Inv
<1>3. QED
  BY <1>1, <1>2

-----------------------------------------------------------------------------
(* The theorem.                                                            *)

LEMMA InitInv == Init => Inv(Queue0, <<>>)
<1> SUFFICES ASSUME Init  PROVE Inv(Queue0, <<>>)
  OBVIOUS
<1> DEFINE n == Len(Queue0)
<1>1. /\ Queue0 \in Seq(Thread) /\ n \in Nat /\ DOMAIN Queue0 = 1 .. n
      /\ \A i \in 1 .. n : Queue0[i] \in Worker
      /\ \A i, j \in 1 .. n : Queue0[i] = Queue0[j] => i = j
  BY ThreadsAssumption DEF Thread, IsInjective
<1>2. (Queue0 = <<>> => n = 0) /\ (Queue0 # <<>> => n > 0)
  BY <1>1, SomeLength
<1>3. ToSet(Queue0) = {Queue0[i] : i \in 1 .. n}
  BY <1>1 DEF ToSet
<1>4. /\ Boot \in Thread /\ Idle \in Thread /\ None \notin Thread /\ Irq \notin Thread
      /\ ToSet(Queue0) \subseteq Thread /\ Boot # Idle
      /\ Boot \notin ToSet(Queue0) /\ Idle \notin ToSet(Queue0)
  BY <1>1, <1>3, ThreadsAssumption DEF Thread
<1>5. /\ head = IF Queue0 = <<>> THEN None ELSE Queue0[1]
      /\ tail = LastOf(Queue0) /\ thead = None /\ ttail = None
      /\ current = Boot
  BY DEF Init, LastOf, Last
<1>6. \A i \in 1 .. n : next[Queue0[i]] = IF i = n THEN None ELSE Queue0[i + 1]
  <2> TAKE i \in 1 .. n
  <2>1. Queue0[i] \in Thread /\ Queue0[i] \in ToSet(Queue0)
    BY <1>3, <1>4
  <2>2. (CHOOSE j \in DOMAIN Queue0 : Queue0[j] = Queue0[i]) = i
    BY <1>1
  <2>3. next[Queue0[i]] = AfterInit(CHOOSE j \in DOMAIN Queue0 : Queue0[j] = Queue0[i])
    BY <2>1 DEF Init
  <2>4. next[Queue0[i]] = AfterInit(i)
    BY <2>2, <2>3
  <2>5. QED
    BY <2>4 DEF AfterInit
<1>7. next \in [Thread -> Thread \cup {None}]
  <2>1. ASSUME NEW t \in Thread  PROVE next[t] \in Thread \cup {None}
    <3>1. CASE t \in ToSet(Queue0)
      <4>1. PICK i \in 1 .. n : t = Queue0[i]
        BY <1>3, <3>1
      <4>2. i # n => i + 1 \in 1 .. n
        <5>1. n \in Nat
          BY <1>1
        <5> HIDE DEF n
        <5>2. QED
          BY <5>1
      <4>3. i # n => Queue0[i + 1] \in Thread
        BY <1>3, <1>4, <4>2
      <4>4. QED
        BY <1>6, <4>1, <4>3
    <3>2. CASE t \notin ToSet(Queue0)
      BY <3>2 DEF Init
    <3>3. QED
      BY <3>1, <3>2
  <2>2. next = [t \in Thread |-> next[t]]
    BY DEF Init
  <2>3. QED
    BY <2>1, <2>2
<1>8. /\ state \in [Thread -> StateNames]
      /\ \A t \in ToSet(Queue0) : state[t] = "ready"
      /\ state[Boot] = "running" /\ state[Idle] = "new"
  <2>1. state = [t \in Thread |-> IF t = Boot THEN "running"
                                  ELSE IF t \in ToSet(Queue0) THEN "ready" ELSE "new"]
    BY DEF Init
  <2>2. \A t \in ToSet(Queue0) : t \in Thread /\ t # Boot
    BY <1>4
  <2>3. QED
    BY <1>4, <2>1, <2>2 DEF StateNames
<1>9. /\ ctx \in [Thread \cup {Irq} -> Contexts]
      /\ ctx[Irq].pc = "off" /\ \A t \in Thread : ctx[t].pc = "run"
  <2>1. ctx = [c \in Thread \cup {Irq} |->
                 Ctx(IF c = Irq THEN "off" ELSE "run", c = Irq, None, "run")]
    BY DEF Init
  <2>2. \A p \in {"off", "run"} : \A m \in BOOLEAN :
           Ctx(p, m, None, "run") \in Contexts /\ Ctx(p, m, None, "run").pc = p
    BY DEF Ctx, Contexts, PcNames
  <2>3. ASSUME NEW c \in Thread \cup {Irq}
        PROVE  ctx[c] \in Contexts /\ ctx[c].pc = IF c = Irq THEN "off" ELSE "run"
    <3>1. ctx[c] = Ctx(IF c = Irq THEN "off" ELSE "run", c = Irq, None, "run")
      BY <2>1
    <3>2. (IF c = Irq THEN "off" ELSE "run") \in {"off", "run"} /\ (c = Irq) \in BOOLEAN
      OBVIOUS
    <3>3. QED
      BY <2>2, <3>1, <3>2
  <2>4. ctx = [c \in Thread \cup {Irq} |-> ctx[c]]
    BY <2>1
  <2>5. QED
    BY <1>4, <2>3, <2>4
<1>10. Running = Boot /\ Me.pc = "run" /\ Mode = "run"
  <2>1. Running = Boot
    BY <1>5, <1>9 DEF Running
  <2>2. QED
    BY <1>4, <1>9, <2>1 DEF Me, Mode, Enqueuing, Dequeuing
<1>11. Linked(head, Queue0, next)
  BY <1>1, <1>5, <1>6, ListFrom
<1>12. Linked(thead, <<>>, next) /\ LastOf(<<>>) = None /\ ToSet(<<>>) = {}
  <2>1. Linked(None, <<>>, next)
    <3>1. PICK e : e = <<>>
      OBVIOUS
    <3>2. e \in Seq(Thread) /\ Len(e) = 0 /\ DOMAIN e = 1 .. 0
      BY <3>1
    <3>3. IsInjective(e)
      BY <3>2 DEF IsInjective
    <3>4. Linked(None, e, next)
      BY <3>1, <3>2, <3>3 DEF Linked
    <3>5. QED
      BY <3>1, <3>4
  <2>2. ToSet(<<>>) = {}
    BY <2>1, ListFacts
  <2>3. QED
    BY <1>5, <2>1, <2>2 DEF LastOf
<1>13. head \in Thread \cup {None} /\ tail \in Thread \cup {None}
  <2>1. Queue0 # <<>> => 1 \in 1 .. n
    BY <1>1, <1>2
  <2>2. Queue0 # <<>> => Queue0[1] \in Thread
    BY <1>3, <1>4, <2>1
  <2>3. Queue0 # <<>> => LastOf(Queue0) \in Thread
    BY <1>4, <1>11, ListEnds
  <2>4. QED
    BY <1>5, <1>11, <2>2, <2>3, ListEnds
<1>14. TypeOK
  BY <1>4, <1>5, <1>7, <1>8, <1>9, <1>13 DEF TypeOK
<1>15. OneInside
  BY <1>4, <1>9, <1>10 DEF OneInside
<1>16. States
  BY <1>5, <1>8, <1>10 DEF States
<1>17. Lists(Queue0, <<>>)
  BY <1>5, <1>8, <1>11, <1>12 DEF Lists
<1>18. CallAt(Queue0, <<>>)
  BY <1>5, <1>10 DEF CallAt, At, TailAt, EnqueueAt, DequeueAt, Enqueuing
<1>19. QED
  BY <1>14, <1>15, <1>16, <1>17, <1>18 DEF Inv

(* What a step of the scheduler may do to the two queues.                  *)
Served(r, q, r2, q2) ==
  \/ r2 = r /\ q2 = q
  \/ r # <<>> /\ r2 = Tail(r) /\ q2 = q
  \/ \E t \in Thread \ (ToSet(r) \cup ToSet(q)) :
        \/ r2 = Append(r, t) /\ q2 = q
        \/ r2 = r /\ q2 = Append(q, t)
  \/ \E i \in 1 .. Len(r) : r2 = RemoveAt(r, i) /\ q2 = Append(q, r[i])
  \/ \E i \in 1 .. Len(q) : r2 = r /\ q2 = RemoveAt(q, i)

LEMMA InvStep ==
  ASSUME NEW r, NEW q, Inv(r, q), [Next]_vars, Preempt = {}
  PROVE  \E r2, q2 : Served(r, q, r2, q2) /\ Inv(r2, q2)'
<1>1. CASE Inv(r, q)'
  BY <1>1 DEF Served
<1>2. CASE \E t \in Thread \ (ToSet(r) \cup ToSet(q)) : Inv(Append(r, t), q)'
  BY <1>2 DEF Served
<1>3. CASE Advance
  <2>1. r # <<>> /\ Inv(Tail(r), q)'
    BY <1>3, AdvanceStep
  <2>2. QED
    BY <2>1 DEF Served
<1>4. CASE \E t \in Thread \ (ToSet(r) \cup ToSet(q)) : Inv(r, Append(q, t))'
  BY <1>4 DEF Served
<1>5. CASE \E i \in 1 .. Len(r) : Inv(RemoveAt(r, i), Append(q, r[i]))'
  BY <1>5 DEF Served
<1>6. CASE \E i \in 1 .. Len(q) : Inv(r, RemoveAt(q, i))'
  BY <1>6 DEF Served
<1>7. CASE UNCHANGED vars
  <2>1. UNCHANGED <<head, tail, thead, ttail, next, state, current, ctx>>
    BY <1>7 DEF vars, links
  <2>2. UNCHANGED <<Running, Me>>
    BY <2>1 DEF Running, Me
  <2>3. Inv(r, q)'
    BY <2>1, <2>2 DEF Inv, TypeOK, OneInside, Mode, States, Lists, CallAt, At, TailAt,
                      EnqueueAt, DequeueAt, Held, Cursor
  <2>4. QED
    BY <2>3, <1>1
<1>8. CASE Tick
  BY <1>1, <1>8, TickStep
<1>9. CASE Inside
  <2>1. CASE Enqueue1 \/ SetTail
    BY <1>1, <2>1, Enqueue1Step, SetTailStep
  <2>2. CASE First \/ AppendLink
    BY <1>2, <2>2, FirstStep, AppendLinkStep
  <2>3. CASE Dequeue1 \/ Emptied \/ Detach
    BY <1>1, <2>3, Dequeue1Step, EmptiedStep, DetachStep
  <2>4. CASE YieldEnqueue \/ Switch \/ SwitchAway \/ Unmask \/ SweepEnd
    BY <1>1, <2>4, YieldEnqueueStep, SwitchStep, UnmaskStep, SweepEndStep
  <2>5. CASE SweepThread
    BY <1>1, <1>5, <2>5, SweepThreadStep
  <2>6. CASE Chosen \/ Dispatch \/ ReapEnd
    BY <1>1, <2>6, ChosenStep, DispatchStep, ReapEndStep
  <2>7. CASE ReapThread
    BY <1>1, <1>6, <2>7, ReapThreadStep
  <2>8. QED
    BY <1>3, <1>9, <2>1, <2>2, <2>3, <2>4, <2>5, <2>6, <2>7 DEF Inside
<1>10. CASE Call
  <2>1. CASE Yield \/ Block \/ Sweep
    BY <1>1, <2>1, YieldStep, BlockStep, SweepStep
  <2>2. CASE Terminate
    BY <1>4, <2>2, TerminateStep
  <2>3. ASSUME NEW t \in Thread, StartThread(t) \/ Unblock(t)
        PROVE  \E r2, q2 : Served(r, q, r2, q2) /\ Inv(r2, q2)'
    BY <1>1, <2>3, StartThreadStep, UnblockStep
  <2>4. QED
    BY <1>10, <2>1, <2>2, <2>3 DEF Call
<1>11. QED
  BY <1>7, <1>8, <1>9, <1>10 DEF Next

(* The chains that the code would walk are the two queues.                 *)
LEMMA ChainsAreQueues ==
  ASSUME NEW r, NEW q, Inv(r, q)
  PROVE  ReadyChain = r /\ TerminatedChain = q
<1>1. Linked(head, r, next) /\ Linked(thead, q, next)
  BY DEF Inv, Lists
<1>2. Walk(next, head) = r /\ Walk(next, thead) = q
  BY <1>1, WalkIsList
<1>3. ReadyChain = Walk(next, head) /\ TerminatedChain = Walk(next, thead)
  BY DEF ReadyChain, TerminatedChain, Chain, Walk
<1>4. QED
  BY <1>2, <1>3

LEMMA ChainsAreQueuesNext ==
  ASSUME NEW r, NEW q, Inv(r, q)'
  PROVE  ReadyChain' = r /\ TerminatedChain' = q
<1>1. Linked(head', r, next') /\ Linked(thead', q, next')
  BY DEF Inv, Lists
<1>2. Walk(next', head') = r /\ Walk(next', thead') = q
  BY <1>1, WalkIsList
<1>3. ReadyChain' = Walk(next', head') /\ TerminatedChain' = Walk(next', thead')
  BY DEF ReadyChain, TerminatedChain, Chain, Walk
<1>4. QED
  BY <1>2, <1>3

IInv == \E r, q : Inv(r, q)

LEMMA InitFifo == Init => IInv /\ Fifo!Init
<1> SUFFICES ASSUME Init  PROVE IInv /\ Fifo!Init
  OBVIOUS
<1>1. Inv(Queue0, <<>>)
  BY InitInv
<1>2. ReadyChain = Queue0 /\ TerminatedChain = <<>>
  BY <1>1, ChainsAreQueues
<1>3. Queue0 \in Seq(Thread) /\ IsInjective(Queue0)
  BY <1>1 DEF Inv, Lists, Linked
<1>4. Fifo!Init
  BY <1>2, <1>3 DEF Fifo!Init, IsInjective, Fifo!IsInjective
<1>5. QED
  BY <1>1, <1>4 DEF IInv

LEMMA StepFifo ==
  ASSUME IInv, [Next]_vars, Preempt = {}
  PROVE  IInv' /\ [Fifo!Next]_<<ReadyChain, TerminatedChain>>
<1>1. PICK r, q : Inv(r, q)
  BY DEF IInv
<1>2. PICK r2, q2 : Served(r, q, r2, q2) /\ Inv(r2, q2)'
  BY <1>1, InvStep
<1>3. IInv'
  BY <1>2 DEF IInv
<1>4. ReadyChain = r /\ TerminatedChain = q /\ ReadyChain' = r2 /\ TerminatedChain' = q2
  BY <1>1, <1>2, ChainsAreQueues, ChainsAreQueuesNext
<1>5. DOMAIN r = 1 .. Len(r) /\ DOMAIN q = 1 .. Len(q)
  BY <1>1, InvFacts
<1>6. [Fifo!Next]_<<ReadyChain, TerminatedChain>>
  <2>1. CASE r2 = r /\ q2 = q
    BY <1>4, <2>1
  <2>2. CASE r # <<>> /\ r2 = Tail(r) /\ q2 = q
    BY <1>4, <2>2 DEF Fifo!Next, Fifo!Take
  <2>3. CASE \E t \in Thread \ (ToSet(r) \cup ToSet(q)) : r2 = Append(r, t) /\ q2 = q
    BY <1>4, <2>3 DEF Fifo!Next, Fifo!Put, Fifo!Queued, ToSet, Fifo!ToSet
  <2>4. CASE \E t \in Thread \ (ToSet(r) \cup ToSet(q)) : r2 = r /\ q2 = Append(q, t)
    BY <1>4, <2>4 DEF Fifo!Next, Fifo!Bury, Fifo!Queued, ToSet, Fifo!ToSet
  <2>5. CASE \E i \in 1 .. Len(r) : r2 = RemoveAt(r, i) /\ q2 = Append(q, r[i])
    BY <1>4, <1>5, <2>5 DEF Fifo!Next, Fifo!Kill, RemoveAt, Fifo!RemoveAt
  <2>6. CASE \E i \in 1 .. Len(q) : r2 = r /\ q2 = RemoveAt(q, i)
    BY <1>4, <1>5, <2>6 DEF Fifo!Next, Fifo!Reap, RemoveAt, Fifo!RemoveAt
  <2>7. QED
    BY <1>2, <2>1, <2>2, <2>3, <2>4, <2>5, <2>6 DEF Served
<1>7. QED
  BY <1>3, <1>6

(* thread_enqueue, thread_dequeue, thread_enqueue_terminated, the loop of  *)
(* thread_terminate_process_threads and that of thread_reap_terminated,    *)
(* with the callers that mask interrupts or do not: as long as the timer   *)
(* interrupt keeps out of the first two, the heads, the tails and the one  *)
(* next field of every thread are at every statement two disjoint lists    *)
(* without repetition, to which threads are added at the end and from      *)
(* which the scheduler takes the first.                                    *)
THEOREM LinksAreQueues ==
  ASSUME Preempt = {}
  PROVE  Spec => ImplementsFifo
<1>1. Init => IInv /\ Fifo!Init
  BY InitFifo
<1>2. IInv /\ [Next]_vars => IInv' /\ [Fifo!Next]_<<ReadyChain, TerminatedChain>>
  BY StepFifo
<1>3. QED
  BY <1>1, <1>2, PTL DEF Spec, ImplementsFifo, Fifo!Spec

=============================================================================
