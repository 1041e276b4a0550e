---------------------------- MODULE MemoryProofs ----------------------------
(***************************************************************************)
(* Proofs about Memory, for any threads, memory maps, kernels and bounds:  *)
(* no frame is given out twice, leaked or taken from the kernel, under     *)
(* CarefulUse.                                                             *)
(***************************************************************************)
EXTENDS Memory, FiniteSetTheorems, WellFoundedInduction, SequenceTheorems, TLAPS

-----------------------------------------------------------------------------
(* Numbers.                                                                *)

(* Every set of numbers has a least element; hence induction.              *)
LEMMA Least ==
  ASSUME NEW T \in SUBSET Nat, T # {}
  PROVE  \E n \in T : \A m \in T : n <= m
<1> DEFINE Less == OpToRel(<, Nat)
<1>1. IsWellFoundedOn(Less, Nat)
  BY NatLessThanWellFounded, Zenon
<1>2. \A m, n \in Nat : <<m, n>> \in Less <=> m < n
  BY DEF OpToRel
<1> HIDE DEF Less
<1>3. PICK n \in T : \A m \in T : <<m, n>> \notin Less
  BY <1>1, WFMin
<1>4. \A m \in T : ~ (m < n)
  BY <1>2, <1>3
<1>5. \A m \in T : n <= m
  BY <1>4
<1>6. QED
  BY <1>5

LEMMA UpTo ==
  ASSUME NEW N \in Nat, NEW S, 0 \in S,
         \A n \in 0 .. N - 1 : n \in S => n + 1 \in S
  PROVE  0 .. N \subseteq S
<1> DEFINE T == {n \in 0 .. N : n \notin S}
<1>1. SUFFICES ASSUME T # {}  PROVE FALSE
  OBVIOUS
<1>2. PICK n \in T : \A m \in T : n <= m
  <2>1. T \in SUBSET Nat
    OBVIOUS
  <2> HIDE DEF T
  <2>2. QED
    BY <1>1, <2>1, Least
<1>3. n # 0 /\ n - 1 \in 0 .. N - 1 /\ n - 1 \notin T
  BY <1>2
<1>4. QED
  BY <1>3

LEMMA DivMod ==
  ASSUME NEW a \in Nat, NEW b \in Nat \ {0}
  PROVE  a \div b \in Nat /\ a % b \in 0 .. b - 1 /\ a = b * (a \div b) + (a % b)
<1>1. a % b \in 0 .. b - 1 /\ a \div b \in Int /\ a = b * (a \div b) + (a % b)
  OBVIOUS
<1>2. a \div b >= 0
  BY <1>1
<1>3. QED
  BY <1>1, <1>2

-----------------------------------------------------------------------------
(* Frames and bytes.                                                       *)

LEMMA Times ==
  ASSUME NEW x \in Int, NEW y \in Int, x <= y
  PROVE  /\ PageSize * x \in Int /\ PageSize * y \in Int /\ PageSize * x <= PageSize * y
         /\ x * PageSize = PageSize * x /\ (x + 1) * PageSize = PageSize * x + PageSize
BY MemoryAssumption

LEMMA Rounding ==
  ASSUME NEW n \in Nat
  PROVE  /\ n \div PageSize \in Nat /\ RoundUp(n) \in Nat
         /\ PageSize * (n \div PageSize) <= n /\ n < PageSize * (n \div PageSize) + PageSize
         /\ n <= PageSize * RoundUp(n) /\ PageSize * RoundUp(n) < n + PageSize
<1> DEFINE a == n + PageSize - 1
<1>1. a \in Nat /\ PageSize \in Nat \ {0}
  BY MemoryAssumption
<1>2. /\ a \div PageSize \in Nat /\ a % PageSize \in 0 .. PageSize - 1
      /\ a = PageSize * (a \div PageSize) + (a % PageSize)
  <2> HIDE DEF a
  <2>1. QED
    BY <1>1, DivMod
<1>3. /\ n \div PageSize \in Nat /\ n % PageSize \in 0 .. PageSize - 1
      /\ n = PageSize * (n \div PageSize) + (n % PageSize)
  BY <1>1, DivMod
<1>4. RoundUp(n) = a \div PageSize
  BY DEF RoundUp
<1> DEFINE p == PageSize * (a \div PageSize)
           q == PageSize * (n \div PageSize)
<1>5. p \in Int /\ q \in Int
  BY <1>1, <1>2, <1>3
<1> HIDE DEF p, q
<1>6. /\ n <= p /\ p < n + PageSize
      /\ q <= n /\ n < q + PageSize
  <2>1. a = p + (a % PageSize) /\ n = q + (n % PageSize)
    BY <1>2, <1>3 DEF p, q
  <2>2. QED
    BY <1>1, <1>2, <1>3, <1>5, <2>1
<1>7. QED
  BY <1>2, <1>3, <1>4, <1>6 DEF p, q

(* A frame that a range touches holds a byte of it, if it has one.         *)
LEMMA Touches ==
  ASSUME NEW b \in Nat, NEW e \in Nat, b < e, NEW f \in FramesOf(b, e)
  PROVE  BytesOf(f) \cap (b .. e - 1) # {}
<1>1. f \in Int /\ b \div PageSize <= f /\ f <= RoundUp(e) - 1
  BY Rounding DEF FramesOf
<1>2. /\ PageSize * (b \div PageSize) <= PageSize * f
      /\ PageSize * f <= PageSize * (RoundUp(e) - 1)
      /\ PageSize * f \in Int /\ f * PageSize = PageSize * f
      /\ (f + 1) * PageSize = PageSize * f + PageSize
  BY <1>1, Rounding, Times
<1>3. PageSize * (RoundUp(e) - 1) = PageSize * RoundUp(e) - PageSize
  BY Rounding, MemoryAssumption
<1>4. PageSize * f < e /\ b < PageSize * f + PageSize
  <2>1. /\ PageSize * (b \div PageSize) \in Int /\ PageSize * RoundUp(e) \in Int
        /\ PageSize \in Nat \ {0}
    BY Rounding, MemoryAssumption
  <2>2. QED
    BY <1>2, <1>3, <2>1, Rounding
<1>5. CASE b <= PageSize * f
  <2>1. PageSize * f \in BytesOf(f) \cap (b .. e - 1)
    BY <1>2, <1>4, <1>5, MemoryAssumption DEF BytesOf
  <2>2. QED
    BY <2>1
<1>6. CASE ~ b <= PageSize * f
  <2>1. b \in BytesOf(f) \cap (b .. e - 1)
    BY <1>2, <1>4, <1>6, MemoryAssumption DEF BytesOf
  <2>2. QED
    BY <2>1
<1>7. QED
  BY <1>5, <1>6

(* A frame that a range does not touch holds no byte of it.                *)
LEMMA Misses ==
  ASSUME NEW b \in Nat, NEW e \in Nat, NEW f \in Nat, f \notin FramesOf(b, e)
  PROVE  BytesOf(f) \cap (b .. e - 1) = {}
<1>1. f + 1 <= b \div PageSize \/ RoundUp(e) <= f
  BY Rounding DEF FramesOf
<1>2. /\ f * PageSize = PageSize * f /\ PageSize * f \in Int
      /\ (f + 1) * PageSize = PageSize * f + PageSize
      /\ PageSize * (f + 1) = PageSize * f + PageSize
  BY MemoryAssumption
<1>3. (f + 1) * PageSize <= b \/ e <= f * PageSize
  <2>1. CASE f + 1 <= b \div PageSize
    <3>1. PageSize * (f + 1) <= PageSize * (b \div PageSize)
      BY <2>1, Rounding, Times
    <3>2. QED
      BY <1>2, <3>1, Rounding, MemoryAssumption
  <2>2. CASE RoundUp(e) <= f
    <3>1. PageSize * RoundUp(e) <= PageSize * f /\ PageSize * RoundUp(e) \in Int
      BY <2>2, Rounding, Times
    <3>2. e <= PageSize * RoundUp(e)
      BY Rounding
    <3>3. QED
      BY <1>2, <3>1, <3>2
  <2>3. QED
    BY <1>1, <2>1, <2>2
<1>4. \A x \in BytesOf(f) : x \in Int /\ f * PageSize <= x /\ x < (f + 1) * PageSize
  BY <1>2, MemoryAssumption DEF BytesOf
<1>5. QED
  BY <1>2, <1>3, <1>4, MemoryAssumption

(* Whatever is free at boot may be given out.                              *)
LEMMA FreeIsSpare ==
  ASSUME CarefulUse, NEW f \in FreeAtBoot
  PROVE  /\ f \in Frame /\ f \in Nat /\ f # 0
         /\ BytesOf(f) \cap (KernelStart .. KernelEnd - 1) = {}
         /\ \E r \in Regions : r.usable /\ BytesOf(f) \cap (r.base .. EndOf(r) - 1) # {}
<1>1. f \in Frame /\ f \in Nat /\ f # 0
  BY DEF FreeAtBoot, Frame
<1>2. BytesOf(f) \cap (KernelStart .. KernelEnd - 1) = {}
  BY <1>1, Misses, MemoryAssumption DEF FreeAtBoot
<1>3. PICK r \in Regions : r.usable /\ f \in FramesOf(r.base, EndOf(r))
  BY DEF FreeAtBoot
<1>4. r.base \in Nat /\ EndOf(r) \in Nat /\ r.base < EndOf(r)
  BY <1>3, MemoryAssumption DEF CarefulUse, EndOf
<1>5. BytesOf(f) \cap (r.base .. EndOf(r) - 1) # {}
  BY <1>3, <1>4, Touches
<1>6. QED
  BY <1>1, <1>2, <1>3, <1>5

-----------------------------------------------------------------------------
(* Numbers in order.                                                       *)

LEMMA CanBeOrdered ==
  ASSUME NEW S \in SUBSET Nat, IsFiniteSet(S)
  PROVE  \E q \in [1 .. Cardinality(S) -> S] : \A m, n \in DOMAIN q : m < n => q[m] < q[n]
<1> DEFINE Rises(q) == \A m, n \in DOMAIN q : m < n => q[m] < q[n]
           K == {k \in Nat : \A T \in SUBSET S :
                   Cardinality(T) = k => \E q \in [1 .. k -> T] : Rises(q)}
<1>1. 0 \in K
  <2>1. ASSUME NEW T \in SUBSET S, Cardinality(T) = 0
        PROVE  \E q \in [1 .. 0 -> T] : Rises(q)
    <3>1. [n \in 1 .. 0 |-> 0] \in [1 .. 0 -> T] /\ Rises([n \in 1 .. 0 |-> 0])
      OBVIOUS
    <3>2. QED
      BY <3>1
  <2>2. QED
    BY <2>1
<1>2. ASSUME NEW k \in Nat, k \in K  PROVE k + 1 \in K
  <2>1. ASSUME NEW T \in SUBSET S, Cardinality(T) = k + 1
        PROVE  \E q \in [1 .. k + 1 -> T] : Rises(q)
    <3>1. T \in SUBSET Nat /\ IsFiniteSet(T)
      BY <2>1, FS_Subset
    <3>2. T # {}
      BY <2>1, FS_EmptySet
    <3>3. PICK x \in T : \A y \in T : x <= y
      BY <3>1, <3>2, Least
    <3>4. Cardinality(T \ {x}) = k
      <4>1. Cardinality(T \ {x}) = Cardinality(T) - 1
        BY <3>1, FS_RemoveElement
      <4>2. QED
        BY <2>1, <4>1
    <3>5. PICK q \in [1 .. k -> T \ {x}] : Rises(q)
      BY <1>2, <3>4
    <3> DEFINE p == [n \in 1 .. k + 1 |-> IF n = 1 THEN x ELSE q[n - 1]]
    <3>6. \A n \in 1 .. k + 1 : n # 1 => n - 1 \in 1 .. k /\ q[n - 1] \in T \ {x}
      OBVIOUS
    <3>7. p \in [1 .. k + 1 -> T]
      BY <3>6
    <3>8. ASSUME NEW m \in 1 .. k + 1, NEW n \in 1 .. k + 1, m < n  PROVE p[m] < p[n]
      <4>1. n # 1 /\ p[n] = q[n - 1] /\ n - 1 \in 1 .. k
        BY <3>6, <3>8
      <4>2. CASE m = 1
        <5>1. q[n - 1] \in T /\ q[n - 1] # x
          BY <3>6, <4>1
        <5>2. x <= q[n - 1] /\ x \in Nat /\ q[n - 1] \in Nat
          BY <3>1, <3>3, <5>1
        <5>3. x < q[n - 1]
          BY <5>1, <5>2
        <5>4. QED
          BY <4>1, <4>2, <5>3
      <4>3. CASE m # 1
        <5>1. p[m] = q[m - 1] /\ m - 1 \in 1 .. k /\ m - 1 < n - 1
          BY <3>6, <3>8, <4>3
        <5>2. QED
          BY <3>5, <4>1, <5>1
      <4>4. QED
        BY <4>2, <4>3
    <3>9. QED
      BY <3>7, <3>8
  <2>2. QED
    BY <2>1
<1>3. Cardinality(S) \in K
  <2>1. Cardinality(S) \in Nat
    BY FS_CardinalityType
  <2> HIDE DEF K
  <2>2. 0 .. Cardinality(S) \subseteq K
    BY <1>1, <1>2, <2>1, UpTo
  <2>3. QED
    BY <2>1, <2>2
<1>4. QED
  BY <1>3

LEMMA Ordered ==
  ASSUME NEW S \in SUBSET Nat, IsFiniteSet(S)
  PROVE  /\ InOrder(S) \in [1 .. Cardinality(S) -> S] /\ Cardinality(S) \in Nat
         /\ \A m, n \in 1 .. Cardinality(S) : InOrder(S)[m] = InOrder(S)[n] => m = n
         /\ \A x \in S : \E n \in 1 .. Cardinality(S) : InOrder(S)[n] = x
<1> DEFINE k == Cardinality(S)
           q == InOrder(S)
<1>1. q \in [1 .. k -> S] /\ \A m, n \in DOMAIN q : m < n => q[m] < q[n]
  BY CanBeOrdered DEF InOrder
<1>2. k \in Nat
  BY FS_CardinalityType
<1> HIDE DEF q
<1>3. \A m, n \in 1 .. k : q[m] = q[n] => m = n
  <2>1. SUFFICES ASSUME NEW m \in 1 .. k, NEW n \in 1 .. k, m # n  PROVE q[m] # q[n]
    OBVIOUS
  <2>2. q[m] \in Nat /\ q[n] \in Nat /\ (m < n \/ n < m)
    <3>1. q[m] \in S /\ q[n] \in S
      BY <1>1, <2>1
    <3>2. m \in Nat /\ n \in Nat /\ S \subseteq Nat
      BY <1>2, <2>1
    <3>3. q[m] \in Nat /\ q[n] \in Nat
      BY <3>1, <3>2
    <3>4. m < n \/ n < m
      BY <2>1, <3>2
    <3>5. QED
      BY <3>3, <3>4
  <2>3. q[m] < q[n] \/ q[n] < q[m]
    BY <1>1, <2>2
  <2>4. QED
    BY <2>2, <2>3
<1>4. q \in Injection(1 .. k, S)
  BY <1>1, <1>3 DEF Injection, IsInjective
<1>5. IsFiniteSet(1 .. k) /\ Cardinality(1 .. k) = k
  BY <1>2, FS_Interval
<1>6. q \in Surjection(1 .. k, S)
  BY <1>4, <1>5, FS_Injection
<1>7. \A x \in S : \E n \in 1 .. k : q[n] = x
  BY <1>6 DEF Surjection
<1>8. QED
  BY <1>1, <1>2, <1>3, <1>7 DEF q

-----------------------------------------------------------------------------
(* Who has what, before and after a step.                                  *)

Frames(U) == {u[4] : u \in U}
Distinct(U) == \A u, v \in U : u[4] = v[4] => u = v

(* R is exchanged for A, which takes the frames of R or new ones.          *)
LEMMA Exchange ==
  ASSUME NEW U, NEW R \in SUBSET U, NEW A, Distinct(U), Distinct(A),
         \A u \in A : u[4] \in Frames(U) => u[4] \in Frames(R)
  PROVE  /\ Distinct((U \ R) \cup A)
         /\ Frames((U \ R) \cup A) = (Frames(U) \ Frames(R)) \cup Frames(A)
<1>1. \A u \in U : u[4] \in Frames(R) => u \in R
  BY DEF Frames, Distinct
<1>2. \A u \in U \ R, v \in A : u[4] # v[4]
  BY <1>1 DEF Frames
<1>3. Distinct((U \ R) \cup A)
  BY <1>2 DEF Distinct
<1>4. Frames((U \ R) \cup A) = (Frames(U) \ Frames(R)) \cup Frames(A)
  BY <1>1 DEF Frames
<1>5. QED
  BY <1>3, <1>4

(* What thread c and address space t have before and after a step.         *)
Had(c, t) ==
  CallUses(c, call[c]) \cup PageUses(c, pages[c])
    \cup (IF t \in DOMAIN spaces THEN SpaceUses(t, spaces[t]) ELSE {})

Has(c, t) ==
  CallUses(c, call'[c]) \cup PageUses(c, pages'[c])
    \cup (IF t \in DOMAIN spaces' THEN SpaceUses(t, spaces'[t]) ELSE {})

LEMMA Labels ==
  /\ \A c, k : \A u \in CallUses(c, k) : u[1] \in {"todo", "new"} /\ u[2] = c
  /\ \A c, p : \A u \in PageUses(c, p) : u[1] = "page" /\ u[2] = c
  /\ \A s, a : \A u \in SpaceUses(s, a) : u[1] \in {"space", "dir", "table"} /\ u[2] = s
<1>1. \A c, k : \A u \in CallUses(c, k) : u[1] \in {"todo", "new"} /\ u[2] = c
  BY DEF CallUses
<1>2. \A c, p : \A u \in PageUses(c, p) : u[1] = "page" /\ u[2] = c
  BY DEF PageUses
<1>3. \A s, a : \A u \in SpaceUses(s, a) : u[1] \in {"space", "dir", "table"} /\ u[2] = s
  BY DEF SpaceUses
<1>4. QED
  BY <1>1, <1>2, <1>3

LEMMA IsUse ==
  \A u : u \in Uses <=>
    \/ \E s \in DOMAIN spaces : u \in SpaceUses(s, spaces[s])
    \/ \E c \in Caller : u \in PageUses(c, pages[c])
    \/ \E c \in Caller : u \in CallUses(c, call[c])
BY DEF Uses

LEMMA IsUseNext ==
  \A u : u \in Uses' <=>
    \/ \E s \in DOMAIN spaces' : u \in SpaceUses(s, spaces'[s])
    \/ \E c \in Caller : u \in PageUses(c, pages'[c])
    \/ \E c \in Caller : u \in CallUses(c, call'[c])
BY DEF Uses, CallUses, PageUses, SpaceUses

LEMMA UsesStep ==
  ASSUME NEW c \in Caller, NEW t,
         \A d \in Caller \ {c} : call'[d] = call[d] /\ pages'[d] = pages[d],
         \A s : s # t =>
           /\ s \in DOMAIN spaces' <=> s \in DOMAIN spaces
           /\ s \in DOMAIN spaces => spaces'[s] = spaces[s]
  PROVE  Had(c, t) \subseteq Uses /\ Uses' = (Uses \ Had(c, t)) \cup Has(c, t)
<1>1. \A u : u \in Had(c, t) <=>
        \/ u \in CallUses(c, call[c]) \/ u \in PageUses(c, pages[c])
        \/ t \in DOMAIN spaces /\ u \in SpaceUses(t, spaces[t])
  BY DEF Had
<1>2. \A u : u \in Has(c, t) <=>
        \/ u \in CallUses(c, call'[c]) \/ u \in PageUses(c, pages'[c])
        \/ t \in DOMAIN spaces' /\ u \in SpaceUses(t, spaces'[t])
  BY DEF Has
<1>3. Had(c, t) \subseteq Uses
  BY <1>1, IsUse
<1>4. ASSUME NEW u \in Uses, u \notin Had(c, t)  PROVE u \in Uses'
  BY <1>1, <1>4, IsUse, IsUseNext
<1>5. Has(c, t) \subseteq Uses'
  BY <1>2, IsUseNext
<1>6. ASSUME NEW u \in Uses', u \notin Has(c, t)  PROVE u \in Uses /\ u \notin Had(c, t)
  <2>1. CASE \E s \in DOMAIN spaces' : u \in SpaceUses(s, spaces'[s])
    <3>1. PICK s \in DOMAIN spaces' : u \in SpaceUses(s, spaces'[s])
      BY <2>1
    <3>2. s # t /\ s \in DOMAIN spaces /\ u \in SpaceUses(s, spaces[s])
      BY <1>2, <1>6, <3>1
    <3>3. u[1] \in {"space", "dir", "table"} /\ u[2] = s
      BY <3>1, Labels
    <3>4. u \notin Had(c, t)
      BY <1>1, <3>2, <3>3, Labels
    <3>5. QED
      BY <3>2, <3>4, IsUse
  <2>2. CASE \E d \in Caller : u \in PageUses(d, pages'[d])
    <3>1. PICK d \in Caller : u \in PageUses(d, pages'[d])
      BY <2>2
    <3>2. d # c /\ u \in PageUses(d, pages[d])
      BY <1>2, <1>6, <3>1
    <3>3. u[1] = "page" /\ u[2] = d
      BY <3>1, Labels
    <3>4. u \notin Had(c, t)
      BY <1>1, <3>2, <3>3, Labels
    <3>5. QED
      BY <3>2, <3>4, IsUse
  <2>3. CASE \E d \in Caller : u \in CallUses(d, call'[d])
    <3>1. PICK d \in Caller : u \in CallUses(d, call'[d])
      BY <2>3
    <3>2. d # c /\ u \in CallUses(d, call[d])
      BY <1>2, <1>6, <3>1
    <3>3. u[1] \in {"todo", "new"} /\ u[2] = d
      BY <3>1, Labels
    <3>4. u \notin Had(c, t)
      BY <1>1, <3>2, <3>3, Labels
    <3>5. QED
      BY <3>2, <3>4, IsUse
  <2>4. QED
    BY <1>6, <2>1, <2>2, <2>3, IsUseNext
<1>7. QED
  BY <1>3, <1>4, <1>5, <1>6

(* A step that touches nothing but c's call ...                            *)
LEMMA CallUsesStep ==
  ASSUME NEW c \in Caller, UNCHANGED <<spaces, pages>>,
         \A d \in Caller \ {c} : call'[d] = call[d]
  PROVE  /\ CallUses(c, call[c]) \subseteq Uses
         /\ Uses' = (Uses \ CallUses(c, call[c])) \cup CallUses(c, call'[c])
<1>1. /\ Had(c, c) \subseteq Uses
      /\ Uses' = (Uses \ Had(c, c)) \cup Has(c, c)
  BY UsesStep
<1> DEFINE Rest == PageUses(c, pages[c])
                     \cup (IF c \in DOMAIN spaces THEN SpaceUses(c, spaces[c]) ELSE {})
<1>2. Had(c, c) = CallUses(c, call[c]) \cup Rest
  BY DEF Had
<1>3. Has(c, c) = CallUses(c, call'[c]) \cup Rest
  BY DEF Has
<1>4. CallUses(c, call[c]) \cap Rest = {}
  BY Labels
<1> HIDE DEF Rest
<1>5. QED
  BY <1>1, <1>2, <1>3, <1>4

(* ... and has the same before and after.                                  *)
LEMMA SameUses ==
  ASSUME NEW c \in Caller, UNCHANGED <<spaces, pages>>,
         \A d \in Caller \ {c} : call'[d] = call[d],
         CallUses(c, call'[c]) = CallUses(c, call[c])
  PROVE  Uses' = Uses
<1>1. /\ CallUses(c, call[c]) \subseteq Uses
      /\ Uses' = (Uses \ CallUses(c, call[c])) \cup CallUses(c, call'[c])
  BY CallUsesStep
<1>2. QED
  BY <1>1

(* What calls have.                                                        *)
LEMMA CallsHave ==
  ASSUME NEW c
  PROVE  /\ CallUses(c, Idle) = {}
         /\ \A f : CallUses(c, Freeing(<<f>>)) = {<<"todo", c, 1, f>>}
         /\ \A f, s, i : CallUses(c, Allocating(f, s, i)) =
              IF f = "dir" THEN {<<"new", c, 0, s>>} ELSE {}
<1>1. CallUses(c, Idle) = {}
  BY DEF CallUses, Idle
<1>2. ASSUME NEW f  PROVE CallUses(c, Freeing(<<f>>)) = {<<"todo", c, 1, f>>}
  <2>1. Freeing(<<f>>) = [Idle EXCEPT !.pc = "free", !.todo = <<f>>]
    BY DEF Freeing
  <2> DEFINE k == Freeing(<<f>>)
  <2>2. k.todo = <<f>> /\ k.pc = "free" /\ k.for = "none"
    BY <2>1 DEF Idle
  <2>3. DOMAIN k.todo = {1} /\ k.todo[1] = f
    BY <2>2
  <2> HIDE DEF k
  <2>4. CallUses(c, k) = {<<"todo", c, 1, f>>}
    BY <2>2, <2>3 DEF CallUses
  <2>5. QED
    BY <2>4 DEF k
<1>3. ASSUME NEW f, NEW s, NEW i
      PROVE  CallUses(c, Allocating(f, s, i)) = IF f = "dir" THEN {<<"new", c, 0, s>>} ELSE {}
  <2> DEFINE k == Allocating(f, s, i)
  <2>1. k.todo = <<>> /\ k.pc = "scan" /\ k.for = f /\ k.space = s
    BY DEF Allocating, Idle
  <2> HIDE DEF k
  <2>2. CallUses(c, k) = IF f = "dir" THEN {<<"new", c, 0, s>>} ELSE {}
    BY <2>1 DEF CallUses
  <2>3. QED
    BY <2>2 DEF k
<1>4. QED
  BY <1>1, <1>2, <1>3

-----------------------------------------------------------------------------
(* Steps that change a call.                                               *)

LEMMA FramesAreFrames ==
  /\ FreeAtBoot \subseteq Frame /\ 0 \notin FreeAtBoot /\ Frame \subseteq Nat
  /\ IInv => /\ Used \subseteq Frame /\ 0 \notin Used /\ Frame \ bitmap = FreeAtBoot \ Used
             /\ Distinct(Uses) /\ Frames(Uses) = Used
BY DEF FreeAtBoot, Frame, IInv, BitmapAgrees, FramesUnique, Distinct, Frames, Used

LEMMA CallStep ==
  ASSUME IInv, CarefulUse, NEW c \in Caller, MayRun(c), NEW k \in Call, Set(c, k),
         Shaped(k), UpToDate(k, bitmap')
  PROVE  /\ call' \in [Caller -> Call] /\ call'[c] = k
         /\ \A d \in Caller \ {c} : call'[d] = call[d]
         /\ CallsAgree'
<1>1. /\ call' \in [Caller -> Call] /\ call'[c] = k
      /\ \A d \in Caller \ {c} : call'[d] = call[d]
  BY DEF IInv, TypeOK, Set
<1>2. \A d \in Caller \ {c} : call[d].pc \notin {"tested", "loaded"}
  BY DEF MayRun, CarefulUse
<1>3. \A d \in Caller : Shaped(call'[d]) /\ UpToDate(call'[d], bitmap')
  <2>1. ASSUME NEW d \in Caller \ {c}
        PROVE  Shaped(call[d]) /\ UpToDate(call[d], bitmap')
    BY <1>2 DEF IInv, CallsAgree, UpToDate
  <2>2. QED
    BY <1>1, <2>1
<1>4. \A d, e \in Caller : InAllocator(d)' /\ InAllocator(e)' => d = e
  BY <1>1, <1>2 DEF InAllocator
<1>5. QED
  BY <1>1, <1>3, <1>4 DEF CallsAgree

LEMMA OwnStep ==
  ASSUME IInv, NEW c \in Caller, UNCHANGED <<spaces, active>>,
         \A d \in Caller \ {c} : call'[d] = call[d],
         call'[c].for = "table" =>
           /\ call'[c].space = active[c] /\ active[c] # 0
           /\ call'[c].index \in Index /\ spaces[active[c]].table[call'[c].index] = 0
  PROVE  OwnSpaces'
BY DEF IInv, OwnSpaces

(* A step that changes c's call, but not the frames it has.                *)
LEMMA QuietStep ==
  ASSUME IInv, CarefulUse, NEW c \in Caller, MayRun(c), NEW k \in Call, Set(c, k),
         UNCHANGED <<bitmap, spaces, active, pages>>, Shaped(k), UpToDate(k, bitmap),
         Distinct(CallUses(c, k)),
         Frames(CallUses(c, k)) = Frames(CallUses(c, call[c])),
         k.for = "table" =>
           /\ k.space = active[c] /\ active[c] # 0
           /\ k.index \in Index /\ spaces[active[c]].table[k.index] = 0
  PROVE  IInv'
<1>1. /\ call' \in [Caller -> Call] /\ call'[c] = k
      /\ \A d \in Caller \ {c} : call'[d] = call[d]
      /\ CallsAgree'
  BY CallStep
<1>2. OwnSpaces'
  BY <1>1, OwnStep
<1>3. /\ CallUses(c, call[c]) \subseteq Uses
      /\ Uses' = (Uses \ CallUses(c, call[c])) \cup CallUses(c, k)
  BY <1>1, CallUsesStep
<1>4. Distinct(Uses') /\ Frames(Uses') = Frames(Uses)
  <2> DEFINE R == CallUses(c, call[c])
             A == CallUses(c, k)
  <2>1. Distinct(Uses) /\ R \in SUBSET Uses /\ Distinct(A) /\ Frames(A) = Frames(R)
    BY <1>3, FramesAreFrames
  <2>2. \A u \in A : u[4] \in Frames(R)
    BY <2>1 DEF Frames
  <2>3. Frames(R) \subseteq Frames(Uses)
    BY <2>1 DEF Frames
  <2>4. Uses' = (Uses \ R) \cup A
    BY <1>3
  <2> HIDE DEF R, A
  <2>5. /\ Distinct((Uses \ R) \cup A)
        /\ Frames((Uses \ R) \cup A) = (Frames(Uses) \ Frames(R)) \cup Frames(A)
    BY <2>1, <2>2, Exchange
  <2>6. QED
    BY <2>1, <2>3, <2>4, <2>5
<1>5. FramesUnique' /\ Used' = Used
  BY <1>4 DEF FramesUnique, Used, Distinct, Frames
<1>6. TypeOK' /\ BitmapAgrees'
  BY <1>1, <1>5 DEF IInv, TypeOK, BitmapAgrees
<1>7. QED
  BY <1>1, <1>2, <1>5, <1>6 DEF IInv

(* What a call holds is distinct.                                          *)
LEMMA CallDistinct ==
  ASSUME IInv, NEW c \in Caller
  PROVE  Distinct(CallUses(c, call[c]))
BY DEF IInv, FramesUnique, Distinct, Uses

LEMMA CallType ==
  /\ Idle \in Call /\ Shaped(Idle) /\ (\A b : UpToDate(Idle, b)) /\ Idle.for = "none"
  /\ \A f \in {"space", "dir", "table", "page"}, s \in Nat, i \in Nat :
       LET k == Allocating(f, s, i) IN
       /\ k \in Call /\ Shaped(k) /\ \A b : UpToDate(k, b)
       /\ k.for = f /\ k.space = s /\ k.index = i
  /\ \A q \in Seq(Frame) :
       LET k == Freeing(q) IN
       /\ k \in Call /\ Shaped(k) /\ (\A b : UpToDate(k, b)) /\ k.for = "none" /\ k.todo = q
<1>1. <<>> \in Seq(Frame) /\ {} \in SUBSET Frame
  OBVIOUS
<1>2. /\ Idle \in Call /\ Shaped(Idle) /\ (\A b : UpToDate(Idle, b))
      /\ Idle.for = "none" /\ Idle.todo = <<>>
  BY <1>1 DEF Idle, Call, Shaped, UpToDate
<1>3. ASSUME NEW f \in {"space", "dir", "table", "page"}, NEW s \in Nat, NEW i \in Nat
      PROVE  LET k == Allocating(f, s, i) IN
             /\ k \in Call /\ Shaped(k) /\ \A b : UpToDate(k, b)
             /\ k.for = f /\ k.space = s /\ k.index = i
  BY <1>1 DEF Idle, Allocating, Call, Shaped, UpToDate
<1>4. ASSUME NEW q \in Seq(Frame)
      PROVE  LET k == Freeing(q) IN
             /\ k \in Call /\ Shaped(k) /\ (\A b : UpToDate(k, b)) /\ k.for = "none" /\ k.todo = q
  <2>1. CASE q = <<>>
    BY <1>2, <2>1 DEF Freeing
  <2>2. CASE q # <<>>
    BY <1>1, <2>2 DEF Freeing, Idle, Call, Shaped, UpToDate
  <2>3. QED
    BY <2>1, <2>2
<1>5. QED
  BY <1>2, <1>3, <1>4

-----------------------------------------------------------------------------
(* The actions.                                                            *)

LEMMA InitHolds == ASSUME CarefulUse PROVE Init => IInv
<1> SUFFICES ASSUME Init  PROVE IInv
  OBVIOUS
<1>1. DOMAIN spaces = {}
  BY DEF Init
<1>2. Uses = {}
  <2>1. \A c \in Caller : CallUses(c, call[c]) = {} /\ PageUses(c, pages[c]) = {}
    BY CallsHave DEF Init, PageUses
  <2>2. \A u : u \notin Uses
    BY <1>1, <2>1, IsUse
  <2>3. QED
    BY <2>2
<1>3. FramesUnique /\ BitmapAgrees
  BY <1>2, FramesAreFrames DEF FramesUnique, BitmapAgrees, Used, Init
<1>4. TypeOK
  BY <1>1, CallType, FramesAreFrames DEF Init, TypeOK
<1>5. CallsAgree
  BY CallType DEF Init, CallsAgree, InAllocator, Idle
<1>6. OwnSpaces
  BY CallType DEF Init, OwnSpaces
<1>7. QED
  BY <1>3, <1>4, <1>5, <1>6 DEF IInv

LEMMA IdleCall ==
  ASSUME IInv, NEW c \in Caller, At(c, "idle")
  PROVE  MayRun(c) /\ call[c] = Idle /\ CallUses(c, call[c]) = {}
BY CallsHave DEF IInv, CallsAgree, Shaped, At

(* A call of pmm_alloc_frame begins.                                       *)
LEMMA AskStep ==
  ASSUME IInv, CarefulUse, NEW c \in Caller, At(c, "idle"),
         NEW f \in {"space", "table", "page"}, NEW s \in Nat, NEW i \in Nat,
         Set(c, Allocating(f, s, i)), UNCHANGED <<bitmap, spaces, active, pages>>,
         f = "table" =>
           s = active[c] /\ active[c] # 0 /\ i \in Index /\ spaces[active[c]].table[i] = 0
  PROVE  IInv'
<1> DEFINE k == Allocating(f, s, i)
<1>1. /\ k \in Call /\ Shaped(k) /\ UpToDate(k, bitmap)
      /\ k.for = f /\ k.space = s /\ k.index = i
  BY CallType
<1>2. CallUses(c, k) = {} /\ CallUses(c, call[c]) = {} /\ MayRun(c)
  BY CallsHave, IdleCall
<1>3. Distinct(CallUses(c, k))
  BY <1>2 DEF Distinct
<1>4. Set(c, k)
  OBVIOUS
<1> HIDE DEF k
<1>5. QED
  BY <1>1, <1>2, <1>3, <1>4, QuietStep

LEMMA CreateStep ==
  ASSUME IInv, CarefulUse, NEW c \in Caller, address_space_create(c)
  PROVE  IInv'
BY AskStep DEF address_space_create

LEMMA AllocPageStep ==
  ASSUME IInv, CarefulUse, NEW c \in Caller, AllocPage(c)
  PROVE  IInv'
BY AskStep DEF AllocPage

LEMMA MapStep ==
  ASSUME IInv, CarefulUse, NEW c \in Caller, NEW i \in Index, vmm_map_page(c, i)
  PROVE  IInv'
<1>1. active[c] \in Nat /\ i \in Nat
  BY MemoryAssumption DEF IInv, TypeOK
<1>2. QED
  BY <1>1, AskStep DEF vmm_map_page

(* A frame that was just allocated is to be given back.                    *)
LEMMA GiveBackStep ==
  ASSUME IInv, CarefulUse, NEW c \in Caller, MayRun(c), NEW s,
         CallUses(c, call[c]) = {<<"new", c, 0, s>>},
         Set(c, Freeing(<<s>>)), UNCHANGED <<bitmap, spaces, active, pages>>
  PROVE  IInv'
<1>1. s \in Frame
  <2>1. <<"new", c, 0, s>> \in Uses
    BY IsUse
  <2>2. s \in Used
    BY <2>1 DEF Used
  <2>3. QED
    BY <2>2, FramesAreFrames
<1> DEFINE k == Freeing(<<s>>)
<1>2. k \in Call /\ Shaped(k) /\ UpToDate(k, bitmap) /\ k.for = "none"
  <2>1. <<s>> \in Seq(Frame)
    BY <1>1
  <2>2. QED
    BY <2>1, CallType
<1>3. CallUses(c, k) = {<<"todo", c, 1, s>>}
  BY CallsHave
<1>4. Distinct(CallUses(c, k)) /\ Frames(CallUses(c, k)) = Frames(CallUses(c, call[c]))
  <2>1. Frames({<<"todo", c, 1, s>>}) = {s} /\ Frames({<<"new", c, 0, s>>}) = {s}
    BY DEF Frames
  <2>2. Distinct({<<"todo", c, 1, s>>})
    BY DEF Distinct
  <2> HIDE DEF k
  <2>3. QED
    BY <1>3, <2>1, <2>2
<1>5. Set(c, k)
  OBVIOUS
<1> HIDE DEF k
<1>6. QED
  BY <1>2, <1>4, <1>5, QuietStep

LEMMA AllocTablesStep ==
  ASSUME IInv, CarefulUse, NEW c \in Caller, AllocTables(c)
  PROVE  IInv'
<1> DEFINE s == call[c].space
<1>1. call[c].pc = "heap" /\ MayRun(c) /\ s \in Nat /\ call[c].todo = <<>>
  BY DEF AllocTables, At, IInv, TypeOK, Call, CallsAgree, Shaped
<1>2. CallUses(c, call[c]) = {<<"new", c, 0, s>>}
  BY <1>1 DEF CallUses
<1>3. CASE Set(c, Allocating("dir", s, 0))
  <2> DEFINE k == Allocating("dir", s, 0)
  <2>1. k \in Call /\ Shaped(k) /\ UpToDate(k, bitmap) /\ k.for = "dir"
    BY <1>1, CallType
  <2>2. CallUses(c, k) = CallUses(c, call[c])
    BY <1>2, CallsHave
  <2>3. Distinct(CallUses(c, k)) /\ Frames(CallUses(c, k)) = Frames(CallUses(c, call[c]))
    BY <2>2, CallDistinct
  <2>4. Set(c, k) /\ UNCHANGED <<bitmap, spaces, active, pages>>
    BY <1>3 DEF AllocTables
  <2> HIDE DEF k
  <2>5. QED
    BY <1>1, <2>1, <2>3, <2>4, QuietStep
<1>4. CASE Set(c, Freeing(<<s>>))
  BY <1>1, <1>2, <1>4, GiveBackStep DEF AllocTables
<1>5. QED
  BY <1>3, <1>4 DEF AllocTables

LEMMA ScanStep ==
  ASSUME IInv, CarefulUse, NEW c \in Caller, Scan(c)
  PROVE  IInv'
<1> DEFINE o == call[c]
<1>1. /\ o.pc = "scan" /\ MayRun(c) /\ o \in Call /\ o.todo = <<>> /\ o.for # "none"
      /\ UNCHANGED <<bitmap, spaces, active, pages>>
  BY DEF Scan, At, IInv, TypeOK, CallsAgree, Shaped
<1>2. CallUses(c, o) = IF o.for = "dir" THEN {<<"new", c, 0, o.space>>} ELSE {}
  BY <1>1 DEF CallUses
<1>3. CASE bitmap = Frame /\ o.for = "dir"
  BY <1>1, <1>2, <1>3, GiveBackStep DEF Scan
<1>4. CASE bitmap = Frame /\ o.for # "dir"
  <2>1. Set(c, Idle)
    BY <1>4 DEF Scan
  <2>2. Distinct(CallUses(c, Idle)) /\ CallUses(c, Idle) = CallUses(c, o)
    BY <1>2, <1>4, CallsHave DEF Distinct
  <2>3. QED
    BY <1>1, <2>1, <2>2, CallType, QuietStep
<1>5. CASE bitmap # Frame
  <2> DEFINE f == CHOOSE f \in Frame \ bitmap : \A g \in Frame \ bitmap : f <= g
             k == [o EXCEPT !.pc = "tested", !.frame = f]
  <2>1. f \in Frame \ bitmap /\ f \in Nat
    <3>1. Frame \ bitmap \in SUBSET Nat /\ Frame \ bitmap # {}
      BY <1>5, FramesAreFrames DEF IInv, TypeOK
    <3>2. \E g \in Frame \ bitmap : \A h \in Frame \ bitmap : g <= h
      BY <3>1, Least
    <3>3. QED
      BY <3>1, <3>2
  <2>2. Set(c, k)
    BY <1>5 DEF Scan
  <2> HIDE DEF f
  <2>3. /\ k \in Call /\ k.pc = "tested" /\ k.frame = f
        /\ k.todo = o.todo /\ k.for = o.for /\ k.space = o.space /\ k.index = o.index
    BY <1>1, <2>1 DEF Call
  <2> HIDE DEF k
  <2>4. Shaped(k) /\ UpToDate(k, bitmap)
    BY <1>1, <2>1, <2>3 DEF Shaped, UpToDate
  <2>5. CallUses(c, k) = CallUses(c, o)
    BY <1>1, <2>3 DEF CallUses
  <2>6. k.for = "table" =>
          /\ k.space = active[c] /\ active[c] # 0
          /\ k.index \in Index /\ spaces[active[c]].table[k.index] = 0
    BY <2>3 DEF IInv, OwnSpaces
  <2>7. QED
    BY <1>1, <2>2, <2>3, <2>4, <2>5, <2>6, CallDistinct, QuietStep
<1>6. QED
  BY <1>3, <1>4, <1>5

LEMMA LoadStep ==
  ASSUME IInv, CarefulUse, NEW c \in Caller, Load(c)
  PROVE  IInv'
<1> DEFINE o == call[c]
<1>1. o \in Call /\ Shaped(o) /\ UpToDate(o, bitmap) /\ bitmap \subseteq Frame
  BY DEF IInv, TypeOK, CallsAgree
<1>2. /\ o.for = "table" =>
            /\ o.space = active[c] /\ active[c] # 0
            /\ o.index \in Index /\ spaces[active[c]].table[o.index] = 0
  BY DEF IInv, OwnSpaces
<1>3. Distinct(CallUses(c, o))
  BY CallDistinct
<1>4. CASE At(c, "tested")
  <2> DEFINE f == o.frame
             k == [o EXCEPT !.pc = "loaded", !.byte = (bitmap \cap ByteOf(f)) \cup {f}]
  <2>1. o.pc = "tested" /\ MayRun(c)
    BY <1>4 DEF At
  <2>2. Set(c, k) /\ UNCHANGED <<bitmap, spaces, active, pages>>
    BY <2>1 DEF Load, At
  <2>3. f \in Frame \ bitmap /\ o.todo = <<>>
    BY <1>1, <2>1 DEF UpToDate
  <2>4. /\ k \in Call /\ k.pc = "loaded" /\ k.frame = f
        /\ k.byte = (bitmap \cap ByteOf(f)) \cup {f}
        /\ k.todo = o.todo /\ k.for = o.for /\ k.space = o.space /\ k.index = o.index
    BY <1>1, <2>3 DEF Call
  <2> HIDE DEF k
  <2>5. Shaped(k) /\ UpToDate(k, bitmap)
    BY <1>1, <2>1, <2>3, <2>4 DEF Shaped, UpToDate
  <2>6. CallUses(c, k) = CallUses(c, o)
    BY <2>1, <2>4 DEF CallUses
  <2>7. QED
    BY <1>2, <1>3, <2>1, <2>2, <2>4, <2>5, <2>6, QuietStep
<1>5. CASE At(c, "free")
  <2> DEFINE f == Head(o.todo)
             k == [o EXCEPT !.pc = "loaded", !.frame = f, !.byte = (bitmap \cap ByteOf(f)) \ {f}]
  <2>1. o.pc = "free" /\ MayRun(c)
    BY <1>5 DEF At
  <2>2. Set(c, k) /\ UNCHANGED <<bitmap, spaces, active, pages>>
    BY <2>1 DEF Load, At
  <2>3. o.todo \in Seq(Frame) /\ o.todo # <<>> /\ o.for = "none"
    BY <1>1, <2>1 DEF Shaped, Call
  <2>4. f \in Frame
    BY <2>3, HeadTailProperties
  <2>5. /\ k \in Call /\ k.pc = "loaded" /\ k.frame = f
        /\ k.byte = (bitmap \cap ByteOf(f)) \ {f}
        /\ k.todo = o.todo /\ k.for = o.for /\ k.space = o.space /\ k.index = o.index
    <3> HIDE DEF f
    <3>1. QED
      BY <1>1, <2>4, FramesAreFrames DEF Call
  <2> HIDE DEF k
  <2>6. Shaped(k) /\ UpToDate(k, bitmap)
    BY <2>3, <2>5 DEF Shaped, UpToDate
  <2>7. CallUses(c, k) = CallUses(c, o)
    BY <2>1, <2>5 DEF CallUses
  <2>8. QED
    BY <1>2, <1>3, <2>1, <2>2, <2>5, <2>6, <2>7, QuietStep
<1>6. QED
  BY <1>4, <1>5 DEF Load

LEMMA ActivateStep ==
  ASSUME IInv, CarefulUse, NEW c \in Caller, NEW s \in DOMAIN spaces \cup {0},
         address_space_activate(c, s)
  PROVE  IInv'
<1>1. /\ call[c] = Idle /\ UNCHANGED <<bitmap, spaces, pages, call>>
      /\ active' = [active EXCEPT ![c] = s]
      /\ s # 0 => \A d \in Caller \ {c} : active[d] # s
  BY IdleCall DEF address_space_activate, CarefulUse
<1>2. s \in Nat
  BY FramesAreFrames DEF IInv, TypeOK
<1>3. /\ active' \in [Caller -> Nat] /\ active'[c] = s
      /\ \A d \in Caller \ {c} : active'[d] = active[d]
  BY <1>1, <1>2 DEF IInv, TypeOK
<1>4. Uses' = Uses
  BY <1>1 DEF Uses
<1>5. TypeOK' /\ CallsAgree' /\ FramesUnique' /\ BitmapAgrees'
  BY <1>1, <1>3, <1>4
  DEF IInv, TypeOK, CallsAgree, FramesUnique, BitmapAgrees, Used, InAllocator
<1>6. OwnSpaces'
  <2>1. call[c].for = "none"
    BY <1>1, CallType
  <2>2. QED
    BY <1>1, <1>3, <2>1 DEF IInv, OwnSpaces
<1>7. QED
  BY <1>5, <1>6 DEF IInv

LEMMA Exchanged ==
  ASSUME IInv, NEW R \in SUBSET Uses, NEW A, Uses' = (Uses \ R) \cup A,
         Distinct(A), \A u \in A : u[4] \in Used => u[4] \in Frames(R)
  PROVE  FramesUnique' /\ Used' = (Used \ Frames(R)) \cup Frames(A)
<1>1. Distinct(Uses) /\ Frames(Uses) = Used
  BY FramesAreFrames
<1>2. /\ Distinct((Uses \ R) \cup A)
      /\ Frames((Uses \ R) \cup A) = (Used \ Frames(R)) \cup Frames(A)
  <2>1. /\ \A u \in A : u[4] \in Frames(Uses) => u[4] \in Frames(R)
        /\ R \in SUBSET Uses /\ Distinct(A)
    BY <1>1
  <2>2. /\ Distinct((Uses \ R) \cup A)
        /\ Frames((Uses \ R) \cup A) = (Frames(Uses) \ Frames(R)) \cup Frames(A)
    BY <1>1, <2>1, Exchange
  <2>3. QED
    BY <1>1, <2>2
<1>3. Distinct(Uses') /\ Frames(Uses') = (Used \ Frames(R)) \cup Frames(A)
  BY <1>2
<1>4. QED
  BY <1>3 DEF FramesUnique, Used, Distinct, Frames

(* The frames of a list.                                                   *)
Todo(c, q) == {<<"todo", c, n, q[n]>> : n \in 1 .. Len(q)}

LEMMA FreeingHas ==
  ASSUME NEW c, NEW q \in Seq(Frame)
  PROVE  CallUses(c, Freeing(q)) = Todo(c, q)
<1> DEFINE k == Freeing(q)
<1>1. k.todo = q /\ k.for = "none" /\ k.pc # "heap"
  BY DEF Freeing, Idle
<1>2. DOMAIN q = 1 .. Len(q)
  OBVIOUS
<1> HIDE DEF k
<1>3. CallUses(c, k) = Todo(c, q)
  BY <1>1, <1>2 DEF CallUses, Todo
<1>4. QED
  BY <1>3 DEF k

LEMMA Listed ==
  ASSUME NEW c, NEW q
  PROVE  /\ \A f : f \in Frames(Todo(c, q)) <=> \E n \in 1 .. Len(q) : f = q[n]
         /\ Distinct(Todo(c, q)) <=> \A m, n \in 1 .. Len(q) : q[m] = q[n] => m = n
<1> DEFINE T == Todo(c, q)
           D == 1 .. Len(q)
           t(n) == <<"todo", c, n, q[n]>>
<1>1. \A u \in T : \E n \in D : u = t(n)
  BY DEF Todo
<1>2. \A n \in D : t(n) \in T
  BY DEF Todo
<1>3. \A n : t(n)[3] = n /\ t(n)[4] = q[n]
  OBVIOUS
<1> HIDE DEF T, D, t
<1>4. \A f : f \in Frames(T) <=> \E n \in D : f = q[n]
  BY <1>1, <1>2, <1>3 DEF Frames
<1>5. Distinct(T) => \A m, n \in D : q[m] = q[n] => m = n
  <2>1. ASSUME Distinct(T), NEW m \in D, NEW n \in D, q[m] = q[n]  PROVE m = n
    <3>1. t(m) = t(n)
      BY <1>2, <1>3, <2>1 DEF Distinct
    <3>2. QED
      BY <1>3, <3>1
  <2>2. QED
    BY <2>1
<1>6. (\A m, n \in D : q[m] = q[n] => m = n) => Distinct(T)
  <2>1. ASSUME \A m, n \in D : q[m] = q[n] => m = n, NEW u \in T, NEW v \in T, u[4] = v[4]
        PROVE  u = v
    <3>1. PICK m \in D : u = t(m)
      BY <1>1
    <3>2. PICK n \in D : v = t(n)
      BY <1>1
    <3>3. m = n
      BY <1>3, <2>1, <3>1, <3>2
    <3>4. QED
      BY <3>1, <3>2, <3>3
  <2>2. QED
    BY <2>1 DEF Distinct
<1>7. QED
  BY <1>4, <1>5, <1>6 DEF T, D

LEMMA FreePageStep ==
  ASSUME IInv, CarefulUse, NEW c \in Caller, NEW f \in pages[c], FreePage(c, f)
  PROVE  IInv'
<1> DEFINE p == <<"page", c, f, f>>
           q == <<"todo", c, 1, f>>
           k == Freeing(<<f>>)
<1>1. /\ At(c, "idle") /\ UNCHANGED <<bitmap, spaces, active>>
      /\ pages' = [pages EXCEPT ![c] = @ \ {f}] /\ Set(c, k)
  BY DEF FreePage
<1>2. MayRun(c) /\ call[c] = Idle /\ CallUses(c, call[c]) = {}
  BY <1>1, IdleCall
<1>3. f \in Frame /\ pages' \in [Caller -> SUBSET Frame] /\ pages'[c] = pages[c] \ {f}
      /\ \A d \in Caller \ {c} : pages'[d] = pages[d]
  BY <1>1 DEF IInv, TypeOK
<1>4. k \in Call /\ Shaped(k) /\ UpToDate(k, bitmap') /\ k.for = "none"
  <2>1. <<f>> \in Seq(Frame)
    BY <1>3
  <2>2. QED
    BY <2>1, CallType
<1>5. CallUses(c, k) = {q}
  BY CallsHave
<1>6. Set(c, k)
  BY <1>1
<1> HIDE DEF k
<1>7. /\ call' \in [Caller -> Call] /\ call'[c] = k
      /\ \A d \in Caller \ {c} : call'[d] = call[d]
      /\ CallsAgree'
  BY <1>2, <1>4, <1>6, CallStep
<1>8. p \in Uses /\ Uses' = (Uses \ {p}) \cup {q}
  <2> DEFINE Rest == IF c \in DOMAIN spaces THEN SpaceUses(c, spaces[c]) ELSE {}
  <2>1. Had(c, c) \subseteq Uses /\ Uses' = (Uses \ Had(c, c)) \cup Has(c, c)
    BY <1>1, <1>3, <1>7, UsesStep
  <2>2. Had(c, c) = PageUses(c, pages[c]) \cup Rest
    BY <1>2 DEF Had
  <2>3. Has(c, c) = {q} \cup PageUses(c, pages[c] \ {f}) \cup Rest
    <3>1. Has(c, c) = CallUses(c, call'[c]) \cup PageUses(c, pages'[c]) \cup Rest
      BY <1>1 DEF Has
    <3>2. QED
      BY <1>3, <1>5, <1>7, <3>1
  <2>4. p \in PageUses(c, pages[c]) /\ PageUses(c, pages[c] \ {f}) = PageUses(c, pages[c]) \ {p}
    BY DEF PageUses
  <2>5. p \notin Rest
    BY Labels
  <2> HIDE DEF Rest, p, q
  <2>6. QED
    BY <2>1, <2>2, <2>3, <2>4, <2>5
<1>9. FramesUnique' /\ Used' = Used
  <2>1. Distinct({q}) /\ Frames({q}) = {f} /\ Frames({p}) = {f} /\ q[4] = f
    BY DEF Distinct, Frames
  <2>2. f \in Used
    BY <1>8 DEF Used
  <2> HIDE DEF p, q
  <2>3. FramesUnique' /\ Used' = (Used \ Frames({p})) \cup Frames({q})
    BY <1>8, <2>1, Exchanged
  <2>4. QED
    BY <2>1, <2>2, <2>3
<1>10. TypeOK' /\ BitmapAgrees'
  BY <1>1, <1>3, <1>7, <1>9 DEF IInv, TypeOK, BitmapAgrees
<1>11. OwnSpaces'
  BY <1>1, <1>4, <1>7, OwnStep
<1>12. QED
  BY <1>7, <1>9, <1>10, <1>11 DEF IInv

(* bitmap_set and bitmap_reset change one bit.                             *)
LEMMA StoreStep ==
  ASSUME IInv, NEW c \in Caller, StoreByte(c)
  PROVE  /\ call[c].pc = "loaded" /\ MayRun(c)
         /\ IsFree(c) => bitmap' = bitmap \ {Head(call[c].todo)}
         /\ ~ IsFree(c) => /\ bitmap' = bitmap \cup {call[c].frame}
                           /\ call[c].frame \in FreeAtBoot \ Used
<1> DEFINE o == call[c]
           f == o.frame
<1>1. /\ o.pc = "loaded" /\ MayRun(c) /\ o \in Call /\ UpToDate(o, bitmap)
      /\ bitmap' = (bitmap \ ByteOf(f)) \cup o.byte
  BY DEF StoreByte, At, IInv, TypeOK, CallsAgree
<1>2. CASE IsFree(c)
  <2>1. o.todo \in Seq(Frame) /\ o.todo # <<>> /\ f = Head(o.todo)
        /\ o.byte = (bitmap \cap ByteOf(f)) \ {f}
    BY <1>1, <1>2 DEF UpToDate, Call, IsFree
  <2>2. f \in Frame
    BY <2>1, HeadTailProperties
  <2>3. f \in ByteOf(f)
    BY <2>2 DEF ByteOf
  <2> HIDE DEF f
  <2>4. bitmap' = bitmap \ {f}
    BY <1>1, <2>1, <2>3
  <2>5. QED
    BY <1>1, <1>2, <2>1, <2>4
<1>3. CASE ~ IsFree(c)
  <2>1. f \in Frame \ bitmap /\ o.byte = (bitmap \cap ByteOf(f)) \cup {f}
    BY <1>1, <1>3 DEF UpToDate, IsFree
  <2>2. f \in ByteOf(f)
    BY <2>1 DEF ByteOf
  <2> HIDE DEF f
  <2>3. bitmap' = bitmap \cup {f}
    BY <1>1, <2>1, <2>2
  <2>4. f \in FreeAtBoot \ Used
    BY <2>1, FramesAreFrames
  <2>5. QED
    BY <1>1, <1>3, <2>3, <2>4 DEF f
<1>4. QED
  BY <1>2, <1>3

LEMMA FreedStep ==
  ASSUME IInv, CarefulUse, NEW c \in Caller, Freed(c)
  PROVE  IInv'
<1> DEFINE o == call[c]
           h == Head(o.todo)
           q == Tail(o.todo)
           k == Freeing(q)
           R == CallUses(c, o)
           A == CallUses(c, k)
<1>1. /\ o.pc = "loaded" /\ MayRun(c) /\ IsFree(c) /\ bitmap' = bitmap \ {h}
      /\ Set(c, k) /\ UNCHANGED <<spaces, active, pages>>
  BY StoreStep DEF Freed
<1>2. o.todo \in Seq(Frame) /\ o.todo # <<>> /\ o.for = "none"
  BY <1>1 DEF IInv, TypeOK, Call, CallsAgree, Shaped, IsFree
<1>3. h \in Frame /\ q \in Seq(Frame) /\ Len(q) = Len(o.todo) - 1
      /\ Len(o.todo) \in Nat \ {0} /\ h = o.todo[1]
      /\ \A n \in 1 .. Len(q) : q[n] = o.todo[n + 1]
  BY <1>2, HeadTailProperties
<1>4. k \in Call /\ Shaped(k) /\ UpToDate(k, bitmap') /\ k.for = "none"
  BY <1>3, CallType
<1>5. A = Todo(c, q)
  <2>1. q \in Seq(Frame)
    BY <1>3
  <2> HIDE DEF q, h
  <2>2. QED
    BY <2>1, FreeingHas
<1>6. R = Todo(c, o.todo)
  <2>1. DOMAIN o.todo = 1 .. Len(o.todo)
    BY <1>2
  <2>2. QED
    BY <1>1, <1>2, <2>1 DEF CallUses, Todo
<1>7. Set(c, k)
  BY <1>1
<1> HIDE DEF h, q, k
<1>8. /\ call' \in [Caller -> Call] /\ call'[c] = k
      /\ \A d \in Caller \ {c} : call'[d] = call[d]
      /\ CallsAgree'
  BY <1>1, <1>4, <1>7, CallStep
<1>9. R \subseteq Uses /\ Uses' = (Uses \ R) \cup A
  BY <1>1, <1>8, CallUsesStep
<1> HIDE DEF R, A
<1>10. \A m, n \in 1 .. Len(o.todo) : o.todo[m] = o.todo[n] => m = n
  <2>1. Distinct(R)
    BY CallDistinct DEF R
  <2>2. QED
    BY <1>6, <2>1, Listed
<1>11. \A n \in 1 .. Len(q) : n + 1 \in 1 .. Len(o.todo) /\ n + 1 # 1
  BY <1>3
<1>12. \A f : f \in Frames(R) <=> \E n \in 1 .. Len(o.todo) : f = o.todo[n]
  BY <1>6, Listed
<1>13. \A f : f \in Frames(A) <=> \E n \in 1 .. Len(q) : f = q[n]
  BY <1>5, Listed
<1>14. Frames(A) = Frames(R) \ {h}
  <2>1. Frames(A) \subseteq Frames(R) \ {h}
    <3>1. ASSUME NEW n \in 1 .. Len(q)  PROVE q[n] \in Frames(R) /\ q[n] # h
      <4>1. n + 1 \in 1 .. Len(o.todo) /\ n + 1 # 1 /\ q[n] = o.todo[n + 1] /\ 1 \in 1 .. Len(o.todo)
        BY <1>3, <1>11
      <4>2. o.todo[n + 1] # o.todo[1]
        BY <1>10, <4>1
      <4>3. QED
        BY <1>3, <1>12, <4>1, <4>2
    <3>2. QED
      BY <1>13, <3>1
  <2>2. ASSUME NEW n \in 1 .. Len(o.todo), o.todo[n] # h  PROVE o.todo[n] \in Frames(A)
    <3>1. n # 1
      BY <1>3, <2>2
    <3>2. n - 1 \in 1 .. Len(q) /\ (n - 1) + 1 = n
      BY <1>3, <3>1
    <3>3. q[n - 1] = o.todo[n]
      BY <1>3, <3>2
    <3>4. QED
      BY <1>13, <3>2, <3>3
  <2>3. QED
    BY <1>12, <2>1, <2>2
<1>15. Distinct(A)
  <2>1. ASSUME NEW m \in 1 .. Len(q), NEW n \in 1 .. Len(q), q[m] = q[n]  PROVE m = n
    <3>1. m + 1 = n + 1
      BY <1>3, <1>10, <1>11, <2>1
    <3>2. QED
      BY <1>3, <3>1
  <2>2. QED
    BY <1>5, <2>1, Listed
<1>16. FramesUnique' /\ Used' = Used \ {h} /\ h \in Used
  <2>1. \A u \in A : u[4] \in Frames(R)
    <3>1. \A u \in A : u[4] \in Frames(A)
      BY DEF Frames
    <3>2. QED
      BY <1>14, <3>1
  <2>2. Frames(R) \subseteq Used /\ h \in Frames(R)
    <3>1. h \in Frames(R)
      BY <1>3, <1>12
    <3>2. QED
      BY <1>9, <3>1 DEF Frames, Used
  <2>3. FramesUnique' /\ Used' = (Used \ Frames(R)) \cup Frames(A)
    BY <1>9, <1>15, <2>1, Exchanged
  <2>4. QED
    BY <1>14, <2>2, <2>3
<1>17. BitmapAgrees'
  BY <1>1, <1>16 DEF IInv, BitmapAgrees
<1>18. TypeOK'
  BY <1>1, <1>8 DEF IInv, TypeOK
<1>19. OwnSpaces'
  BY <1>1, <1>4, <1>8, OwnStep
<1>20. QED
  BY <1>8, <1>16, <1>17, <1>18, <1>19 DEF IInv

(* pmm_alloc_frame returns a frame that nobody has.                        *)
LEMMA GotFrame ==
  ASSUME IInv, NEW c \in Caller, Got(c)
  PROVE  /\ MayRun(c) /\ call[c].for # "none" /\ call[c].space \in Nat
         /\ call[c].frame \in FreeAtBoot \ Used /\ bitmap' = bitmap \cup {call[c].frame}
         /\ CallUses(c, call[c]) =
              IF call[c].for = "dir" THEN {<<"new", c, 0, call[c].space>>} ELSE {}
         /\ UNCHANGED active
<1> DEFINE o == call[c]
<1>1. StoreByte(c) /\ ~ IsFree(c) /\ UNCHANGED active
  BY DEF Got
<1>2. /\ MayRun(c) /\ o.pc = "loaded" /\ o.frame \in FreeAtBoot \ Used
      /\ bitmap' = bitmap \cup {o.frame}
  BY <1>1, StoreStep
<1>3. o.todo = <<>> /\ o.for # "none" /\ o.space \in Nat
  BY <1>1, <1>2 DEF IInv, TypeOK, Call, CallsAgree, Shaped, IsFree
<1>4. CallUses(c, o) = IF o.for = "dir" THEN {<<"new", c, 0, o.space>>} ELSE {}
  BY <1>2, <1>3 DEF CallUses
<1>5. QED
  BY <1>1, <1>2, <1>3, <1>4

(* Somebody has it from now on, and nobody else.                           *)
LEMMA NewUse ==
  ASSUME IInv, NEW f \in FreeAtBoot \ Used, bitmap' = bitmap \cup {f},
         NEW u, u[4] = f, Uses' = Uses \cup {u}
  PROVE  FramesUnique' /\ BitmapAgrees'
<1>1. Distinct({u}) /\ Frames({u}) = {f} /\ Frames({}) = {}
  BY DEF Distinct, Frames
<1>2. \A v \in {u} : v[4] \notin Used
  OBVIOUS
<1>3. {} \in SUBSET Uses /\ Uses' = (Uses \ {}) \cup {u}
  OBVIOUS
<1>4. FramesUnique' /\ Used' = (Used \ {}) \cup {f}
  <2>1. \A v \in {u} : v[4] \in Used => v[4] \in Frames({})
    BY <1>2
  <2>2. FramesUnique' /\ Used' = (Used \ Frames({})) \cup Frames({u})
    BY <1>1, <1>3, <2>1, Exchanged
  <2>3. QED
    BY <1>1, <2>2
<1>5. QED
  BY <1>4 DEF IInv, BitmapAgrees

LEMMA GotSpaceStep ==
  ASSUME IInv, CarefulUse, NEW c \in Caller, Got(c), call[c].for = "space"
  PROVE  IInv'
<1> DEFINE f == call[c].frame
           k == [Idle EXCEPT !.pc = "heap", !.space = f]
<1>1. /\ MayRun(c) /\ f \in FreeAtBoot \ Used /\ bitmap' = bitmap \cup {f}
      /\ CallUses(c, call[c]) = {} /\ UNCHANGED active
  BY GotFrame
<1>2. Set(c, k) /\ UNCHANGED <<spaces, pages>>
  BY DEF Got
<1>3. f \in Frame /\ f \in Nat
  BY <1>1, FramesAreFrames
<1> HIDE DEF f
<1>4. k \in Call /\ k.pc = "heap" /\ k.for = "none" /\ k.todo = <<>> /\ k.space = f
  BY <1>3, CallType DEF Call, Idle
<1> HIDE DEF k
<1>5. Shaped(k) /\ UpToDate(k, bitmap')
  BY <1>4 DEF Shaped, UpToDate
<1>6. /\ call' \in [Caller -> Call] /\ call'[c] = k
      /\ \A d \in Caller \ {c} : call'[d] = call[d]
      /\ CallsAgree'
  BY <1>1, <1>2, <1>4, <1>5, CallStep
<1>7. CallUses(c, k) = {<<"new", c, 0, f>>}
  BY <1>4 DEF CallUses
<1>8. Uses' = Uses \cup {<<"new", c, 0, f>>}
  BY <1>1, <1>2, <1>6, <1>7, CallUsesStep
<1>9. FramesUnique' /\ BitmapAgrees'
  BY <1>1, <1>8, NewUse
<1>10. TypeOK' /\ OwnSpaces'
  <2>1. bitmap' \subseteq Frame
    BY <1>1, <1>3 DEF IInv, TypeOK
  <2>2. TypeOK'
    BY <1>1, <1>2, <1>6, <2>1 DEF IInv, TypeOK
  <2>3. OwnSpaces'
    BY <1>1, <1>2, <1>4, <1>6, OwnStep
  <2>4. QED
    BY <2>2, <2>3
<1>11. QED
  BY <1>6, <1>9, <1>10 DEF IInv

LEMMA GotPageStep ==
  ASSUME IInv, CarefulUse, NEW c \in Caller, Got(c), call[c].for = "page"
  PROVE  IInv'
<1> DEFINE f == call[c].frame
           p == <<"page", c, f, f>>
<1>1. /\ MayRun(c) /\ f \in FreeAtBoot \ Used /\ bitmap' = bitmap \cup {f}
      /\ CallUses(c, call[c]) = {} /\ UNCHANGED active
  BY GotFrame
<1>2. Set(c, Idle) /\ UNCHANGED spaces /\ pages' = [pages EXCEPT ![c] = @ \cup {f}]
  BY DEF Got
<1>3. f \in Frame
  BY <1>1, FramesAreFrames
<1> HIDE DEF f
<1>4. /\ pages' \in [Caller -> SUBSET Frame] /\ pages'[c] = pages[c] \cup {f}
      /\ \A d \in Caller \ {c} : pages'[d] = pages[d]
  BY <1>2, <1>3 DEF IInv, TypeOK
<1>5. /\ call' \in [Caller -> Call] /\ call'[c] = Idle
      /\ \A d \in Caller \ {c} : call'[d] = call[d]
      /\ CallsAgree'
  BY <1>1, <1>2, CallType, CallStep
<1>6. Uses' = Uses \cup {p}
  <2> DEFINE Rest == IF c \in DOMAIN spaces THEN SpaceUses(c, spaces[c]) ELSE {}
  <2>1. Had(c, c) \subseteq Uses /\ Uses' = (Uses \ Had(c, c)) \cup Has(c, c)
    BY <1>2, <1>4, <1>5, UsesStep
  <2>2. Had(c, c) = PageUses(c, pages[c]) \cup Rest
    BY <1>1 DEF Had
  <2>3. Has(c, c) = PageUses(c, pages[c] \cup {f}) \cup Rest
    <3>1. Has(c, c) = CallUses(c, call'[c]) \cup PageUses(c, pages'[c]) \cup Rest
      BY <1>2 DEF Has
    <3>2. QED
      BY <1>4, <1>5, <3>1, CallsHave
  <2>4. PageUses(c, pages[c] \cup {f}) = PageUses(c, pages[c]) \cup {p}
    BY DEF PageUses
  <2> HIDE DEF Rest, p
  <2>5. QED
    BY <2>1, <2>2, <2>3, <2>4
<1>7. FramesUnique' /\ BitmapAgrees'
  <2>1. p[4] = f
    OBVIOUS
  <2> HIDE DEF p
  <2>2. QED
    BY <1>1, <1>6, <2>1, NewUse
<1>8. TypeOK' /\ OwnSpaces'
  <2>1. bitmap' \subseteq Frame
    BY <1>1, <1>3 DEF IInv, TypeOK
  <2>2. TypeOK'
    BY <1>1, <1>2, <1>4, <1>5, <2>1 DEF IInv, TypeOK
  <2>3. OwnSpaces'
    BY <1>1, <1>2, <1>5, CallType, OwnStep
  <2>4. QED
    BY <2>2, <2>3
<1>9. QED
  BY <1>5, <1>7, <1>8 DEF IInv

LEMMA GotTableStep ==
  ASSUME IInv, CarefulUse, NEW c \in Caller, Got(c), call[c].for = "table"
  PROVE  IInv'
<1> DEFINE f == call[c].frame
           s == call[c].space
           i == call[c].index
           a == spaces[s]
           b == [a EXCEPT !.table[i] = f]
           p == <<"table", s, i, f>>
<1>1. /\ MayRun(c) /\ f \in FreeAtBoot \ Used /\ bitmap' = bitmap \cup {f}
      /\ CallUses(c, call[c]) = {} /\ UNCHANGED active
  BY GotFrame
<1>2. Set(c, Idle) /\ UNCHANGED pages /\ spaces' = [spaces EXCEPT ![s] = b]
  BY DEF Got
<1>3. f \in Frame /\ f \in Nat /\ f # 0
  BY <1>1, FramesAreFrames
<1>4. s = active[c] /\ s # 0 /\ s \in DOMAIN spaces /\ i \in Index /\ a.table[i] = 0
  BY DEF IInv, OwnSpaces
<1>5. a \in Space /\ spaces \in [DOMAIN spaces -> Space]
  BY <1>4 DEF IInv, TypeOK
<1> HIDE DEF f, s, i, a
<1>6. /\ b \in Space /\ b.dir = a.dir /\ b.table[i] = f
      /\ \A j \in Index \ {i} : b.table[j] = a.table[j]
  BY <1>3, <1>4, <1>5 DEF Space
<1> HIDE DEF b
<1>7. /\ DOMAIN spaces' = DOMAIN spaces /\ spaces' \in [DOMAIN spaces -> Space]
      /\ spaces'[s] = b /\ \A t \in DOMAIN spaces \ {s} : spaces'[t] = spaces[t]
  BY <1>2, <1>4, <1>5, <1>6
<1>8. /\ call' \in [Caller -> Call] /\ call'[c] = Idle
      /\ \A d \in Caller \ {c} : call'[d] = call[d]
      /\ CallsAgree'
  BY <1>1, <1>2, CallType, CallStep
<1>9. Uses' = Uses \cup {p}
  <2>1. Had(c, s) \subseteq Uses /\ Uses' = (Uses \ Had(c, s)) \cup Has(c, s)
    BY <1>2, <1>7, <1>8, UsesStep
  <2>2. Had(c, s) = PageUses(c, pages[c]) \cup SpaceUses(s, a)
    BY <1>1, <1>4 DEF Had, a
  <2>3. Has(c, s) = PageUses(c, pages[c]) \cup SpaceUses(s, b)
    <3>1. Has(c, s) = CallUses(c, call'[c]) \cup PageUses(c, pages'[c])
                          \cup (IF s \in DOMAIN spaces' THEN SpaceUses(s, spaces'[s]) ELSE {})
      BY DEF Has
    <3>2. QED
      BY <1>2, <1>4, <1>7, <1>8, <3>1, CallsHave
  <2>4. SpaceUses(s, b) = SpaceUses(s, a) \cup {p}
    <3>1. {j \in Index : b.table[j] # 0} = {j \in Index : a.table[j] # 0} \cup {i}
      BY <1>3, <1>4, <1>6
    <3> DEFINE Ta == {<<"table", s, j, a.table[j]>> : j \in {j \in Index : a.table[j] # 0}}
               Tb == {<<"table", s, j, b.table[j]>> : j \in {j \in Index : b.table[j] # 0}}
    <3>2. Tb = Ta \cup {p}
      BY <1>4, <1>6, <3>1
    <3>3. SpaceUses(s, a) = {<<"space", s, 0, s>>, <<"dir", s, 0, a.dir>>} \cup Ta
      BY DEF SpaceUses
    <3>4. SpaceUses(s, b) = {<<"space", s, 0, s>>, <<"dir", s, 0, a.dir>>} \cup Tb
      BY <1>6 DEF SpaceUses
    <3> HIDE DEF Ta, Tb, p
    <3>5. QED
      BY <3>2, <3>3, <3>4
  <2> HIDE DEF p
  <2>5. QED
    BY <2>1, <2>2, <2>3, <2>4
<1>10. FramesUnique' /\ BitmapAgrees'
  <2>1. p[4] = f
    OBVIOUS
  <2> HIDE DEF p
  <2>2. QED
    BY <1>1, <1>9, <2>1, NewUse
<1>11. TypeOK'
  <2>1. bitmap' \subseteq Frame
    BY <1>1, <1>3 DEF IInv, TypeOK
  <2>2. QED
    BY <1>1, <1>2, <1>7, <1>8, <2>1 DEF IInv, TypeOK
<1>12. OwnSpaces'
  <2>1. ASSUME NEW d \in Caller, call'[d].for = "table"
        PROVE  /\ call'[d].space = active[d] /\ active[d] # 0
               /\ call'[d].index \in Index /\ spaces'[active[d]].table[call'[d].index] = 0
    <3>1. d # c /\ call'[d] = call[d]
      BY <1>8, <2>1, CallType
    <3>2. /\ call[d].space = active[d] /\ active[d] # 0 /\ active[d] \in DOMAIN spaces
          /\ call[d].index \in Index /\ spaces[active[d]].table[call[d].index] = 0
      BY <2>1, <3>1 DEF IInv, OwnSpaces
    <3>3. active[d] # s
      BY <1>4, <3>1 DEF IInv, OwnSpaces
    <3>4. QED
      BY <1>7, <3>1, <3>2, <3>3
  <2>2. QED
    BY <1>1, <1>7, <2>1 DEF IInv, OwnSpaces
<1>13. QED
  BY <1>8, <1>10, <1>11, <1>12 DEF IInv

LEMMA GotDirStep ==
  ASSUME IInv, CarefulUse, NEW c \in Caller, Got(c), call[c].for = "dir"
  PROVE  IInv'
<1> DEFINE f == call[c].frame
           s == call[c].space
           b == [dir |-> f, table |-> NoTables]
           r == <<"new", c, 0, s>>
           p == <<"space", s, 0, s>>
           q == <<"dir", s, 0, f>>
<1>1. /\ MayRun(c) /\ f \in FreeAtBoot \ Used /\ bitmap' = bitmap \cup {f}
      /\ CallUses(c, call[c]) = {r} /\ UNCHANGED active
  BY GotFrame
<1>2. /\ Set(c, Idle) /\ UNCHANGED pages
      /\ spaces' = [t \in DOMAIN spaces \cup {s} |-> IF t = s THEN b ELSE spaces[t]]
  BY DEF Got
<1>3. r \in Uses /\ s \in Used
  <2>1. r \in Uses
    BY <1>1, IsUse
  <2>2. QED
    BY <2>1 DEF Used
<1>4. f \in Frame /\ f # 0 /\ s \in Frame /\ s # 0 /\ f # s
  BY <1>1, <1>3, FramesAreFrames
<1>5. s \notin DOMAIN spaces
  <2>1. ASSUME s \in DOMAIN spaces  PROVE FALSE
    <3>1. p \in SpaceUses(s, spaces[s])
      BY DEF SpaceUses
    <3>2. p \in Uses
      BY <2>1, <3>1, IsUse
    <3>3. p = r
      BY <1>3, <3>2 DEF IInv, FramesUnique
    <3>4. QED
      BY <3>3
  <2>2. QED
    BY <2>1
<1> HIDE DEF f, s
<1>6. b \in Space /\ b.dir = f /\ \A j \in Index : b.table[j] = 0
  BY <1>4 DEF Space, NoTables
<1> HIDE DEF b
<1>7. /\ DOMAIN spaces' = DOMAIN spaces \cup {s} /\ spaces' \in [DOMAIN spaces' -> Space]
      /\ spaces'[s] = b /\ \A t \in DOMAIN spaces : spaces'[t] = spaces[t]
  BY <1>2, <1>5, <1>6 DEF IInv, TypeOK
<1>8. /\ call' \in [Caller -> Call] /\ call'[c] = Idle
      /\ \A d \in Caller \ {c} : call'[d] = call[d]
      /\ CallsAgree'
  BY <1>1, <1>2, CallType, CallStep
<1>9. Uses' = (Uses \ {r}) \cup {p, q}
  <2>1. Had(c, s) \subseteq Uses /\ Uses' = (Uses \ Had(c, s)) \cup Has(c, s)
    BY <1>2, <1>7, <1>8, UsesStep
  <2>2. Had(c, s) = {r} \cup PageUses(c, pages[c])
    BY <1>1, <1>5 DEF Had
  <2>3. Has(c, s) = PageUses(c, pages[c]) \cup SpaceUses(s, b)
    <3>1. Has(c, s) = CallUses(c, call'[c]) \cup PageUses(c, pages'[c])
                          \cup (IF s \in DOMAIN spaces' THEN SpaceUses(s, spaces'[s]) ELSE {})
      BY DEF Has
    <3>2. QED
      BY <1>2, <1>7, <1>8, <3>1, CallsHave
  <2>4. SpaceUses(s, b) = {p, q}
    <3>1. {j \in Index : b.table[j] # 0} = {}
      BY <1>6
    <3>2. QED
      BY <1>6, <3>1 DEF SpaceUses
  <2>5. r \notin PageUses(c, pages[c])
    BY Labels
  <2> HIDE DEF p, q, r
  <2>6. QED
    BY <2>1, <2>2, <2>3, <2>4, <2>5
<1>10. FramesUnique' /\ BitmapAgrees'
  <2>1. r[4] = s /\ p[4] = s /\ q[4] = f
    OBVIOUS
  <2> HIDE DEF p, q, r
  <2>2. Frames({r}) = {s} /\ Frames({p, q}) = {s, f}
    BY <2>1 DEF Frames
  <2>3. Distinct({p, q})
    BY <1>4, <2>1 DEF Distinct
  <2>4. \A u \in {p, q} : u[4] \in Used => u[4] \in Frames({r})
    BY <1>1, <2>1, <2>2
  <2>5. {r} \in SUBSET Uses
    BY <1>3
  <2>6. FramesUnique' /\ Used' = (Used \ Frames({r})) \cup Frames({p, q})
    BY <1>9, <2>3, <2>4, <2>5, Exchanged
  <2>7. Used' = Used \cup {f}
    BY <1>3, <2>2, <2>6
  <2>8. QED
    BY <1>1, <2>6, <2>7 DEF IInv, BitmapAgrees
<1>11. TypeOK'
  <2>1. bitmap' \subseteq Frame
    BY <1>1, <1>4 DEF IInv, TypeOK
  <2>2. QED
    BY <1>1, <1>2, <1>4, <1>7, <1>8, <2>1 DEF IInv, TypeOK
<1>12. OwnSpaces'
  <2>1. call'[c].for = "none"
    BY <1>8, CallType
  <2>2. QED
    BY <1>1, <1>7, <1>8, <2>1 DEF IInv, OwnSpaces
<1>13. QED
  BY <1>8, <1>10, <1>11, <1>12 DEF IInv

LEMMA GotStep ==
  ASSUME IInv, CarefulUse, NEW c \in Caller, Got(c)
  PROVE  IInv'
<1>1. call[c].for \in {"space", "dir", "table", "page"}
  BY DEF Got
<1>2. QED
  BY <1>1, GotSpaceStep, GotDirStep, GotTableStep, GotPageStep

(* What address_space_destroy gives back is what the address space has.     *)
LEMMA GivesBack ==
  ASSUME IInv, NEW s \in DOMAIN spaces
  PROVE  LET w == TableFrames(s) \o <<spaces[s].dir, s>>
             R == SpaceUses(s, spaces[s]) IN
         /\ w \in Seq(Frame)
         /\ \A f : f \in Frames(R) <=> \E n \in 1 .. Len(w) : f = w[n]
         /\ \A m, n \in 1 .. Len(w) : w[m] = w[n] => m = n
<1> DEFINE a == spaces[s]
           J == {i \in Index : a.table[i] # 0}
           k == Cardinality(J)
           q == InOrder(J)
           T == TableFrames(s)
           w == T \o <<a.dir, s>>
           R == SpaceUses(s, a)
           tab(i) == <<"table", s, i, a.table[i]>>
           dir == <<"dir", s, 0, a.dir>>
           own == <<"space", s, 0, s>>
<1>1. /\ q \in [1 .. k -> J] /\ k \in Nat
      /\ \A m, n \in 1 .. k : q[m] = q[n] => m = n
      /\ \A i \in J : \E n \in 1 .. k : q[n] = i
  <2>1. J \in SUBSET Nat /\ IsFiniteSet(J)
    BY MemoryAssumption, FS_Subset
  <2> HIDE DEF J
  <2>2. QED
    BY <2>1, Ordered
<1>2. T = [n \in 1 .. k |-> a.table[q[n]]]
  <2>1. T = [n \in DOMAIN q |-> a.table[q[n]]]
    BY DEF TableFrames
  <2> HIDE DEF q, T, k
  <2>2. DOMAIN q = 1 .. k
    BY <1>1
  <2>3. QED
    BY <2>1, <2>2
<1>3. R \subseteq Uses /\ Distinct(R) /\ Frames(R) \subseteq Frame
  <2>1. R \subseteq Uses
    BY IsUse
  <2> HIDE DEF R
  <2>2. Distinct(R)
    BY <2>1, FramesAreFrames DEF Distinct
  <2>3. Frames(R) \subseteq Used
    BY <2>1 DEF Frames, Used
  <2>4. QED
    BY <2>1, <2>2, <2>3, FramesAreFrames
<1>4. /\ \A u \in R : u = own \/ u = dir \/ \E i \in J : u = tab(i)
      /\ own \in R /\ dir \in R /\ \A i \in J : tab(i) \in R
  BY DEF SpaceUses
<1>5. /\ own[4] = s /\ dir[4] = a.dir /\ own # dir
      /\ \A i : tab(i)[4] = a.table[i] /\ tab(i)[3] = i /\ tab(i) # own /\ tab(i) # dir
  OBVIOUS
<1> HIDE DEF q, R, J, k, tab, dir, own, T
<1>6. /\ s \in Frames(R) /\ a.dir \in Frames(R) /\ \A i \in J : a.table[i] \in Frames(R)
      /\ \A f \in Frames(R) : f = s \/ f = a.dir \/ \E i \in J : f = a.table[i]
  BY <1>4, <1>5 DEF Frames
<1>7. /\ s # a.dir
      /\ \A i \in J : a.table[i] # s /\ a.table[i] # a.dir
      /\ \A i, j \in J : a.table[i] = a.table[j] => i = j
  <2>1. s # a.dir
    BY <1>3, <1>4, <1>5 DEF Distinct
  <2>2. ASSUME NEW i \in J  PROVE a.table[i] # s /\ a.table[i] # a.dir
    BY <1>3, <1>4, <1>5 DEF Distinct
  <2>3. ASSUME NEW i \in J, NEW j \in J, a.table[i] = a.table[j]  PROVE i = j
    <3>1. tab(i) = tab(j)
      BY <1>3, <1>4, <1>5, <2>3 DEF Distinct
    <3>2. QED
      BY <1>5, <3>1
  <2>4. QED
    BY <2>1, <2>2, <2>3
<1> HIDE DEF a
<1>8. \A n \in 1 .. k : q[n] \in J /\ T[n] = a.table[q[n]] /\ T[n] \in Frame
  <2>1. ASSUME NEW n \in 1 .. k  PROVE q[n] \in J /\ T[n] = a.table[q[n]] /\ T[n] \in Frame
    <3>1. q[n] \in J
      BY <1>1
    <3>2. T[n] = a.table[q[n]]
      BY <1>2
    <3>3. QED
      BY <1>3, <1>6, <3>1, <3>2
  <2>2. QED
    BY <2>1
<1>9. T \in Seq(Frame) /\ Len(T) = k
  BY <1>1, <1>2, <1>8
<1>10. s \in Frame /\ a.dir \in Frame
  BY <1>3, <1>6
<1>11. /\ w \in Seq(Frame) /\ Len(w) = k + 2
       /\ \A n \in 1 .. k : w[n] = a.table[q[n]]
       /\ w[k + 1] = a.dir /\ w[k + 2] = s
  BY <1>1, <1>8, <1>9, <1>10
<1> HIDE DEF w
<1>12. \A n \in 1 .. Len(w) : n \in 1 .. k \/ n = k + 1 \/ n = k + 2
  BY <1>1, <1>11
<1>13. 1 .. k \subseteq 1 .. Len(w) /\ k + 1 \in 1 .. Len(w) /\ k + 2 \in 1 .. Len(w)
  BY <1>1, <1>11
<1>14. \A f : f \in Frames(R) <=> \E n \in 1 .. Len(w) : f = w[n]
  <2>1. ASSUME NEW n \in 1 .. Len(w)  PROVE w[n] \in Frames(R)
    BY <1>6, <1>8, <1>11, <1>12
  <2>2. ASSUME NEW f \in Frames(R)  PROVE \E n \in 1 .. Len(w) : f = w[n]
    <3>1. CASE f = s
      BY <1>11, <1>13, <3>1
    <3>2. CASE f = a.dir
      BY <1>11, <1>13, <3>2
    <3>3. CASE \E i \in J : f = a.table[i]
      <4>1. PICK i \in J : f = a.table[i]
        BY <3>3
      <4>2. PICK n \in 1 .. k : q[n] = i
        BY <1>1
      <4>3. n \in 1 .. Len(w) /\ f = w[n]
        BY <1>11, <1>13, <4>1, <4>2
      <4>4. QED
        BY <4>3
    <3>4. QED
      BY <1>6, <3>1, <3>2, <3>3
  <2>3. QED
    BY <2>1, <2>2
<1>15. \A m, n \in 1 .. Len(w) : w[m] = w[n] => m = n
  <2>1. ASSUME NEW m \in 1 .. k, NEW n \in 1 .. k, w[m] = w[n]  PROVE m = n
    <3>1. q[m] \in J /\ q[n] \in J /\ a.table[q[m]] = a.table[q[n]]
      BY <1>8, <1>11, <2>1
    <3>2. q[m] = q[n]
      BY <1>7, <3>1
    <3>3. QED
      BY <1>1, <3>2
  <2>2. \A n \in 1 .. k : w[n] # a.dir /\ w[n] # s
    BY <1>7, <1>8, <1>11
  <2>3. QED
    BY <1>7, <1>11, <1>12, <2>1, <2>2
<1>16. QED
  BY <1>11, <1>14, <1>15 DEF w, R, a, T

LEMMA DestroyStep ==
  ASSUME IInv, CarefulUse, NEW c \in Caller, NEW s \in DOMAIN spaces,
         address_space_destroy(c, s)
  PROVE  IInv'
<1> DEFINE w == TableFrames(s) \o <<spaces[s].dir, s>>
           R == SpaceUses(s, spaces[s])
           k == Freeing(w)
           A == Todo(c, w)
<1>1. /\ At(c, "idle") /\ UNCHANGED <<bitmap, active, pages>>
      /\ \A d \in Caller : active[d] # s
      /\ spaces' = [t \in DOMAIN spaces \ {s} |-> spaces[t]] /\ Set(c, k)
  BY DEF address_space_destroy
<1>2. MayRun(c) /\ call[c] = Idle /\ CallUses(c, call[c]) = {}
  BY <1>1, IdleCall
<1>3. /\ w \in Seq(Frame)
      /\ \A f : f \in Frames(R) <=> \E n \in 1 .. Len(w) : f = w[n]
      /\ \A m, n \in 1 .. Len(w) : w[m] = w[n] => m = n
  BY GivesBack
<1> HIDE DEF w, R
<1>4. Distinct(A) /\ Frames(A) = Frames(R)
  <2>1. /\ \A f : f \in Frames(A) <=> \E n \in 1 .. Len(w) : f = w[n]
        /\ Distinct(A)
    BY <1>3, Listed
  <2> HIDE DEF A
  <2>2. QED
    BY <1>3, <2>1
<1>5. /\ k \in Call /\ Shaped(k) /\ UpToDate(k, bitmap') /\ k.for = "none"
      /\ CallUses(c, k) = A
  BY <1>3, CallType, FreeingHas
<1>6. Set(c, k)
  BY <1>1
<1> HIDE DEF k, A
<1>7. /\ call' \in [Caller -> Call] /\ call'[c] = k
      /\ \A d \in Caller \ {c} : call'[d] = call[d]
      /\ CallsAgree'
  BY <1>2, <1>5, <1>6, CallStep
<1>8. /\ DOMAIN spaces' = DOMAIN spaces \ {s}
      /\ \A t \in DOMAIN spaces' : spaces'[t] = spaces[t]
  BY <1>1
<1>9. R \subseteq Uses /\ Uses' = (Uses \ R) \cup A
  <2>1. Had(c, s) \subseteq Uses /\ Uses' = (Uses \ Had(c, s)) \cup Has(c, s)
    BY <1>1, <1>7, <1>8, UsesStep
  <2>2. Had(c, s) = PageUses(c, pages[c]) \cup R
    BY <1>2 DEF Had, R
  <2>3. Has(c, s) = A \cup PageUses(c, pages[c])
    BY <1>1, <1>5, <1>7, <1>8 DEF Has
  <2>4. PageUses(c, pages[c]) \cap R = {}
    BY Labels DEF R
  <2>5. QED
    BY <2>1, <2>2, <2>3, <2>4
<1>10. FramesUnique' /\ Used' = Used
  <2>1. \A u \in A : u[4] \in Frames(R)
    BY <1>4 DEF Frames
  <2>2. Frames(R) \subseteq Used
    BY <1>9 DEF Frames, Used
  <2>3. R \in SUBSET Uses
    BY <1>9
  <2>4. FramesUnique' /\ Used' = (Used \ Frames(R)) \cup Frames(A)
    BY <1>4, <1>9, <2>1, <2>3, Exchanged
  <2>5. QED
    BY <1>4, <2>2, <2>4
<1>11. TypeOK' /\ BitmapAgrees'
  <2>1. spaces' \in [DOMAIN spaces' -> Space] /\ DOMAIN spaces' \subseteq Frame
    BY <1>1, <1>8 DEF IInv, TypeOK
  <2>2. QED
    BY <1>1, <1>7, <1>10, <2>1 DEF IInv, TypeOK, BitmapAgrees
<1>12. OwnSpaces'
  BY <1>1, <1>5, <1>7, <1>8 DEF IInv, OwnSpaces
<1>13. QED
  BY <1>7, <1>10, <1>11, <1>12 DEF IInv

LEMMA StutterStep == IInv /\ UNCHANGED vars => IInv'
<1> SUFFICES ASSUME IInv, UNCHANGED vars  PROVE IInv'
  OBVIOUS
<1>1. UNCHANGED <<bitmap, spaces, active, pages, call>>
  BY DEF vars
<1>2. Uses' = Uses
  BY <1>1 DEF Uses
<1>3. QED
  BY <1>1, <1>2
  DEF IInv, TypeOK, CallsAgree, OwnSpaces, FramesUnique, BitmapAgrees, Used, InAllocator

LEMMA NextHolds == ASSUME CarefulUse PROVE IInv /\ [Next]_vars => IInv'
<1> SUFFICES ASSUME IInv, [Next]_vars  PROVE IInv'
  OBVIOUS
<1>1. CASE UNCHANGED vars
  BY <1>1, StutterStep
<1>2. CASE Next
  <2>1. PICK c \in Caller :
          \/ address_space_create(c) \/ AllocPage(c)
          \/ \E s \in DOMAIN spaces \cup {0} : address_space_activate(c, s)
          \/ \E s \in DOMAIN spaces : address_space_destroy(c, s)
          \/ \E i \in Index : vmm_map_page(c, i)
          \/ \E f \in pages[c] : FreePage(c, f)
          \/ Scan(c) \/ Load(c) \/ Got(c) \/ Freed(c) \/ AllocTables(c)
    BY <1>2 DEF Next
  <2>2. CASE address_space_create(c) \/ AllocPage(c) \/ \E i \in Index : vmm_map_page(c, i)
    BY <2>2, CreateStep, AllocPageStep, MapStep
  <2>3. CASE \E s \in DOMAIN spaces \cup {0} : address_space_activate(c, s)
    BY <2>3, ActivateStep
  <2>4. CASE \E s \in DOMAIN spaces : address_space_destroy(c, s)
    BY <2>4, DestroyStep
  <2>5. CASE \E f \in pages[c] : FreePage(c, f)
    BY <2>5, FreePageStep
  <2>6. CASE Scan(c) \/ Load(c) \/ Got(c) \/ Freed(c) \/ AllocTables(c)
    BY <2>6, ScanStep, LoadStep, GotStep, FreedStep, AllocTablesStep
  <2>7. QED
    BY <2>1, <2>2, <2>3, <2>4, <2>5, <2>6
<1>3. QED
  BY <1>1, <1>2

LEMMA Invariance == ASSUME CarefulUse PROVE Spec => []IInv
<1>1. Init => IInv
  BY InitHolds
<1>2. IInv /\ [Next]_vars => IInv'
  BY NextHolds
<1>3. QED
  BY <1>1, <1>2, PTL DEF Spec

-----------------------------------------------------------------------------

(* Whoever gets a frame from pmm_alloc_frame has it alone, and it is not    *)
(* the kernel's: with no switch inside the allocator, a process to each     *)
(* thread, and usable regions that are not empty.                           *)
THEOREM FramesStayExclusive == ASSUME CarefulUse PROVE Spec => []FramesExclusive
<1>1. IInv => FramesExclusive
  <2>1. SUFFICES ASSUME IInv  PROVE FramesExclusive
    OBVIOUS
  <2>2. \A u \in Uses : u[4] \in FreeAtBoot
    BY <2>1 DEF IInv, BitmapAgrees, Used
  <2>3. KernelSpared
    BY <2>2, FreeIsSpare DEF KernelSpared
  <2>4. QED
    BY <2>1, <2>3 DEF IInv, FramesExclusive
<1>2. QED
  BY <1>1, Invariance, PTL

(* No frame is lost, and none that is in use is free in the bitmap, also    *)
(* after an address space is destroyed or its creation has failed.          *)
THEOREM NoFrameLeaks == ASSUME CarefulUse PROVE Spec => []FramesAccounted
<1>1. IInv => FramesAccounted
  BY DEF IInv, BitmapAgrees, FramesAccounted
<1>2. QED
  BY <1>1, Invariance, PTL
=============================================================================
