----------------------------- MODULE HeapProofs -----------------------------
(***************************************************************************)
(* Proofs about Heap, for any callers, sizes and requests: what callers    *)
(* hold does not overlap, and every block is found again, under CarefulUse *)
(* (no switch inside kmalloc).                                             *)
(***************************************************************************)
EXTENDS Heap, FiniteSetTheorems, WellFoundedInduction, TLAPS

-----------------------------------------------------------------------------
(* Numbers.                                                                *)

(* Every set of numbers has a least element; hence induction.              *)
LEMMA Least ==
  ASSUME NEW T \in SUBSET Nat, T # {}
  PROVE  \E n \in T : \A m \in T : n <= m
<1> DEFINE Less == OpToRel(<, Nat)
<1>1. IsWellFoundedOn(Less, Nat)
  BY NatLessThanWellFounded, Zenon
<1>2. \A m, n \in Nat : <<m, n>> \in Less <=> m < n
  BY DEF OpToRel
<1> HIDE DEF Less
<1>3. PICK n \in T : \A m \in T : <<m, n>> \notin Less
  BY <1>1, WFMin
<1>4. \A m \in T : ~ (m < n)
  BY <1>2, <1>3
<1>5. \A m \in T : n <= m
  BY <1>4
<1>6. QED
  BY <1>5

LEMMA UpTo ==
  ASSUME NEW N \in Nat, NEW S, 0 \in S,
         \A n \in 0 .. N - 1 : n \in S => n + 1 \in S
  PROVE  0 .. N \subseteq S
<1> DEFINE T == {n \in 0 .. N : n \notin S}
<1>1. SUFFICES ASSUME T # {}  PROVE FALSE
  OBVIOUS
<1>2. PICK n \in T : \A m \in T : n <= m
  <2>1. T \in SUBSET Nat
    OBVIOUS
  <2> HIDE DEF T
  <2>2. QED
    BY <1>1, <2>1, Least
<1>3. n # 0 /\ n - 1 \in 0 .. N - 1 /\ n - 1 \notin T
  BY <1>2
<1>4. QED
  BY <1>3

(* A function may be defined by what it is at 0 and how it goes on.        *)
LEMMA Iterated ==
  ASSUME NEW N \in Nat, NEW X, NEW x \in X, NEW G \in [X -> X]
  PROVE  \E f \in [0 .. N -> X] : f[0] = x /\ \A n \in 1 .. N : f[n] = G[f[n - 1]]
<1> DEFINE Goes(k, f) == f[0] = x /\ \A n \in 1 .. k : f[n] = G[f[n - 1]]
           S == {k \in Nat : \E f \in [0 .. k -> X] : Goes(k, f)}
<1>1. 0 \in S
  <2>1. [n \in 0 .. 0 |-> x] \in [0 .. 0 -> X] /\ Goes(0, [n \in 0 .. 0 |-> x])
    OBVIOUS
  <2>2. QED
    BY <2>1
<1>2. ASSUME NEW k \in 0 .. N - 1, k \in S  PROVE k + 1 \in S
  <2>1. PICK f \in [0 .. k -> X] : Goes(k, f)
    BY <1>2
  <2> DEFINE g == [n \in 0 .. k + 1 |-> IF n = k + 1 THEN G[f[k]] ELSE f[n]]
  <2>2. f[k] \in X /\ G[f[k]] \in X
    OBVIOUS
  <2>3. g \in [0 .. k + 1 -> X]
    BY <2>2
  <2>4. g[0] = x
    BY <2>1
  <2>5. ASSUME NEW n \in 1 .. k + 1  PROVE g[n] = G[g[n - 1]]
    <3>1. CASE n = k + 1
      BY <3>1
    <3>2. CASE n # k + 1
      <4>1. n \in 1 .. k /\ g[n] = f[n] /\ g[n - 1] = f[n - 1]
        BY <3>2
      <4>2. QED
        BY <4>1, <2>1
    <3>3. QED
      BY <3>1, <3>2
  <2>6. QED
    BY <2>3, <2>4, <2>5
<1>3. N \in S
  <2> HIDE DEF S
  <2>1. 0 .. N \subseteq S
    BY <1>1, <1>2, UpTo
  <2>2. QED
    BY <2>1
<1>4. QED
  BY <1>3

LEMMA DivMod ==
  ASSUME NEW a \in Nat, NEW b \in Nat \ {0}
  PROVE  a \div b \in Nat /\ a % b \in 0 .. b - 1 /\ a = b * (a \div b) + (a % b)
<1>1. a % b \in 0 .. b - 1 /\ a \div b \in Int /\ a = b * (a \div b) + (a % b)
  OBVIOUS
<1>2. a \div b >= 0
  BY <1>1
<1>3. QED
  BY <1>1, <1>2

-----------------------------------------------------------------------------
(* The chain of blocks.                                                    *)

LEMMA AfterType ==
  TypeOK => \A o \in Nat : After(o) \in Nat /\ (o \in Offset => After(o) >= o + Header)
BY HeapAssumption DEF TypeOK, After, Offset

LEMMA ReachedIs ==
  TypeOK =>
    /\ Reached \in [0 .. HeapSize -> SUBSET Nat]
    /\ Reached[0] = {0}
    /\ \A n \in 1 .. HeapSize : Reached[n] = Reached[n - 1] \cup {After(o) : o \in Reached[n - 1]}
<1> SUFFICES ASSUME TypeOK
             PROVE  /\ Reached \in [0 .. HeapSize -> SUBSET Nat]
                    /\ Reached[0] = {0}
                    /\ \A n \in 1 .. HeapSize :
                         Reached[n] = Reached[n - 1] \cup {After(o) : o \in Reached[n - 1]}
  OBVIOUS
<1> DEFINE G == [S \in SUBSET Nat |-> S \cup {After(o) : o \in S}]
           Goes(f) == f = [n \in 0 .. HeapSize |->
                            IF n = 0 THEN {0}
                            ELSE LET before == f[n - 1] IN before \cup {After(o) : o \in before}]
<1>1. G \in [SUBSET Nat -> SUBSET Nat]
  BY AfterType
<1>2. PICK f \in [0 .. HeapSize -> SUBSET Nat] :
        f[0] = {0} /\ \A n \in 1 .. HeapSize : f[n] = G[f[n - 1]]
  <2> DEFINE Sets == SUBSET Nat
             start == {0}
  <2>1. start \in Sets /\ HeapSize \in Nat /\ G \in [Sets -> Sets]
    BY <1>1, HeapAssumption
  <2> HIDE DEF G, Sets, start
  <2>2. \E f \in [0 .. HeapSize -> Sets] : f[0] = start /\ \A n \in 1 .. HeapSize : f[n] = G[f[n - 1]]
    BY <2>1, Iterated
  <2>3. QED
    BY <2>2 DEF Sets, start
<1>3. Goes(f)
  <2>1. \A n \in 1 .. HeapSize : n - 1 \in 0 .. HeapSize /\ f[n - 1] \in SUBSET Nat
    BY HeapAssumption
  <2>2. \A n \in 1 .. HeapSize : f[n] = f[n - 1] \cup {After(o) : o \in f[n - 1]}
    BY <1>2, <2>1
  <2>3. \A n \in 0 .. HeapSize : n # 0 => n \in 1 .. HeapSize
    BY HeapAssumption
  <2>4. QED
    BY <1>2, <2>2, <2>3, HeapAssumption
<1>4. Goes(Reached)
  <2>1. Reached = CHOOSE g : Goes(g)
    BY DEF Reached
  <2> HIDE DEF Goes
  <2>2. QED
    BY <1>3, <2>1
<1>5. \A n \in 1 .. HeapSize : n # 0 /\ n \in 0 .. HeapSize
  BY HeapAssumption
<1>6. Reached[0] = {0} /\ \A n \in 1 .. HeapSize :
        Reached[n] = Reached[n - 1] \cup {After(o) : o \in Reached[n - 1]}
  BY <1>4, <1>5, HeapAssumption
<1>7. Reached \in [0 .. HeapSize -> SUBSET Nat]
  <2> DEFINE S == {n \in 0 .. HeapSize : Reached[n] \in SUBSET Nat}
  <2>1. 0 \in S
    BY <1>6, HeapAssumption
  <2>2. ASSUME NEW n \in 0 .. HeapSize - 1, n \in S  PROVE n + 1 \in S
    <3>1. n + 1 \in 1 .. HeapSize /\ n + 1 - 1 = n /\ n + 1 \in 0 .. HeapSize
      BY HeapAssumption
    <3>2. Reached[n + 1] = Reached[n] \cup {After(o) : o \in Reached[n]}
      BY <3>1, <1>6
    <3>3. QED
      BY <2>2, <3>1, <3>2, AfterType
  <2>3. 0 .. HeapSize \subseteq S
    <3> HIDE DEF S
    <3>1. QED
      BY <2>1, <2>2, UpTo, HeapAssumption
  <2>4. QED
    BY <1>4, <2>3
<1>8. QED
  BY <1>6, <1>7

LEMMA ReachedGrows ==
  TypeOK => \A m, n \in 0 .. HeapSize : m <= n => Reached[m] \subseteq Reached[n]
<1> SUFFICES ASSUME TypeOK, NEW m \in 0 .. HeapSize
             PROVE  \A n \in 0 .. HeapSize : m <= n => Reached[m] \subseteq Reached[n]
  OBVIOUS
<1> DEFINE S == {n \in 0 .. HeapSize : m <= n => Reached[m] \subseteq Reached[n]}
<1>1. 0 \in S
  BY HeapAssumption
<1>2. ASSUME NEW n \in 0 .. HeapSize - 1, n \in S  PROVE n + 1 \in S
  <2>1. n + 1 \in 1 .. HeapSize /\ n + 1 - 1 = n /\ n + 1 \in 0 .. HeapSize
    BY HeapAssumption
  <2>2. Reached[n] \subseteq Reached[n + 1]
    BY <2>1, ReachedIs
  <2>3. m <= n + 1 => m <= n \/ m = n + 1
    OBVIOUS
  <2>4. QED
    BY <1>2, <2>1, <2>2, <2>3
<1>3. 0 .. HeapSize \subseteq S
  <2> HIDE DEF S
  <2>1. QED
    BY <1>1, <1>2, UpTo, HeapAssumption
<1>4. QED
  BY <1>3

(* A header behind n others is at least n headers away from the beginning. *)
LEMMA ReachedEarly ==
  TypeOK => \A n \in 0 .. HeapSize : \A o \in Reached[n] :
              o < heap_offset => \E k \in 0 .. n : k * Header <= o /\ o \in Reached[k]
<1> SUFFICES ASSUME TypeOK
             PROVE  \A n \in 0 .. HeapSize : \A o \in Reached[n] :
                      o < heap_offset => \E k \in 0 .. n : k * Header <= o /\ o \in Reached[k]
  OBVIOUS
<1> DEFINE Early(n) == \A o \in Reached[n] :
             o < heap_offset => \E k \in 0 .. n : k * Header <= o /\ o \in Reached[k]
           S == {n \in 0 .. HeapSize : Early(n)}
<1>1. 0 \in S
  <2>1. Reached[0] = {0} /\ 0 \in 0 .. 0 /\ 0 * Header <= 0 /\ 0 \in 0 .. HeapSize
    BY ReachedIs, HeapAssumption
  <2>2. QED
    BY <2>1
<1>2. ASSUME NEW n \in 0 .. HeapSize - 1, n \in S  PROVE n + 1 \in S
  <2>1. n + 1 \in 1 .. HeapSize /\ n + 1 - 1 = n /\ n + 1 \in 0 .. HeapSize /\ n \in 0 .. HeapSize
    BY HeapAssumption
  <2>2. Reached[n + 1] = Reached[n] \cup {After(o) : o \in Reached[n]} /\ Reached[n] \subseteq Nat
    BY <2>1, ReachedIs
  <2>3. \A o \in Reached[n] : o < heap_offset =>
          \E k \in 0 .. n + 1 : k * Header <= o /\ o \in Reached[k]
    BY <1>2
  <2>4. ASSUME NEW p \in Reached[n], After(p) < heap_offset
        PROVE  \E k \in 0 .. n + 1 : k * Header <= After(p) /\ After(p) \in Reached[k]
    <3>1. CASE p \notin Offset
      BY <2>3, <2>4, <3>1 DEF After
    <3>2. CASE p \in Offset
      <4>1. p \in Nat /\ After(p) >= p + Header /\ p < heap_offset /\ After(p) \in Nat
        BY <2>2, <2>4, <3>2, AfterType, HeapAssumption DEF TypeOK
      <4>2. PICK k \in 0 .. n : k * Header <= p /\ p \in Reached[k]
        BY <1>2, <4>1
      <4>3. k + 1 \in 1 .. HeapSize /\ k + 1 - 1 = k /\ k + 1 \in 0 .. n + 1
        BY HeapAssumption
      <4>4. After(p) \in Reached[k + 1]
        BY <4>2, <4>3, ReachedIs
      <4>5. (k + 1) * Header <= After(p)
        <5>1. (k + 1) * Header = k * Header + Header /\ k * Header \in Int
          BY HeapAssumption
        <5>2. QED
          BY <4>1, <4>2, <5>1, HeapAssumption
      <4>6. QED
        BY <4>3, <4>4, <4>5
    <3>3. QED
      BY <3>1, <3>2
  <2>5. Early(n + 1)
    BY <2>2, <2>3, <2>4
  <2>6. QED
    BY <2>1, <2>5
<1>3. 0 .. HeapSize \subseteq S
  <2> HIDE DEF S
  <2>1. QED
    BY <1>1, <1>2, UpTo, HeapAssumption
<1>4. QED
  BY <1>3

(* What the loop of kmalloc visits: the first block, and with a block the  *)
(* next one, and nothing else.                                             *)
VisitsBlocks ==
  /\ Visited \subseteq 0 .. heap_offset - 1
  /\ heap_offset > 0 => 0 \in Visited
  /\ \A o \in Visited : After(o) < heap_offset => After(o) \in Visited

VisitsNoMore ==
  \A S : (/\ 0 \in S
          /\ \A o \in S : o < heap_offset /\ After(o) < heap_offset => After(o) \in S)
         => Visited \subseteq S

LEMMA Limit ==
  TypeOK =>
    /\ heap_offset \div Header \in 0 .. HeapSize
    /\ heap_offset < Header * (heap_offset \div Header + 1)
<1> SUFFICES ASSUME TypeOK
             PROVE  /\ heap_offset \div Header \in 0 .. HeapSize
                    /\ heap_offset < Header * (heap_offset \div Header + 1)
  OBVIOUS
<1> DEFINE k == heap_offset \div Header
           r == heap_offset % Header
<1>1. heap_offset \in Nat /\ Header \in Nat \ {0} /\ heap_offset <= HeapSize /\ HeapSize \in Nat
  BY HeapAssumption DEF TypeOK
<1>2. k \in Nat /\ r \in 0 .. Header - 1 /\ heap_offset = Header * k + r
  BY <1>1, DivMod
<1> HIDE DEF k, r
<1>3. Header * k >= k /\ Header * k \in Nat /\ Header * (k + 1) = Header * k + Header
  BY <1>1, <1>2
<1>4. k \in 0 .. HeapSize /\ heap_offset < Header * (k + 1)
  BY <1>1, <1>2, <1>3
<1>5. QED
  BY <1>4 DEF k

LEMMA Visits == TypeOK => VisitsBlocks
<1> SUFFICES ASSUME TypeOK  PROVE VisitsBlocks
  OBVIOUS
<1> DEFINE k == heap_offset \div Header
<1>1. k \in 0 .. HeapSize /\ heap_offset < Header * (k + 1) /\ heap_offset \in 0 .. HeapSize
  BY Limit DEF TypeOK
<1> HIDE DEF k
<1>2. Visited = {o \in Reached[k] : o < heap_offset} /\ Reached[k] \subseteq Nat
  BY <1>1, ReachedIs DEF Visited, k
<1>3. 0 \in Reached[k]
  BY <1>1, ReachedIs, ReachedGrows, HeapAssumption
<1>4. ASSUME NEW o \in Visited, After(o) < heap_offset  PROVE After(o) \in Visited
  <2>1. PICK j \in 0 .. k : j * Header <= o /\ o \in Reached[j]
    BY <1>1, <1>2, ReachedEarly
  <2>2. o \in Offset /\ After(o) \in Nat /\ After(o) >= o + Header
    BY <1>1, <1>2, AfterType, HeapAssumption DEF Offset
  <2>3. (j + 1) * Header <= After(o)
    <3>1. (j + 1) * Header = j * Header + Header /\ j * Header \in Int /\ Header \in Int
      BY HeapAssumption
    <3>2. QED
      BY <2>1, <2>2, <3>1, <1>2
  <2>4. j < k
    <3>1. CASE j = k
      <4>1. (j + 1) * Header = Header * (k + 1) /\ (j + 1) * Header \in Int
        BY <3>1, HeapAssumption, <1>1
      <4>2. QED
        BY <4>1, <2>3, <1>4, <1>1, <2>2
    <3>2. QED
      BY <3>1, <1>1
  <2>5. j + 1 \in 1 .. HeapSize /\ j + 1 - 1 = j /\ j + 1 \in 0 .. HeapSize /\ j + 1 <= k
    BY <1>1, <2>4, HeapAssumption
  <2>6. After(o) \in Reached[j + 1]
    BY <2>1, <2>5, ReachedIs
  <2>7. Reached[j + 1] \subseteq Reached[k]
    BY <1>1, <2>5, ReachedGrows
  <2>8. QED
    BY <1>2, <1>4, <2>6, <2>7
<1>5. QED
  BY <1>1, <1>2, <1>3, <1>4 DEF VisitsBlocks

LEMMA VisitsOnly == TypeOK => VisitsNoMore
<1> SUFFICES ASSUME TypeOK, NEW S, 0 \in S,
                    \A o \in S : o < heap_offset /\ After(o) < heap_offset => After(o) \in S
             PROVE  Visited \subseteq S
  BY DEF VisitsNoMore
<1> DEFINE R == {n \in 0 .. HeapSize : \A o \in Reached[n] : o < heap_offset => o \in S}
<1>1. 0 \in R
  BY ReachedIs, HeapAssumption
<1>2. ASSUME NEW n \in 0 .. HeapSize - 1, n \in R  PROVE n + 1 \in R
  <2>1. n + 1 \in 1 .. HeapSize /\ n + 1 - 1 = n /\ n + 1 \in 0 .. HeapSize /\ n \in 0 .. HeapSize
    BY HeapAssumption
  <2>2. Reached[n + 1] = Reached[n] \cup {After(o) : o \in Reached[n]} /\ Reached[n] \subseteq Nat
    BY <2>1, ReachedIs
  <2>3. ASSUME NEW p \in Reached[n], After(p) < heap_offset  PROVE After(p) \in S
    <3>1. CASE p \notin Offset
      BY <1>2, <2>3, <3>1 DEF After
    <3>2. CASE p \in Offset
      <4>1. p < heap_offset
        BY <2>2, <2>3, <3>2, AfterType, HeapAssumption DEF TypeOK
      <4>2. QED
        BY <1>2, <2>3, <4>1
    <3>3. QED
      BY <3>1, <3>2
  <2>4. QED
    BY <1>2, <2>1, <2>2, <2>3
<1>3. 0 .. HeapSize \subseteq R
  <2> HIDE DEF R
  <2>1. QED
    BY <1>1, <1>2, UpTo, HeapAssumption
<1>4. QED
  BY <1>3, Limit DEF Visited

-----------------------------------------------------------------------------
(* What a step makes of the chain.                                         *)

LEMMA VisitsLater ==
  TypeOK' => VisitsBlocks' /\ VisitsNoMore' /\ \A o \in Nat : After(o)' \in Nat
<1>1. TypeOK' => VisitsBlocks' /\ VisitsNoMore'
  BY Visits, VisitsOnly, PTL
<1>2. TypeOK' => \A o \in Nat : After(o)' \in Nat
  BY HeapAssumption DEF TypeOK, After, Offset
<1>3. QED
  BY <1>1, <1>2

(* Marking a block does not change the chain.                              *)
LEMMA SameChain ==
  ASSUME TypeOK, TypeOK', heap_offset' = heap_offset,
         \A o \in Offset : header'[o].size = header[o].size
  PROVE  Visited' = Visited /\ \A o \in Visited : After(o)' = After(o)
<1>1. \A o : After(o)' = After(o)
  BY DEF After
<1>2. VisitsBlocks /\ VisitsNoMore /\ VisitsBlocks' /\ VisitsNoMore'
  BY Visits, VisitsOnly, VisitsLater
<1>3. CASE heap_offset > 0
  <2>1. 0 \in Visited /\ \A o \in Visited : After(o) < heap_offset => After(o) \in Visited
    BY <1>2, <1>3 DEF VisitsBlocks
  <2>2. 0 \in Visited' /\ \A o \in Visited' : After(o) < heap_offset => After(o) \in Visited'
    BY <1>1, <1>2, <1>3 DEF VisitsBlocks
  <2>3. \A S : (/\ 0 \in S
                /\ \A o \in S : o < heap_offset /\ After(o) < heap_offset => After(o) \in S)
               => Visited \subseteq S
    BY <1>2 DEF VisitsNoMore
  <2>4. \A S : (/\ 0 \in S
                /\ \A o \in S : o < heap_offset /\ After(o) < heap_offset => After(o) \in S)
               => Visited' \subseteq S
    BY <1>1, <1>2 DEF VisitsNoMore
  <2>5. Visited \subseteq Visited'
    BY <2>2, <2>3
  <2>6. Visited' \subseteq Visited
    BY <2>1, <2>4
  <2>7. QED
    BY <1>1, <2>5, <2>6
<1>4. CASE ~ heap_offset > 0
  <2>1. 0 .. heap_offset - 1 = {}
    BY <1>4 DEF TypeOK
  <2>2. Visited = {} /\ Visited' = {}
    BY <1>2, <2>1 DEF VisitsBlocks
  <2>3. QED
    BY <2>2
<1>5. QED
  BY <1>3, <1>4

(* The last block ends where the heap in use ends.                         *)
LEMMA LastBlock ==
  TypeOK /\ Chained /\ heap_offset > 0 => \E o \in Visited : After(o) = heap_offset
<1> SUFFICES ASSUME TypeOK, Chained, heap_offset > 0
             PROVE  \E o \in Visited : After(o) = heap_offset
  OBVIOUS
<1> DEFINE T == {heap_offset - o : o \in Visited}
<1>1. /\ Visited \subseteq 0 .. heap_offset - 1 /\ 0 \in Visited
      /\ \A o \in Visited : After(o) < heap_offset => After(o) \in Visited
  BY Visits DEF VisitsBlocks
<1>2. heap_offset \in Nat /\ heap_offset <= HeapSize /\ HeapSize \in Nat /\ Header \in Nat \ {0}
  BY HeapAssumption DEF TypeOK
<1>3. PICK n \in T : \A m \in T : n <= m
  <2>1. T \in SUBSET Nat /\ T # {}
    BY <1>1, <1>2
  <2> HIDE DEF T
  <2>2. QED
    BY <2>1, Least
<1>4. PICK o \in Visited : n = heap_offset - o
  BY <1>3
<1>5. ASSUME NEW p \in Visited  PROVE p <= o
  <2>1. n <= heap_offset - p
    BY <1>3
  <2>2. p \in Nat /\ o \in Nat
    BY <1>1, <1>2
  <2>3. QED
    BY <2>1, <2>2, <1>2, <1>4
<1>6. o \in Offset /\ o \in Nat
  BY <1>1, <1>2 DEF Offset
<1>7. After(o) \in Nat /\ After(o) >= o + Header /\ After(o) <= heap_offset
  BY <1>6, AfterType DEF Chained
<1>8. After(o) \notin Visited
  BY <1>2, <1>5, <1>6, <1>7
<1>9. QED
  BY <1>1, <1>2, <1>7, <1>8

(* A new block goes to the end of the chain.                               *)
LEMMA LongerChain ==
  ASSUME TypeOK, TypeOK', Chained,
         NEW CONSTANT h \in Offset, h = heap_offset,
         NEW CONSTANT size \in Nat,
         header' = [header EXCEPT ![h] = [size |-> size, free |-> FALSE]],
         heap_offset' = h + Header + size
  PROVE  /\ Visited' = Visited \cup {h}
         /\ \A o \in Visited : After(o)' = After(o)
         /\ After(h)' = heap_offset'
         /\ \A o \in Visited : o < h
<1>1. h \in Nat /\ heap_offset' \in Nat /\ h < heap_offset' /\ Header \in Nat \ {0} /\ HeapSize \in Nat
  BY HeapAssumption DEF TypeOK
<1>2. After(h)' = heap_offset'
  BY DEF TypeOK, After
<1>3. \A o : o # h => After(o)' = After(o)
  BY DEF TypeOK, After
<1>4. VisitsBlocks /\ VisitsNoMore /\ VisitsBlocks' /\ VisitsNoMore'
  BY Visits, VisitsOnly, VisitsLater
<1>5. \A o \in Visited : o \in Nat /\ o < h /\ After(o)' = After(o)
  BY <1>1, <1>3, <1>4 DEF VisitsBlocks
<1>6. Visited' \subseteq Visited \cup {h}
  <2>1. 0 \in Visited \cup {h}
    BY <1>1, <1>4 DEF VisitsBlocks
  <2>2. ASSUME NEW o \in Visited \cup {h}, o < heap_offset', After(o)' < heap_offset'
        PROVE  After(o)' \in Visited \cup {h}
    <3>1. o \in Visited
      BY <1>1, <1>2, <2>2
    <3>2. After(o)' = After(o) /\ After(o) <= h /\ After(o) \in Nat
      BY <1>5, <3>1, AfterType DEF Chained
    <3>3. After(o) < h => After(o) \in Visited
      BY <1>4, <3>1 DEF VisitsBlocks
    <3>4. QED
      BY <1>1, <3>2, <3>3
  <2>3. \A S : (/\ 0 \in S
                /\ \A o \in S : o < heap_offset' /\ After(o)' < heap_offset' => After(o)' \in S)
               => Visited' \subseteq S
    BY <1>4 DEF VisitsNoMore
  <2>4. QED
    BY <2>1, <2>2, <2>3
<1>7. /\ 0 \in Visited'
      /\ \A o \in Visited' : o \in Nat /\ (After(o)' < heap_offset' => After(o)' \in Visited')
  BY <1>1, <1>4 DEF VisitsBlocks
<1>8. Visited \subseteq Visited'
  <2>1. ASSUME NEW o \in Visited', o < h, After(o) < h  PROVE After(o) \in Visited'
    <3>1. o # h /\ o \in Nat
      BY <1>1, <1>7, <2>1
    <3>2. After(o)' = After(o) /\ After(o) \in Nat
      BY <1>3, <3>1, AfterType
    <3>3. After(o)' < heap_offset'
      BY <1>1, <2>1, <3>2
    <3>4. QED
      BY <1>7, <3>2, <3>3
  <2>2. \A S : (/\ 0 \in S
                /\ \A o \in S : o < heap_offset /\ After(o) < heap_offset => After(o) \in S)
               => Visited \subseteq S
    BY <1>4 DEF VisitsNoMore
  <2>3. QED
    BY <1>7, <2>1, <2>2
<1>9. h \in Visited'
  <2>1. CASE h = 0
    BY <1>7, <2>1
  <2>2. CASE h # 0
    <3>1. PICK o \in Visited : After(o) = h
      BY <1>1, <2>2, LastBlock
    <3>2. o \in Visited' /\ After(o)' = h
      BY <1>5, <1>8, <3>1
    <3>3. QED
      BY <1>1, <1>7, <3>2
  <2>3. QED
    BY <2>1, <2>2
<1>10. QED
  BY <1>2, <1>5, <1>6, <1>8, <1>9

LEMMA RequestType == Request \subseteq Nat
BY HeapAssumption

(* The size of a block is not below what was asked for.                    *)
LEMMA RoundedType ==
  ASSUME NEW n \in Nat
  PROVE  Rounded(n) \in Nat /\ Rounded(n) >= n
<1> DEFINE a == n + Align - 1
           q == a \div Align
           r == a % Align
<1>1. a \in Nat /\ Align \in Nat \ {0}
  BY HeapAssumption
<1>2. q \in Nat /\ r \in 0 .. Align - 1 /\ a = Align * q + r
  <2> HIDE DEF a
  <2>1. QED
    BY <1>1, DivMod
<1> HIDE DEF q, r
<1>3. Align * q \in Nat /\ Align * q >= n
  BY <1>1, <1>2
<1>4. Rounded(n) = q * Align /\ q * Align = Align * q
  BY <1>1, <1>2 DEF Rounded, q
<1>5. QED
  BY <1>3, <1>4

-----------------------------------------------------------------------------
(* The steps.                                                              *)

LEMMA InitHolds == Init => IInv
<1> SUFFICES ASSUME Init  PROVE IInv
  OBVIOUS
<1>1. TypeOK
  BY HeapAssumption DEF Init, TypeOK, Idle
<1>2. Visited = {}
  <2>1. Visited \subseteq 0 .. heap_offset - 1
    BY <1>1, Visits DEF VisitsBlocks
  <2>2. 0 .. heap_offset - 1 = {}
    BY DEF Init
  <2>3. QED
    BY <2>1, <2>2
<1>3. Chained /\ HeldAgree /\ CallsAgree
  BY <1>2 DEF Init, Chained, HeldAgree, CallsAgree, Idle
<1>4. QED
  BY <1>1, <1>3 DEF IInv

(* Nobody else is inside kmalloc.                                          *)
LEMMA Alone ==
  ASSUME TypeOK, CarefulUse, NEW c \in Caller, MayRun(c)
  PROVE  \A d \in Caller \ {c} : call[d] = Idle
<1>1. ASSUME NEW d \in Caller \ {c}  PROVE call[d] = Idle
  <2>1. call[d].pc = "idle"
    BY DEF MayRun, CarefulUse
  <2>2. call[d] \in [pc : {"idle"}]
                      \cup [pc : {"take", "grow"}, asked : Request, at : 0 .. HeapSize]
    BY DEF TypeOK
  <2>3. call[d] \in [pc : {"idle"}]
    BY <2>1, <2>2
  <2>4. QED
    BY <2>3 DEF Idle
<1>2. QED
  BY <1>1

LEMMA AgreesWhenIdle ==
  ASSUME NEW c \in Caller, \A d \in Caller \ {c} : call[d] = Idle, TypeOK,
         call' = [call EXCEPT ![c] = Idle]
  PROVE  CallsAgree'
<1>1. \A d \in Caller : call'[d].pc = "idle"
  BY DEF TypeOK, Idle
<1>2. QED
  BY <1>1 DEF CallsAgree

(* Who only looks at the heap, or finds no room, changes nothing in it.    *)
LEMMA SameHeap ==
  ASSUME IInv, TypeOK', UNCHANGED <<header, heap_offset, held>>
  PROVE  /\ Chained' /\ HeldAgree'
         /\ Visited' = Visited
<1>1. Visited' = Visited /\ \A o \in Visited : After(o)' = After(o)
  BY SameChain DEF IInv
<1>2. Chained'
  <2>1. \A o \in Visited' : /\ After(o)' <= heap_offset'
                            /\ \A p \in Visited' : o < p => After(o)' <= p
    BY <1>1 DEF IInv, Chained
  <2>2. QED
    BY <2>1 DEF Chained
<1>3. HeldAgree'
  BY <1>1 DEF IInv, HeldAgree
<1>4. QED
  BY <1>1, <1>2, <1>3

LEMMA MallocStep ==
  ASSUME IInv, CarefulUse, NEW c \in Caller, NEW n \in Request, Malloc(c, n)
  PROVE  IInv'
<1> DEFINE fit == Fitting(Rounded(n))
           next == IF fit # {}
                     THEN [pc |-> "take", asked |-> n,
                           at |-> CHOOSE o \in fit : \A p \in fit : o <= p]
                     ELSE [pc |-> "grow", asked |-> n, at |-> heap_offset]
<1>1. TypeOK /\ MayRun(c) /\ UNCHANGED <<header, heap_offset, held>>
  BY DEF IInv, Malloc
<1>2. call' = [call EXCEPT ![c] = next]
  BY DEF Malloc
<1>3. Visited \subseteq Offset /\ Visited \subseteq Nat
  <2>1. Visited \subseteq 0 .. heap_offset - 1
    BY <1>1, Visits DEF VisitsBlocks
  <2>2. QED
    BY <1>1, <2>1, HeapAssumption DEF TypeOK, Offset
<1>4. ASSUME fit # {}
      PROVE  /\ next.pc = "take" /\ next.asked = n /\ next.at \in Visited
             /\ header[next.at].free /\ header[next.at].size >= n
             /\ next \in [pc : {"take", "grow"}, asked : Request, at : 0 .. HeapSize]
  <2> DEFINE o == CHOOSE o \in fit : \A p \in fit : o <= p
  <2>1. fit \in SUBSET Nat
    BY <1>3 DEF Fitting
  <2>2. \E q \in fit : \A p \in fit : q <= p
    <3> HIDE DEF fit
    <3>1. QED
      BY <1>4, <2>1, Least
  <2>3. o \in fit
    <3> HIDE DEF fit
    <3>1. QED
      BY <2>2
  <2>4. next = [pc |-> "take", asked |-> n, at |-> o]
    BY <1>4
  <2> HIDE DEF o, next
  <2>5. o \in Visited /\ header[o].free /\ header[o].size >= Rounded(n) /\ o \in Offset
    BY <2>3, <1>3 DEF Fitting
  <2>6. Rounded(n) \in Nat /\ Rounded(n) >= n /\ n \in Nat
    BY RoundedType, HeapAssumption
  <2>7. header[o].size \in Nat /\ o \in 0 .. HeapSize
    BY <1>1, <2>5, HeapAssumption DEF TypeOK, Offset
  <2>8. QED
    BY <2>4, <2>5, <2>6, <2>7
<1>5. ASSUME fit = {}
      PROVE  /\ next.pc = "grow" /\ next.asked = n /\ next.at = heap_offset
             /\ next \in [pc : {"take", "grow"}, asked : Request, at : 0 .. HeapSize]
  BY <1>1, <1>5 DEF TypeOK
<1> HIDE DEF fit, next
<1>6. TypeOK'
  <2>1. next \in [pc : {"take", "grow"}, asked : Request, at : 0 .. HeapSize]
    BY <1>4, <1>5
  <2>2. QED
    BY <1>1, <1>2, <2>1 DEF TypeOK
<1>7. Chained' /\ HeldAgree' /\ Visited' = Visited
  BY <1>1, <1>6, SameHeap
<1>8. CallsAgree'
  <2>1. \A d \in Caller \ {c} : call[d] = Idle /\ call'[d] = Idle
    BY <1>1, <1>2, Alone DEF TypeOK
  <2>2. call'[c] = next
    BY <1>1, <1>2 DEF TypeOK
  <2>3. \A d \in Caller : call'[d].pc # "idle" => d = c
    BY <2>1 DEF Idle
  <2>4. next.pc = "grow" =>
          /\ next.at = heap_offset'
          /\ {o \in Visited' : header'[o].free /\ header'[o].size >= Rounded(next.asked)} = {}
    <3>1. next.pc = "grow" => next.at = heap_offset' /\ fit = {} /\ next.asked = n
      BY <1>1, <1>4, <1>5
    <3>2. fit = {o \in Visited' : header'[o].free /\ header'[o].size >= Rounded(n)}
      BY <1>1, <1>7 DEF Fitting, fit
    <3>3. QED
      BY <3>1, <3>2
  <2>5. next.pc = "take" => /\ next.at \in Visited' /\ header'[next.at].free
                            /\ header'[next.at].size >= next.asked
    BY <1>1, <1>4, <1>5, <1>7
  <2>6. QED
    BY <2>1, <2>2, <2>3, <2>4, <2>5 DEF CallsAgree, Fitting, Rounded
<1>9. QED
  BY <1>6, <1>7, <1>8 DEF IInv

(* A block is marked: the chain stays as it is.                            *)
LEMMA Marked ==
  ASSUME IInv, NEW CONSTANT o \in Visited, NEW CONSTANT free \in BOOLEAN,
         header' = [header EXCEPT ![o].free = free], heap_offset' = heap_offset,
         held' \in [Caller -> SUBSET [at : Offset, size : Request]],
         NEW c \in Caller, call' = [call EXCEPT ![c] = Idle]
  PROVE  /\ TypeOK' /\ Chained'
         /\ Visited' = Visited /\ o \in Offset
         /\ header'[o].free = free
         /\ \A p \in Visited : /\ header'[p].size = header[p].size
                               /\ p # o => header'[p].free = header[p].free
<1>1. TypeOK
  BY DEF IInv
<1>2. Visited \subseteq Offset
  <2>1. Visited \subseteq 0 .. heap_offset - 1
    BY <1>1, Visits DEF VisitsBlocks
  <2>2. QED
    BY <1>1, <2>1, HeapAssumption DEF TypeOK, Offset
<1>3. /\ header' \in [Offset -> [size : Nat, free : BOOLEAN]]
      /\ header'[o].free = free
      /\ \A p \in Offset : /\ header'[p].size = header[p].size
                           /\ p # o => header'[p].free = header[p].free
  BY <1>1, <1>2 DEF TypeOK
<1>4. TypeOK'
  BY <1>1, <1>3 DEF TypeOK, Idle
<1>5. Visited' = Visited /\ \A p \in Visited : After(p)' = After(p)
  BY <1>1, <1>3, <1>4, SameChain
<1>6. \A p \in Visited' : /\ After(p)' <= heap_offset'
                          /\ \A q \in Visited' : p < q => After(p)' <= q
  BY <1>5 DEF IInv, Chained
<1>7. Chained'
  BY <1>6 DEF Chained
<1>8. QED
  BY <1>2, <1>3, <1>4, <1>5, <1>7

LEMMA TakeStep ==
  ASSUME IInv, CarefulUse, NEW c \in Caller, Take(c)
  PROVE  IInv'
<1> PICK o \in {call[c].at} : TRUE
  OBVIOUS
<1> PICK n \in {call[c].asked} : TRUE
  OBVIOUS
<1> DEFINE new == [at |-> o, size |-> n]
<1>1. TypeOK /\ MayRun(c) /\ call[c].pc = "take"
  BY DEF IInv, Take
<1>2. /\ header' = [header EXCEPT ![o].free = FALSE] /\ heap_offset' = heap_offset
      /\ held' = [held EXCEPT ![c] = @ \cup {new}]
      /\ call' = [call EXCEPT ![c] = Idle]
  BY DEF Take, Got
<1>3. o \in Visited /\ header[o].free /\ header[o].size >= n
  BY <1>1 DEF IInv, CallsAgree
<1>4. n \in Request
  <2>1. call[c] \in [pc : {"idle"}]
                      \cup [pc : {"take", "grow"}, asked : Request, at : 0 .. HeapSize]
    BY <1>1 DEF TypeOK
  <2>2. call[c] \in [pc : {"take", "grow"}, asked : Request, at : 0 .. HeapSize]
    BY <1>1, <2>1
  <2>3. QED
    BY <2>2
<1>5. o \in Offset
  <2>1. Visited \subseteq 0 .. heap_offset - 1
    BY <1>1, Visits DEF VisitsBlocks
  <2>2. QED
    BY <1>1, <1>3, <2>1, HeapAssumption DEF TypeOK, Offset
<1>6. new \in [at : Offset, size : Request] /\ new.at = o /\ new.size = n
  BY <1>4, <1>5
<1> HIDE DEF new
<1>7. /\ held' \in [Caller -> SUBSET [at : Offset, size : Request]]
      /\ held'[c] = held[c] \cup {new}
      /\ \A d \in Caller : d # c => held'[d] = held[d]
  BY <1>1, <1>2, <1>6 DEF TypeOK
<1>8. /\ TypeOK' /\ Chained' /\ Visited' = Visited /\ header'[o].free = FALSE
      /\ \A p \in Visited : /\ header'[p].size = header[p].size
                            /\ p # o => header'[p].free = header[p].free
  BY <1>2, <1>3, <1>7, Marked
<1>9. \A d \in Caller : \A b \in held[d] : b.at # o /\ b.at \in Visited
  BY <1>3 DEF IInv, HeldAgree
<1>10. HeldAgree'
  <2>1. ASSUME NEW d \in Caller, NEW b \in held'[d]
        PROVE  b.at \in Visited' /\ ~ header'[b.at].free /\ header'[b.at].size >= b.size
    <3>1. CASE b \in held[d]
      BY <1>8, <1>9, <3>1 DEF IInv, HeldAgree
    <3>2. CASE b \notin held[d]
      <4>1. b = new
        BY <1>7, <3>2
      <4>2. QED
        BY <1>3, <1>6, <1>8, <4>1
    <3>3. QED
      BY <3>1, <3>2
  <2>2. ASSUME NEW p \in Visited', ~ header'[p].free
        PROVE  \E d \in Caller : \E b \in held'[d] : b.at = p
    <3>1. CASE p = o
      BY <1>6, <1>7, <3>1
    <3>2. CASE p # o
      <4>1. PICK d \in Caller : \E b \in held[d] : b.at = p
        BY <1>8, <2>2, <3>2 DEF IInv, HeldAgree
      <4>2. held[d] \subseteq held'[d]
        BY <1>7
      <4>3. QED
        BY <4>1, <4>2
    <3>3. QED
      BY <3>1, <3>2
  <2>3. ASSUME NEW d \in Caller, NEW e \in Caller, NEW a \in held'[d], NEW b \in held'[e],
               a.at = b.at
        PROVE  a = b /\ d = e
    <3>1. /\ a \in held[d] \/ (d = c /\ a = new)
          /\ b \in held[e] \/ (e = c /\ b = new)
      BY <1>7
    <3>2. QED
      BY <1>6, <1>9, <2>3, <3>1 DEF IInv, HeldAgree
  <2>4. QED
    BY <2>1, <2>2, <2>3 DEF HeldAgree
<1>11. CallsAgree'
  BY <1>1, <1>2, Alone, AgreesWhenIdle
<1>12. QED
  BY <1>8, <1>10, <1>11 DEF IInv

LEMMA FreeStep ==
  ASSUME IInv, CarefulUse, NEW c \in Caller, NEW b \in held[c], kfree(c, b)
  PROVE  IInv'
<1> PICK o \in {b.at} : TRUE
  OBVIOUS
<1>1. TypeOK /\ MayRun(c) /\ call[c] = Idle
  BY DEF IInv, kfree
<1>2. /\ header' = [header EXCEPT ![o].free = TRUE] /\ heap_offset' = heap_offset
      /\ held' = [held EXCEPT ![c] = @ \ {b}]
      /\ call' = call
  BY DEF kfree
<1>3. call' = [call EXCEPT ![c] = Idle]
  BY <1>1, <1>2 DEF TypeOK
<1>4. o \in Visited
  BY DEF IInv, HeldAgree
<1>5. /\ held' \in [Caller -> SUBSET [at : Offset, size : Request]]
      /\ held'[c] = held[c] \ {b}
      /\ \A d \in Caller : d # c => held'[d] = held[d]
  BY <1>1, <1>2 DEF TypeOK
<1>6. /\ TypeOK' /\ Chained' /\ Visited' = Visited /\ header'[o].free = TRUE
      /\ \A p \in Visited : /\ header'[p].size = header[p].size
                            /\ p # o => header'[p].free = header[p].free
  BY <1>2, <1>3, <1>4, <1>5, Marked
<1>7. \A d \in Caller : \A a \in held'[d] : a \in held[d] /\ a.at # o /\ a.at \in Visited
  BY <1>5 DEF IInv, HeldAgree
<1>8. HeldAgree'
  <2>1. ASSUME NEW d \in Caller, NEW a \in held'[d]
        PROVE  a.at \in Visited' /\ ~ header'[a.at].free /\ header'[a.at].size >= a.size
    BY <1>6, <1>7 DEF IInv, HeldAgree
  <2>2. ASSUME NEW p \in Visited', ~ header'[p].free
        PROVE  \E d \in Caller : \E a \in held'[d] : a.at = p
    <3>1. p # o
      BY <1>6, <2>2
    <3>2. PICK d \in Caller : \E a \in held[d] : a.at = p
      BY <1>6, <2>2, <3>1 DEF IInv, HeldAgree
    <3>3. PICK a \in held[d] : a.at = p
      BY <3>2
    <3>4. a \in held'[d]
      BY <1>5, <3>1, <3>3
    <3>5. QED
      BY <3>3, <3>4
  <2>3. ASSUME NEW d \in Caller, NEW e \in Caller, NEW x \in held'[d], NEW y \in held'[e],
               x.at = y.at
        PROVE  x = y /\ d = e
    BY <1>7, <2>3 DEF IInv, HeldAgree
  <2>4. QED
    BY <2>1, <2>2, <2>3 DEF HeldAgree
<1>9. CallsAgree'
  BY <1>1, <1>3, Alone, AgreesWhenIdle
<1>10. QED
  BY <1>6, <1>8, <1>9 DEF IInv

(* The new block is behind all others, and held by nobody before.          *)
LEMMA GrowStep ==
  ASSUME IInv, CarefulUse, NEW c \in Caller, Grow(c)
  PROVE  IInv'
<1> PICK h \in {heap_offset} : TRUE
  OBVIOUS
<1> PICK n \in {call[c].asked} : TRUE
  OBVIOUS
<1> DEFINE size == Rounded(n)
           new == [at |-> h, size |-> n]
<1>1. TypeOK /\ MayRun(c) /\ call[c].pc = "grow"
  BY DEF IInv, Grow
<1>2. call[c].at = h
  BY <1>1 DEF IInv, CallsAgree
<1>3. n \in Request /\ size \in Nat /\ size >= n
  <2>1. call[c] \in [pc : {"idle"}]
                      \cup [pc : {"take", "grow"}, asked : Request, at : 0 .. HeapSize]
    BY <1>1 DEF TypeOK
  <2>2. call[c] \in [pc : {"take", "grow"}, asked : Request, at : 0 .. HeapSize]
    BY <1>1, <2>1
  <2>3. n \in Request
    BY <2>2
  <2>4. QED
    BY <2>3, RequestType, RoundedType
<1>4. call' = [call EXCEPT ![c] = Idle]
  BY DEF Grow, Got
<1>5. CallsAgree'
  BY <1>1, <1>4, Alone, AgreesWhenIdle
<1>6. CASE h + Header + size > HeapSize
  <2>1. UNCHANGED <<header, heap_offset, held>>
    BY <1>2, <1>6 DEF Grow
  <2>2. TypeOK'
    BY <1>1, <1>4, <2>1 DEF TypeOK, Idle
  <2>3. QED
    BY <1>5, <2>1, <2>2, SameHeap DEF IInv
<1>7. CASE ~ h + Header + size > HeapSize
  <2>1. /\ header' = [header EXCEPT ![h] = [size |-> size, free |-> FALSE]]
        /\ heap_offset' = h + Header + size
        /\ held' = [held EXCEPT ![c] = @ \cup {new}]
    BY <1>2, <1>7 DEF Grow, Got
  <2> HIDE DEF size
  <2>2. h \in Offset /\ h \in Nat /\ heap_offset' \in 0 .. HeapSize /\ h + Header + size \in Nat
    BY <1>1, <1>3, <1>7, <2>1, HeapAssumption DEF TypeOK, Offset
  <2>3. new \in [at : Offset, size : Request] /\ new.at = h /\ new.size = n
    BY <1>3, <2>2
  <2> HIDE DEF new
  <2>4. /\ held' \in [Caller -> SUBSET [at : Offset, size : Request]]
        /\ held'[c] = held[c] \cup {new}
        /\ \A d \in Caller : d # c => held'[d] = held[d]
    BY <1>1, <2>1, <2>3 DEF TypeOK
  <2>5. /\ header' \in [Offset -> [size : Nat, free : BOOLEAN]]
        /\ header'[h] = [size |-> size, free |-> FALSE]
        /\ \A p \in Offset : p # h => header'[p] = header[p]
    BY <1>1, <1>3, <2>1, <2>2 DEF TypeOK
  <2>6. TypeOK'
    BY <1>1, <1>4, <2>2, <2>4, <2>5 DEF TypeOK, Idle
  <2>7. /\ Visited' = Visited \cup {h}
        /\ \A o \in Visited : After(o)' = After(o)
        /\ After(h)' = heap_offset'
        /\ \A o \in Visited : o < h
    BY <1>1, <1>3, <2>1, <2>2, <2>6, LongerChain DEF IInv
  <2>8. Visited \subseteq Offset /\ Visited \subseteq Nat
    <3>1. Visited \subseteq 0 .. heap_offset - 1
      BY <1>1, Visits DEF VisitsBlocks
    <3>2. QED
      BY <1>1, <3>1, HeapAssumption DEF TypeOK, Offset
  <2>9. \A p \in Visited : p # h /\ header'[p] = header[p]
    BY <2>2, <2>5, <2>7, <2>8
  <2>10. Chained'
    <3>1. \A o \in Visited : After(o) \in Nat /\ After(o) <= h
      BY <1>1, <2>8, AfterType DEF IInv, Chained
    <3>2. h < heap_offset'
      BY <1>3, <2>1, <2>2, HeapAssumption
    <3>3. ASSUME NEW o \in Visited'
          PROVE  After(o)' <= heap_offset' /\ \A p \in Visited' : o < p => After(o)' <= p
      <4>1. CASE o \in Visited
        <5>1. After(o)' = After(o) /\ After(o) \in Nat /\ After(o) <= h
          BY <2>7, <3>1, <4>1
        <5>2. After(o)' <= heap_offset'
          BY <2>2, <3>2, <5>1
        <5>3. ASSUME NEW p \in Visited', o < p  PROVE After(o)' <= p
          <6>1. p \in Visited \/ p = h
            BY <2>7
          <6>2. QED
            BY <4>1, <5>1, <5>3, <6>1 DEF IInv, Chained
        <5>4. QED
          BY <5>2, <5>3
      <4>2. CASE o = h
        <5>1. After(o)' = heap_offset'
          BY <2>7, <4>2
        <5>2. \A p \in Visited' : p \in Nat /\ p <= h
          BY <2>2, <2>7, <2>8
        <5>3. \A p \in Visited' : ~ o < p
          BY <2>2, <4>2, <5>2
        <5>4. QED
          BY <2>2, <5>1, <5>3
      <4>3. QED
        BY <2>7, <4>1, <4>2
    <3>4. QED
      BY <3>3 DEF Chained
  <2>11. \A d \in Caller : \A b \in held[d] : b.at # h /\ b.at \in Visited
    BY <2>9 DEF IInv, HeldAgree
  <2>12. HeldAgree'
    <3>1. ASSUME NEW d \in Caller, NEW b \in held'[d]
          PROVE  b.at \in Visited' /\ ~ header'[b.at].free /\ header'[b.at].size >= b.size
      <4>1. CASE b \in held[d]
        BY <2>7, <2>9, <2>11, <4>1 DEF IInv, HeldAgree
      <4>2. CASE b \notin held[d]
        <5>1. b = new
          BY <2>4, <4>2
        <5>2. QED
          BY <1>3, <2>3, <2>5, <2>7, <5>1
      <4>3. QED
        BY <4>1, <4>2
    <3>2. ASSUME NEW p \in Visited', ~ header'[p].free
          PROVE  \E d \in Caller : \E b \in held'[d] : b.at = p
      <4>1. CASE p = h
        BY <2>3, <2>4, <4>1
      <4>2. CASE p # h
        <5>1. PICK d \in Caller : \E b \in held[d] : b.at = p
          BY <2>7, <2>9, <3>2, <4>2 DEF IInv, HeldAgree
        <5>2. held[d] \subseteq held'[d]
          BY <2>4
        <5>3. QED
          BY <5>1, <5>2
      <4>3. QED
        BY <4>1, <4>2
    <3>3. ASSUME NEW d \in Caller, NEW e \in Caller, NEW a \in held'[d], NEW b \in held'[e],
                 a.at = b.at
          PROVE  a = b /\ d = e
      <4>1. /\ a \in held[d] \/ (d = c /\ a = new)
            /\ b \in held[e] \/ (e = c /\ b = new)
        BY <2>4
      <4>2. QED
        BY <2>3, <2>11, <3>3, <4>1 DEF IInv, HeldAgree
    <3>4. QED
      BY <3>1, <3>2, <3>3 DEF HeldAgree
  <2>13. QED
    BY <1>5, <2>6, <2>10, <2>12 DEF IInv
<1>8. QED
  BY <1>6, <1>7

LEMMA StutterStep ==
  ASSUME IInv, UNCHANGED vars
  PROVE  IInv'
<1>1. TypeOK' /\ CallsAgree' /\ UNCHANGED <<header, heap_offset, held>>
  <2>1. UNCHANGED <<header, heap_offset, held, call>>
    BY DEF vars
  <2>2. TypeOK'
    BY <2>1 DEF IInv, TypeOK
  <2>3. Visited' = Visited
    BY <2>1, <2>2, SameHeap
  <2>4. CallsAgree'
    BY <2>1, <2>3 DEF IInv, CallsAgree, Fitting, Rounded
  <2>5. QED
    BY <2>1, <2>2, <2>4
<1>2. QED
  BY <1>1, SameHeap DEF IInv

LEMMA Invariance ==
  ASSUME CarefulUse
  PROVE  Spec => []IInv
<1>1. IInv /\ [Next]_vars => IInv'
  <2> SUFFICES ASSUME IInv, [Next]_vars  PROVE IInv'
    OBVIOUS
  <2>1. ASSUME NEW c \in Caller, NEW n \in Request, Malloc(c, n)  PROVE IInv'
    BY <2>1, MallocStep
  <2>2. ASSUME NEW c \in Caller, Take(c)  PROVE IInv'
    BY <2>2, TakeStep
  <2>3. ASSUME NEW c \in Caller, Grow(c)  PROVE IInv'
    BY <2>3, GrowStep
  <2>4. ASSUME NEW c \in Caller, NEW b \in held[c], kfree(c, b)  PROVE IInv'
    BY <2>4, FreeStep
  <2>5. CASE UNCHANGED vars
    BY <2>5, StutterStep
  <2>6. QED
    BY <2>1, <2>2, <2>3, <2>4, <2>5 DEF Next
<1>2. QED
  BY <1>1, InitHolds, PTL DEF Spec

-----------------------------------------------------------------------------

(* Two of the blocks that the chain goes through do not overlap.           *)
LEMMA Apart ==
  ASSUME IInv, NEW c \in Caller, NEW d \in Caller, NEW a \in held[c], NEW b \in held[d],
         a.at < b.at
  PROVE  Extent(a) \cap Extent(b) = {}
<1>1. /\ a.at \in Visited /\ b.at \in Visited /\ header[a.at].size >= a.size
      /\ a \in [at : Offset, size : Request] /\ b \in [at : Offset, size : Request]
  BY DEF IInv, HeldAgree, TypeOK
<1>2. After(a.at) <= b.at
  BY <1>1 DEF IInv, Chained
<1>3. /\ a.at \in Nat /\ b.at \in Nat /\ a.size \in Nat /\ b.size \in Nat
      /\ After(a.at) = a.at + Header + header[a.at].size
      /\ header[a.at].size \in Nat /\ Header \in Nat
  <2>1. a.at \in Offset /\ b.at \in Offset /\ a.size \in Request /\ b.size \in Request
    BY <1>1
  <2>2. Offset \subseteq Nat /\ Header \in Nat
    BY HeapAssumption DEF Offset
  <2>3. header[a.at].size \in Nat
    BY <2>1 DEF IInv, TypeOK
  <2>4. QED
    BY <2>1, <2>2, <2>3, RequestType DEF After
<1>4. a.at + Header + a.size <= b.at
  BY <1>1, <1>2, <1>3
<1>5. \A x \in Extent(a) : x \in Int /\ x < b.at
  BY <1>3, <1>4 DEF Extent
<1>6. \A x \in Extent(b) : x \in Int /\ x >= b.at
  BY <1>3 DEF Extent
<1>7. QED
  BY <1>3, <1>5, <1>6

(* With no switch inside kmalloc, what callers hold never overlaps, lies   *)
(* in the heap, and is marked as taken in a header that is large enough:   *)
(* for any sizes of heap, headers and requests, and however often blocks   *)
(* are freed and taken again.                                              *)
THEOREM BlocksExclusive == ASSUME CarefulUse PROVE Spec => []Exclusive
<1>1. IInv => Exclusive
  <2> SUFFICES ASSUME IInv  PROVE Exclusive
    OBVIOUS
  <2>1. ASSUME NEW c \in Caller, NEW d \in Caller, NEW a \in held[c], NEW b \in held[d],
               a # b \/ c # d
        PROVE  Extent(a) \cap Extent(b) = {}
    <3>1. a.at # b.at /\ a.at \in Offset /\ b.at \in Offset
      BY <2>1 DEF IInv, HeldAgree, TypeOK
    <3>2. a.at < b.at \/ b.at < a.at
      BY <3>1, HeapAssumption DEF Offset
    <3>3. QED
      BY <3>2, Apart
  <2>2. ASSUME NEW c \in Caller, NEW b \in held[c]
        PROVE  /\ Extent(b) \subseteq Offset
               /\ b.at \in Visited /\ ~ header[b.at].free /\ header[b.at].size >= b.size
    <3>1. /\ b.at \in Visited /\ ~ header[b.at].free /\ header[b.at].size >= b.size
          /\ b \in [at : Offset, size : Request]
      BY DEF IInv, HeldAgree, TypeOK
    <3>2. After(b.at) <= heap_offset /\ heap_offset \in 0 .. HeapSize
      BY <3>1 DEF IInv, Chained, TypeOK
    <3>3. /\ b.at \in Nat /\ b.size \in Nat /\ HeapSize \in Nat
          /\ After(b.at) = b.at + Header + header[b.at].size
          /\ header[b.at].size \in Nat /\ Header \in Nat
      BY <3>1, HeapAssumption DEF IInv, TypeOK, After, Offset
    <3>4. b.at + Header + b.size <= HeapSize
      BY <3>1, <3>2, <3>3
    <3>5. Extent(b) \subseteq Offset
      BY <3>3, <3>4 DEF Extent, Offset
    <3>6. QED
      BY <3>1, <3>5
  <2>3. QED
    BY <2>1, <2>2 DEF Exclusive, Held
<1>2. QED
  BY <1>1, Invariance, PTL

(* With no switch inside kmalloc, the blocks fill the heap in use without  *)
(* a gap, and each is free or held: none is ever lost.                     *)
THEOREM NoBlockLost == ASSUME CarefulUse PROVE Spec => []BlocksFill
<1>1. IInv => BlocksFill
  <2> SUFFICES ASSUME IInv  PROVE BlocksFill
    OBVIOUS
  <2>1. ASSUME NEW o \in Visited  PROVE After(o) = heap_offset \/ After(o) \in Visited
    <3>1. Visited \subseteq 0 .. heap_offset - 1 /\ (After(o) < heap_offset => After(o) \in Visited)
      BY Visits DEF IInv, VisitsBlocks
    <3>2. o \in Nat /\ heap_offset \in Nat
      BY <3>1 DEF IInv, TypeOK
    <3>3. After(o) \in Nat /\ After(o) <= heap_offset
      BY <3>2, AfterType DEF IInv, Chained
    <3>4. QED
      BY <3>1, <3>2, <3>3
  <2>2. \A o \in Visited : header[o].free <=> ~ \E b \in Held : b.at = o
    BY DEF IInv, HeldAgree, Held
  <2>3. QED
    BY <2>1, <2>2 DEF BlocksFill
<1>2. QED
  BY <1>1, Invariance, PTL

-----------------------------------------------------------------------------
(* How many blocks there are.                                              *)

Blocks(size) == {o \in Visited : header[o].size = size}

LEMMA OneMore ==
  ASSUME NEW S, IsFiniteSet(S), NEW x
  PROVE  Cardinality(S \cup {x}) \in Nat /\ Cardinality(S \cup {x}) <= Cardinality(S) + 1
<1>1. Cardinality(S) \in Nat
  BY FS_CardinalityType
<1>2. Cardinality(S \cup {x}) = IF x \in S THEN Cardinality(S) ELSE Cardinality(S) + 1
  BY FS_AddElement
<1>3. QED
  BY <1>1, <1>2

LEMMA FinitelyHeld == IInv => IsFiniteSet(Held) /\ Cardinality(Held) \in Nat
<1> SUFFICES ASSUME IInv  PROVE IsFiniteSet(Held) /\ Cardinality(Held) \in Nat
  OBVIOUS
<1> DEFINE f == [b \in Held |-> b.at]
<1>1. IsFiniteSet(Offset)
  BY FS_Interval, HeapAssumption DEF Offset
<1>2. \A b \in Held : b.at \in Offset
  BY DEF IInv, TypeOK, Held
<1>3. f \in Injection(Held, Offset)
  <2>1. f \in [Held -> Offset]
    BY <1>2
  <2>2. \A a, b \in Held : a.at = b.at => a = b
    BY DEF IInv, HeldAgree, Held
  <2>3. QED
    BY <2>1, <2>2 DEF Injection, IsInjective
<1>4. QED
  BY <1>1, <1>3, FS_Injection, FS_CardinalityType

(* Blocks that all are held are not more than what is held.                *)
LEMMA AllHeld ==
  ASSUME IInv, NEW S \in SUBSET Visited, \A o \in S : ~ header[o].free
  PROVE  IsFiniteSet(S) /\ Cardinality(S) \in Nat /\ Cardinality(S) <= Cardinality(Held)
<1> DEFINE f == [o \in S |-> CHOOSE b \in Held : b.at = o]
<1>1. \A o \in S : \E b \in Held : b.at = o
  BY DEF IInv, HeldAgree, Held
<1>2. \A o \in S : f[o] \in Held /\ f[o].at = o
  BY <1>1
<1>3. f \in [S -> Held] /\ \A o, p \in S : f[o] = f[p] => o = p
  BY <1>2
<1>4. f \in Injection(S, Held)
  BY <1>3 DEF Injection, IsInjective
<1>5. QED
  BY <1>4, FinitelyHeld, FS_Injection, FS_CardinalityType

LEMMA FiniteBlocks ==
  ASSUME IInv
  PROVE  \A size : IsFiniteSet(Blocks(size)) /\ Cardinality(Blocks(size)) \in Nat
<1>1. IsFiniteSet(Offset)
  BY FS_Interval, HeapAssumption DEF Offset
<1>2. Visited \subseteq Offset
  <2>1. Visited \subseteq 0 .. heap_offset - 1
    BY Visits DEF IInv, VisitsBlocks
  <2>2. QED
    BY <2>1, HeapAssumption DEF IInv, TypeOK, Offset
<1>3. ASSUME NEW size  PROVE IsFiniteSet(Blocks(size))
  <2>1. Blocks(size) \in SUBSET Offset
    BY <1>2 DEF Blocks
  <2>2. QED
    BY <1>1, <2>1, FS_Subset
<1>4. QED
  BY <1>3, FS_CardinalityType

LEMMA SameBlocks ==
  ASSUME TypeOK, TypeOK', heap_offset' = heap_offset,
         \A o \in Offset : header'[o].size = header[o].size
  PROVE  \A size : Blocks(size)' = Blocks(size)
<1>1. Visited' = Visited
  BY SameChain
<1>2. Visited \subseteq Offset
  <2>1. Visited \subseteq 0 .. heap_offset - 1
    BY Visits DEF VisitsBlocks
  <2>2. QED
    BY <2>1, HeapAssumption DEF TypeOK, Offset
<1>3. QED
  BY <1>1, <1>2 DEF Blocks

LEMMA FewBlocks ==
  ChurnBounded <=> \A n \in Request : Cardinality(Blocks(Rounded(n))) <= peak
BY DEF ChurnBounded, Blocks

(* One more block is held, and the peak goes up with it.                   *)
LEMMA GotStep ==
  ASSUME IInv, PeakAgrees, NEW c \in Caller, NEW CONSTANT o, Got(c, o)
  PROVE  /\ peak' \in Nat /\ peak <= peak' /\ Cardinality(Held)' <= peak'
         /\ Cardinality(Held) + 1 <= peak'
<1> PICK new \in {[at |-> o, size |-> call[c].asked]} : TRUE
  OBVIOUS
<1>1. held' = [held EXCEPT ![c] = @ \cup {new}]
  BY DEF Got
<1>2. Held' = Held \cup {new}
  <2>1. /\ held'[c] = held[c] \cup {new}
        /\ \A d \in Caller : d # c => held'[d] = held[d]
    BY <1>1 DEF IInv, TypeOK
  <2>2. QED
    BY <2>1 DEF Held
<1>3. IsFiniteSet(Held) /\ Cardinality(Held) \in Nat
  BY FinitelyHeld
<1>4. /\ Cardinality(Held \cup {new}) <= Cardinality(Held) + 1
      /\ Cardinality(Held \cup {new}) \in Nat
  BY <1>3, OneMore
<1>5. Cardinality(Held)' = Cardinality(Held \cup {new})
  BY <1>2
<1>6. peak' = IF Cardinality(Held) + 1 > peak THEN Cardinality(Held) + 1 ELSE peak
  BY DEF Got
<1>7. QED
  BY <1>3, <1>4, <1>5, <1>6 DEF PeakAgrees

LEMMA PeakSteps ==
  ASSUME IInv, IInv', PeakAgrees, CarefulUse, [Next]_vars
  PROVE  PeakAgrees'
<1>1. \A n \in Request : Cardinality(Blocks(Rounded(n))) <= peak
  BY FewBlocks DEF PeakAgrees
<1>2. ASSUME peak' \in Nat, Cardinality(Held)' <= peak',
             \A n \in Request : Cardinality(Blocks(Rounded(n))') <= peak'
      PROVE  PeakAgrees'
  <2>1. \A n \in Request : Rounded(n)' = Rounded(n)
    BY DEF Rounded
  <2>2. ChurnBounded'
    BY <1>2, <2>1 DEF ChurnBounded, Blocks, Rounded
  <2>3. QED
    BY <1>2, <2>2 DEF PeakAgrees
<1>3. ASSUME UNCHANGED <<header, heap_offset, held, peak>>  PROVE PeakAgrees'
  <2>1. \A size : Blocks(size)' = Blocks(size)
    BY <1>3, SameBlocks DEF IInv
  <2>2. Held' = Held
    BY <1>3 DEF Held
  <2>3. peak' \in Nat /\ Cardinality(Held)' <= peak'
    BY <1>3, <2>2 DEF PeakAgrees
  <2>4. \A n \in Request : Cardinality(Blocks(Rounded(n))') <= peak'
    BY <1>1, <1>3, <2>1
  <2>5. QED
    BY <1>2, <2>3, <2>4
<1>4. ASSUME NEW c \in Caller, Take(c)  PROVE PeakAgrees'
  <2> PICK o \in {call[c].at} : TRUE
    OBVIOUS
  <2>1. /\ Got(c, o) /\ header' = [header EXCEPT ![o].free = FALSE]
        /\ heap_offset' = heap_offset
    BY <1>4 DEF Take
  <2>2. /\ peak' \in Nat /\ peak <= peak' /\ Cardinality(Held)' <= peak'
    BY <2>1, GotStep
  <2>3. \A p \in Offset : header'[p].size = header[p].size
    BY <2>1 DEF IInv, TypeOK
  <2>4. \A size : Blocks(size)' = Blocks(size)
    BY <2>1, <2>3, SameBlocks DEF IInv
  <2>5. ASSUME NEW n \in Request  PROVE Cardinality(Blocks(Rounded(n))') <= peak'
    <3>1. Cardinality(Blocks(Rounded(n))) <= peak /\ Blocks(Rounded(n))' = Blocks(Rounded(n))
      BY <1>1, <2>4
    <3>2. Cardinality(Blocks(Rounded(n))) \in Int
      BY FiniteBlocks
    <3>3. QED
      BY <2>2, <3>1, <3>2 DEF PeakAgrees
  <2>6. QED
    BY <1>2, <2>2, <2>5
<1>5. ASSUME NEW c \in Caller, Grow(c)  PROVE PeakAgrees'
  <2> PICK h \in {heap_offset} : TRUE
    OBVIOUS
  <2> PICK size \in {Rounded(call[c].asked)} : TRUE
    OBVIOUS
  <2>1. call[c].pc = "grow" /\ call[c].at = h /\ Fitting(size) = {}
    BY <1>5 DEF Grow, IInv, CallsAgree
  <2>2. CASE h + Header + size > HeapSize
    BY <1>3, <1>5, <2>1, <2>2 DEF Grow
  <2>3. CASE ~ h + Header + size > HeapSize
    <3>1. /\ Got(c, h) /\ header' = [header EXCEPT ![h] = [size |-> size, free |-> FALSE]]
          /\ heap_offset' = h + Header + size
      BY <1>5, <2>1, <2>3 DEF Grow
    <3>2. size \in Nat
      <4>1. call[c].asked \in Request
        <5>1. call[c] \in [pc : {"idle"}]
                            \cup [pc : {"take", "grow"}, asked : Request, at : 0 .. HeapSize]
          BY DEF IInv, TypeOK
        <5>2. call[c] \in [pc : {"take", "grow"}, asked : Request, at : 0 .. HeapSize]
          BY <2>1, <5>1
        <5>3. QED
          BY <5>2
      <4>2. QED
        BY <4>1, RequestType, RoundedType
    <3>3. h \in Offset /\ h \in Nat
      BY <2>3, <3>2, HeapAssumption DEF IInv, TypeOK, Offset
    <3>4. Visited' = Visited \cup {h} /\ \A o \in Visited : o < h
      BY <3>1, <3>2, <3>3, LongerChain DEF IInv
    <3>5. Visited \subseteq Offset
      <4>1. Visited \subseteq 0 .. heap_offset - 1
        BY Visits DEF IInv, VisitsBlocks
      <4>2. QED
        BY <4>1, HeapAssumption DEF IInv, TypeOK, Offset
    <3>6. \A o \in Visited : header'[o] = header[o] /\ o # h
      BY <3>1, <3>3, <3>4, <3>5 DEF IInv, TypeOK
    <3>7. header'[h].size = size
      BY <3>1, <3>3 DEF IInv, TypeOK
    <3>8. /\ peak' \in Nat /\ peak <= peak' /\ Cardinality(Held)' <= peak'
          /\ Cardinality(Held) + 1 <= peak'
      BY <3>1, GotStep
    <3>9. ASSUME NEW n \in Request  PROVE Cardinality(Blocks(Rounded(n))') <= peak'
      <4> PICK s \in {Rounded(n)} : TRUE
        OBVIOUS
      <4>1. Cardinality(Blocks(s)) <= peak /\ Cardinality(Blocks(s)) \in Nat /\ IsFiniteSet(Blocks(s))
        BY <1>1, FiniteBlocks
      <4>2. CASE s # size
        <5>1. Blocks(s)' = Blocks(s)
          BY <3>4, <3>6, <3>7, <4>2 DEF Blocks
        <5>2. Cardinality(Blocks(s)') <= peak'
          BY <3>8, <4>1, <5>1 DEF PeakAgrees
        <5>3. QED
          BY <5>2 DEF Rounded
      <4>3. CASE s = size
        <5>1. \A o \in Blocks(s) : ~ header[o].free
          BY <2>1, <3>2, <4>3 DEF Blocks, Fitting
        <5>2. Cardinality(Blocks(s)) <= Cardinality(Held) /\ Cardinality(Held) \in Nat
          BY <5>1, AllHeld, FinitelyHeld DEF Blocks
        <5>3. Blocks(s)' = Blocks(s) \cup {h}
          BY <3>4, <3>6, <3>7, <4>3 DEF Blocks
        <5>4. Cardinality(Blocks(s) \cup {h}) <= Cardinality(Blocks(s)) + 1
              /\ Cardinality(Blocks(s) \cup {h}) \in Nat
          BY <4>1, OneMore
        <5>5. Cardinality(Blocks(s)') <= peak'
          BY <3>8, <4>1, <5>2, <5>3, <5>4
        <5>6. QED
          BY <5>5 DEF Rounded
      <4>4. QED
        BY <4>2, <4>3
    <3>10. QED
      BY <1>2, <3>8, <3>9
  <2>4. QED
    BY <2>2, <2>3
<1>6. ASSUME NEW c \in Caller, NEW b \in held[c], kfree(c, b)  PROVE PeakAgrees'
  <2>1. /\ header' = [header EXCEPT ![b.at].free = TRUE] /\ peak' = peak
        /\ heap_offset' = heap_offset /\ held' = [held EXCEPT ![c] = @ \ {b}]
    BY <1>6 DEF kfree
  <2>2. \A p \in Offset : header'[p].size = header[p].size
    BY <2>1 DEF IInv, TypeOK
  <2>3. \A size : Blocks(size)' = Blocks(size)
    BY <2>1, <2>2, SameBlocks DEF IInv
  <2>4. Held' \in SUBSET Held
    BY <2>1 DEF IInv, TypeOK, Held
  <2>5. Cardinality(Held') <= Cardinality(Held) /\ Cardinality(Held') \in Nat
        /\ Cardinality(Held) \in Nat
    BY <2>4, FinitelyHeld, FS_Subset, FS_CardinalityType
  <2>6. peak' \in Nat /\ Cardinality(Held)' <= peak'
    BY <2>1, <2>5 DEF PeakAgrees
  <2>7. \A n \in Request : Cardinality(Blocks(Rounded(n))') <= peak'
    BY <1>1, <2>1, <2>3
  <2>8. QED
    BY <1>2, <2>6, <2>7
<1>7. ASSUME NEW c \in Caller, NEW n \in Request, Malloc(c, n)  PROVE PeakAgrees'
  BY <1>3, <1>7 DEF Malloc
<1>8. CASE UNCHANGED vars
  BY <1>3, <1>8 DEF vars
<1>9. QED
  BY <1>4, <1>5, <1>6, <1>7, <1>8 DEF Next

(* With no switch inside kmalloc, churn does not use up the heap: there    *)
(* are never more blocks of one size than were in use at a time, although  *)
(* blocks are never split or merged.                                       *)
THEOREM ChurnIsBounded == ASSUME CarefulUse PROVE Spec => []ChurnBounded
<1>1. Init => PeakAgrees
  <2> SUFFICES ASSUME Init  PROVE PeakAgrees
    OBVIOUS
  <2>1. IInv /\ Visited = {}
    <3>1. IInv /\ heap_offset = 0
      BY InitHolds DEF Init
    <3>2. Visited \subseteq 0 .. heap_offset - 1 /\ 0 .. heap_offset - 1 = {}
      BY <3>1, Visits DEF IInv, VisitsBlocks
    <3>3. QED
      BY <3>1, <3>2
  <2>2. Held = {} /\ peak = 0
    BY DEF Init, Held
  <2>3. \A n \in Request : Blocks(Rounded(n)) = {}
    BY <2>1 DEF Blocks
  <2>4. QED
    BY <2>2, <2>3, FewBlocks, FS_EmptySet DEF PeakAgrees
<1>2. Spec => [](IInv /\ PeakAgrees)
  <2>1. IInv /\ PeakAgrees /\ [Next]_vars /\ IInv' => PeakAgrees'
    BY PeakSteps
  <2>2. QED
    BY <1>1, <2>1, Invariance, PTL DEF Spec
<1>3. QED
  BY <1>2, PTL DEF PeakAgrees
=============================================================================
