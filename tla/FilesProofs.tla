----------------------------- MODULE FilesProofs -----------------------------
(***************************************************************************)
(* Proofs about Files, for every volume, every set of names and texts and  *)
(* every set of faults none of which hits a deletion: the files own their  *)
(* clusters, and no call writes to the boot sector; with at most one fault *)
(* a call that does not give up loses no cluster; and a file reads back as *)
(* the calls that succeeded left it, but for the appends and copies that   *)
(* Accountable = FALSE sets aside.                                         *)
(***************************************************************************)
EXTENDS Files, FiniteSetTheorems, WellFoundedInduction, TLAPS

-----------------------------------------------------------------------------
(* Numbers.                                                                *)

(* Every set of numbers has a least element; hence induction.              *)
LEMMA Least ==
  ASSUME NEW T \in SUBSET Nat, T # {}
  PROVE  \E n \in T : \A m \in T : n <= m
<1> DEFINE Less == OpToRel(<, Nat)
<1>1. IsWellFoundedOn(Less, Nat)
  BY NatLessThanWellFounded, Zenon
<1>2. \A m, n \in Nat : <<m, n>> \in Less <=> m < n
  BY DEF OpToRel
<1> HIDE DEF Less
<1>3. PICK n \in T : \A m \in T : <<m, n>> \notin Less
  BY <1>1, WFMin
<1>4. \A m \in T : ~ (m < n)
  BY <1>2, <1>3
<1>5. \A m \in T : n <= m
  BY <1>4
<1>6. QED
  BY <1>5

LEMMA UpTo ==
  ASSUME NEW N \in Nat, NEW S, 0 \in S,
         \A n \in 0 .. N - 1 : n \in S => n + 1 \in S
  PROVE  0 .. N \subseteq S
<1> DEFINE T == {n \in 0 .. N : n \notin S}
<1>1. SUFFICES ASSUME T # {}  PROVE FALSE
  OBVIOUS
<1>2. PICK n \in T : \A m \in T : n <= m
  <2>1. T \in SUBSET Nat
    OBVIOUS
  <2> HIDE DEF T
  <2>2. QED
    BY <1>1, <2>1, Least
<1>3. n # 0 /\ n - 1 \in 0 .. N - 1 /\ n - 1 \notin T
  BY <1>2
<1>4. QED
  BY <1>3

(* A function may be defined by what it is at 0 and how it goes on.        *)
LEMMA Iterated ==
  ASSUME NEW N \in Nat, NEW X, NEW x \in X, NEW G \in [X -> X]
  PROVE  \E f \in [0 .. N -> X] : f[0] = x /\ \A n \in 1 .. N : f[n] = G[f[n - 1]]
<1> DEFINE Goes(k, f) == f[0] = x /\ \A n \in 1 .. k : f[n] = G[f[n - 1]]
           S == {k \in Nat : \E f \in [0 .. k -> X] : Goes(k, f)}
<1>1. 0 \in S
  <2>1. [n \in 0 .. 0 |-> x] \in [0 .. 0 -> X] /\ Goes(0, [n \in 0 .. 0 |-> x])
    OBVIOUS
  <2>2. QED
    BY <2>1
<1>2. ASSUME NEW k \in 0 .. N - 1, k \in S  PROVE k + 1 \in S
  <2>1. PICK f \in [0 .. k -> X] : Goes(k, f)
    BY <1>2
  <2> DEFINE g == [n \in 0 .. k + 1 |-> IF n = k + 1 THEN G[f[k]] ELSE f[n]]
  <2>2. f[k] \in X /\ G[f[k]] \in X
    OBVIOUS
  <2>3. g \in [0 .. k + 1 -> X]
    BY <2>2
  <2>4. g[0] = x
    BY <2>1
  <2>5. ASSUME NEW n \in 1 .. k + 1  PROVE g[n] = G[g[n - 1]]
    <3>1. CASE n = k + 1
      BY <3>1
    <3>2. CASE n # k + 1
      <4>1. n \in 1 .. k /\ g[n] = f[n] /\ g[n - 1] = f[n - 1]
        BY <3>2
      <4>2. QED
        BY <4>1, <2>1
    <3>3. QED
      BY <3>1, <3>2
  <2>6. QED
    BY <2>3, <2>4, <2>5
<1>3. N \in S
  <2> HIDE DEF S
  <2>1. 0 .. N \subseteq S
    BY <1>1, <1>2, UpTo
  <2>2. QED
    BY <2>1
<1>4. QED
  BY <1>3

LEMMA DivMod ==
  ASSUME NEW a \in Nat, NEW b \in Nat \ {0}
  PROVE  a \div b \in Nat /\ a % b \in 0 .. b - 1 /\ a = b * (a \div b) + (a % b)
<1>1. a % b \in 0 .. b - 1 /\ a \div b \in Int /\ a = b * (a \div b) + (a % b)
  OBVIOUS
<1>2. a \div b >= 0
  BY <1>1
<1>3. QED
  BY <1>1, <1>2

-----------------------------------------------------------------------------
Table == [Clusters -> Clusters \cup {Free, Eoc}]

(* s is what following the table t from cluster c passes.                  *)
Follows(t, s) == \A i \in 1 .. Len(s) - 1 : s[i + 1] = Next_in(t, s[i]) /\ s[i + 1] # Invalid
IsTrace(t, c, s) ==
  s \in Seq(Nodes) /\ Len(s) \in 1 .. TotalClusters + 1 /\ s[1] = c /\ Follows(t, s)
IsChain(t, c, s) == IsTrace(t, c, s) /\ Next_in(t, s[Len(s)]) = Invalid

Longer(t, s) ==
  IF Next_in(t, Last(s)) = Invalid THEN s ELSE Append(s, Next_in(t, Last(s)))

-----------------------------------------------------------------------------
(* Walking through a table.                                                *)

LEMMA Constants ==
  /\ TotalClusters \in Nat \ {0} /\ ClusterSize \in Nat \ {0}
  /\ Clusters \subseteq Nat /\ 0 \notin Clusters /\ Boot = 0 /\ Free = 0 /\ Eoc = -1
  /\ Invalid = -2 /\ Eoc \notin Nodes /\ Invalid \notin Nodes /\ Free \notin Clusters
  /\ Boot \notin Clusters /\ Clusters \subseteq Nodes /\ Boot \in Nodes
  /\ Nodes = Clusters \cup {0} /\ Eoc # Invalid /\ Eoc # Free /\ Eoc \notin Clusters
BY VolumeAssumption DEF Clusters, Nodes, Boot, Free, Eoc, Invalid

LEMMA NextType ==
  ASSUME NEW t \in Table, NEW c \in Nodes
  PROVE  Next_in(t, c) \in Nodes \cup {Invalid}
BY Constants DEF Table, Next_in

LEMMA LongerType ==
  ASSUME NEW t \in Table, NEW s \in Seq(Nodes), s # <<>>
  PROVE  Longer(t, s) \in Seq(Nodes) /\ Longer(t, s) # <<>>
<1>1. Len(s) \in Nat \ {0} /\ Last(s) = s[Len(s)] /\ s[Len(s)] \in Nodes
  BY DEF Last
<1>2. CASE Next_in(t, Last(s)) = Invalid
  BY <1>2 DEF Longer
<1>3. CASE Next_in(t, Last(s)) # Invalid
  <2>1. Next_in(t, Last(s)) \in Nodes
    BY <1>1, <1>3, NextType
  <2>2. QED
    BY <1>3, <2>1 DEF Longer
<1>4. QED
  BY <1>2, <1>3

(* The recursive definition of Walk has a solution.                        *)
LEMMA WalkStep ==
  ASSUME NEW t \in Table, NEW c \in Nodes
  PROVE  /\ Walk(t, c)[0] = <<c>>
         /\ \A n \in 1 .. TotalClusters : Walk(t, c)[n] = Longer(t, Walk(t, c)[n - 1])
         /\ \A n \in 0 .. TotalClusters : Walk(t, c)[n] \in Seq(Nodes) /\ Walk(t, c)[n] # <<>>
<1> DEFINE X == Seq(Nodes) \ {<<>>}
           G == [s \in X |-> Longer(t, s)]
           N == TotalClusters
<1>1. G \in [X -> X] /\ <<c>> \in X
  <2>1. \A s \in X : Longer(t, s) \in X
    BY LongerType
  <2>2. QED
    BY <2>1
<1>2. PICK f \in [0 .. N -> X] : f[0] = <<c>> /\ \A n \in 1 .. N : f[n] = G[f[n - 1]]
  <2> DEFINE start == <<c>>
  <2>1. start \in X /\ TotalClusters \in Nat /\ G \in [X -> X]
    BY <1>1, Constants
  <2> HIDE DEF X, G, start
  <2>2. \E f \in [0 .. TotalClusters -> X] :
          f[0] = start /\ \A n \in 1 .. TotalClusters : f[n] = G[f[n - 1]]
    BY <2>1, Iterated, SMTT(60)
  <2>3. QED
    BY <2>2 DEF start
<1>3. \A n \in 1 .. N : n - 1 \in 0 .. N /\ f[n - 1] \in X /\ G[f[n - 1]] = Longer(t, f[n - 1])
  <2>1. \A n \in 1 .. N : n - 1 \in 0 .. N
    BY Constants
  <2>2. QED
    BY <2>1, <1>2
<1>4. f = [n \in 0 .. N |-> IF n = 0 THEN <<c>> ELSE Longer(t, f[n - 1])]
  <2>1. \A n \in 0 .. N : n # 0 => n \in 1 .. N
    BY Constants
  <2>2. QED
    BY <2>1, <1>2, <1>3
<1>5. Walk(t, c) = [n \in 0 .. N |-> IF n = 0 THEN <<c>> ELSE Longer(t, Walk(t, c)[n - 1])]
  BY <1>4 DEF Walk, Longer
<1>6. Walk(t, c)[0] = <<c>> /\ \A n \in 1 .. N : Walk(t, c)[n] = Longer(t, Walk(t, c)[n - 1])
  <2> DEFINE w == Walk(t, c)
  <2> HIDE DEF w
  <2>1. 0 \in 0 .. N /\ \A n \in 1 .. N : n \in 0 .. N /\ n # 0
    BY Constants
  <2>2. w = [n \in 0 .. N |-> IF n = 0 THEN <<c>> ELSE Longer(t, w[n - 1])]
    BY <1>5 DEF w
  <2>3. QED
    BY <2>1, <2>2 DEF w
<1>7. 0 .. N \subseteq {n \in 0 .. N : Walk(t, c)[n] \in X}
  <2> DEFINE S == {n \in 0 .. N : Walk(t, c)[n] \in X}
  <2>1. 0 \in S
    <3>1. 0 \in 0 .. N
      BY Constants
    <3>2. QED
      BY <3>1, <1>1, <1>6
  <2>2. ASSUME NEW n \in 0 .. N - 1, n \in S  PROVE n + 1 \in S
    <3>1. n + 1 \in 1 .. N /\ n + 1 \in 0 .. N /\ (n + 1) - 1 = n
      BY Constants
    <3>2. Walk(t, c)[n + 1] = Longer(t, Walk(t, c)[n])
      BY <3>1, <1>6
    <3>3. Longer(t, Walk(t, c)[n]) \in X
      BY <2>2, LongerType
    <3>4. QED
      BY <3>1, <3>2, <3>3
  <2> HIDE DEF S
  <2>3. 0 .. N \subseteq S
    BY <2>1, <2>2, Constants, UpTo
  <2>4. QED
    BY <2>3 DEF S
<1>8. QED
  BY <1>6, <1>7

(* What following a table passes is a trace, which stops at the end of a   *)
(* chain or after TotalClusters steps.                                     *)
LEMMA ChainIsTrace ==
  ASSUME NEW t \in Table, NEW c \in Nodes
  PROVE  /\ IsTrace(t, c, Chain_in(t, c))
         /\ \/ Len(Chain_in(t, c)) = TotalClusters + 1
            \/ IsChain(t, c, Chain_in(t, c))
<1> DEFINE N == TotalClusters
           w == Walk(t, c)
           Good(n) == /\ Len(w[n]) <= n + 1 /\ w[n][1] = c /\ Follows(t, w[n])
                      /\ Len(w[n]) = n + 1 \/ Next_in(t, w[n][Len(w[n])]) = Invalid
           S == {n \in 0 .. N : Good(n)}
<1>1. \A n \in 0 .. N : w[n] \in Seq(Nodes) /\ Len(w[n]) \in Nat \ {0}
  BY WalkStep
<1>2. 0 \in S
  <2>1. 0 \in 0 .. N /\ w[0] = <<c>>
    BY WalkStep, Constants
  <2> HIDE DEF w
  <2>2. Len(w[0]) = 1 /\ w[0][1] = c
    BY <2>1
  <2>3. Follows(t, w[0])
    BY <2>2 DEF Follows
  <2>4. Good(0)
    BY <2>2, <2>3
  <2>5. QED
    BY <2>1, <2>4
<1>3. ASSUME NEW n \in 0 .. N - 1, n \in S  PROVE n + 1 \in S
  <2> DEFINE s == w[n]
             next == Next_in(t, Last(s))
  <2>1. n \in 0 .. N /\ n + 1 \in 0 .. N /\ n + 1 \in 1 .. N /\ (n + 1) - 1 = n
    BY Constants
  <2>2. w[n + 1] = Longer(t, s)
    BY <2>1, WalkStep
  <2>3. s \in Seq(Nodes) /\ Len(s) \in Nat \ {0} /\ Last(s) = s[Len(s)] /\ s[Len(s)] \in Nodes
    <3>1. s \in Seq(Nodes) /\ Len(s) \in Nat \ {0}
      BY <2>1, <1>1
    <3>2. QED
      BY <3>1 DEF Last
  <2>4. Good(n)
    BY <1>3
  <2> HIDE DEF w
  <2>5. CASE next = Invalid
    <3>1. w[n + 1] = s
      BY <2>2, <2>5 DEF Longer
    <3>2. Good(n + 1)
      BY <3>1, <2>3, <2>4, <2>5
    <3>3. QED
      BY <3>2, <2>1
  <2>6. CASE next # Invalid
    <3>1. w[n + 1] = Append(s, next)
      BY <2>2, <2>6 DEF Longer
    <3>2. next \in Nodes
      BY <2>3, <2>6, NextType
    <3>3. /\ Len(w[n + 1]) = Len(s) + 1 /\ w[n + 1][Len(s) + 1] = next
          /\ \A i \in 1 .. Len(s) : w[n + 1][i] = s[i]
      BY <3>1, <3>2, <2>3
    <3>4. Len(s) = n + 1 /\ w[n + 1][1] = c
      BY <3>3, <2>3, <2>4, <2>6
    <3>5. ASSUME NEW i \in 1 .. Len(w[n + 1]) - 1
          PROVE  w[n + 1][i + 1] = Next_in(t, w[n + 1][i]) /\ w[n + 1][i + 1] # Invalid
      <4>1. CASE i = Len(s)
        BY <4>1, <3>3, <2>3, <2>6
      <4>2. CASE i # Len(s)
        <5>1. i \in 1 .. Len(s) - 1 /\ i \in 1 .. Len(s) /\ i + 1 \in 1 .. Len(s)
          BY <4>2, <3>3, <2>3
        <5>2. s[i + 1] = Next_in(t, s[i]) /\ s[i + 1] # Invalid
          BY <5>1, <2>4 DEF Follows
        <5>3. QED
          BY <5>1, <5>2, <3>3
      <4>3. QED
        BY <4>1, <4>2
    <3>6. Follows(t, w[n + 1])
      BY <3>5 DEF Follows
    <3>7. Len(w[n + 1]) = (n + 1) + 1
      BY <3>3, <3>4
    <3>8. Good(n + 1)
      BY <3>4, <3>6, <3>7
    <3>9. QED
      BY <3>8, <2>1
  <2>7. QED
    BY <2>5, <2>6
<1>4. N \in S
  <2> HIDE DEF S
  <2>1. 0 .. N \subseteq S
    BY <1>2, <1>3, Constants, UpTo
  <2>2. QED
    BY <2>1, Constants
<1>5. Good(N) /\ Chain_in(t, c) = w[N] /\ w[N] \in Seq(Nodes) /\ Len(w[N]) \in Nat \ {0}
  BY <1>1, <1>4, Constants DEF Chain_in
<1> HIDE DEF w
<1>6. Len(w[N]) \in 1 .. N + 1
  BY <1>5, Constants
<1>7. QED
  BY <1>5, <1>6 DEF IsTrace, IsChain

(* A table has one chain from a cluster.                                   *)
LEMMA ChainUnique ==
  ASSUME NEW t \in Table, NEW c \in Nodes, NEW s, IsChain(t, c, s)
  PROVE  Chain_in(t, c) = s
<1> DEFINE u == Chain_in(t, c)
<1>1. s \in Seq(Nodes) /\ u \in Seq(Nodes) /\ Len(s) \in Nat \ {0} /\ Len(u) \in Nat \ {0}
      /\ s[1] = c /\ u[1] = c /\ Follows(t, s) /\ Follows(t, u) /\ Next_in(t, s[Len(s)]) = Invalid
      /\ Len(s) <= TotalClusters + 1 /\ Len(u) <= TotalClusters + 1
  BY ChainIsTrace, Constants DEF IsChain, IsTrace
<1>2. Len(u) = TotalClusters + 1 \/ Next_in(t, u[Len(u)]) = Invalid
  BY ChainIsTrace DEF IsChain
<1> HIDE DEF u
<1> DEFINE S == {n \in Nat : n < Len(s) /\ n < Len(u) => s[n + 1] = u[n + 1]}
<1>3. 0 \in S
  BY <1>1
<1>4. ASSUME NEW n \in 0 .. Len(s) - 1, n \in S  PROVE n + 1 \in S
  <2>1. CASE n + 1 < Len(s) /\ n + 1 < Len(u)
    <3>1. s[n + 1] = u[n + 1] /\ n + 1 \in 1 .. Len(s) - 1 /\ n + 1 \in 1 .. Len(u) - 1
      BY <2>1, <1>1, <1>4
    <3>2. s[(n + 1) + 1] = Next_in(t, s[n + 1]) /\ u[(n + 1) + 1] = Next_in(t, u[n + 1])
      BY <3>1, <1>1 DEF Follows
    <3>3. QED
      BY <3>1, <3>2
  <2>2. CASE ~ (n + 1 < Len(s) /\ n + 1 < Len(u))
    BY <2>2
  <2>3. QED
    BY <2>1, <2>2
<1>5. 0 .. Len(s) \subseteq S
  <2> HIDE DEF S
  <2>1. QED
    BY <1>1, <1>3, <1>4, UpTo
<1>6. \A i \in 1 .. Len(s) : i <= Len(u) => s[i] = u[i]
  <2>1. TAKE i \in 1 .. Len(s)
  <2>2. i - 1 \in S /\ (i - 1) + 1 = i
    BY <1>1, <1>5
  <2>3. QED
    BY <2>2, <1>1
<1>7. Len(s) = Len(u)
  <2>1. CASE Len(s) < Len(u)
    <3>1. Len(s) \in 1 .. Len(u) - 1 /\ s[Len(s)] = u[Len(s)]
      BY <2>1, <1>1, <1>6
    <3>2. u[Len(s) + 1] = Next_in(t, u[Len(s)]) /\ u[Len(s) + 1] # Invalid
      BY <3>1, <1>1 DEF Follows
    <3>3. QED
      BY <3>1, <3>2, <1>1
  <2>2. CASE Len(u) < Len(s)
    <3>1. Len(u) \in 1 .. Len(s) - 1 /\ s[Len(u)] = u[Len(u)] /\ Next_in(t, u[Len(u)]) = Invalid
      BY <2>2, <1>1, <1>2, <1>6
    <3>2. s[Len(u) + 1] = Next_in(t, s[Len(u)]) /\ s[Len(u) + 1] # Invalid
      BY <3>1, <1>1 DEF Follows
    <3>3. QED
      BY <3>1, <3>2
  <2>3. QED
    BY <2>1, <2>2, <1>1
<1>8. s = u
  BY <1>1, <1>6, <1>7
<1>9. QED
  BY <1>8 DEF u

-----------------------------------------------------------------------------
(* Sound tables.                                                           *)

InUse(t) == {c \in Clusters : t[c] # Free}

LEMMA TableType ==
  ASSUME NEW t \in Table, NEW c \in Clusters
  PROVE  t[c] \in Clusters \cup {Free, Eoc}
BY DEF Table

(* The clusters after one that is in use are in use, up to an end mark.    *)
LEMMA NextInUse ==
  ASSUME NEW t \in Table, Sound(t), NEW c \in InUse(t)
  PROVE  /\ Next_in(t, c) = Invalid <=> t[c] = Eoc
         /\ Next_in(t, c) # Invalid => Next_in(t, c) \in InUse(t) /\ Next_in(t, c) = t[c]
<1>1. c \in Clusters /\ t[c] # Free /\ t[c] \in Clusters \cup {Free, Eoc}
  BY TableType DEF InUse
<1>2. CASE t[c] = Eoc
  BY <1>1, <1>2 DEF Next_in
<1>3. CASE t[c] # Eoc
  <2>1. t[c] \in Clusters /\ Next_in(t, c) = t[c]
    BY <1>1, <1>3 DEF Next_in
  <2>2. t[t[c]] # Free
    BY <1>1, <2>1 DEF Sound
  <2>3. QED
    BY <1>3, <2>1, <2>2, Constants DEF InUse
<1>4. QED
  BY <1>2, <1>3

(* A set that is closed under the table has the whole chain.               *)
LEMMA TraceWithin ==
  ASSUME NEW t, NEW c, NEW s, IsTrace(t, c, s), NEW T, c \in T,
         \A d \in T : Next_in(t, d) # Invalid => Next_in(t, d) \in T
  PROVE  \A i \in 1 .. Len(s) : s[i] \in T
<1> DEFINE S == {n \in Nat : n < Len(s) => s[n + 1] \in T}
<1>1. Len(s) \in Nat \ {0} /\ s[1] = c /\ Follows(t, s)
  BY Constants DEF IsTrace
<1>2. 0 \in S
  BY <1>1
<1>3. ASSUME NEW n \in 0 .. Len(s) - 1, n \in S  PROVE n + 1 \in S
  <2>1. CASE n + 1 < Len(s)
    <3>1. s[n + 1] \in T /\ n + 1 \in 1 .. Len(s) - 1
      BY <2>1, <1>1, <1>3
    <3>2. s[(n + 1) + 1] = Next_in(t, s[n + 1]) /\ s[(n + 1) + 1] # Invalid
      BY <3>1, <1>1 DEF Follows
    <3>3. s[(n + 1) + 1] \in T
      BY <3>1, <3>2
    <3>4. QED
      BY <3>3
  <2>2. CASE ~ (n + 1 < Len(s))
    BY <2>2
  <2>3. QED
    BY <2>1, <2>2
<1>4. 0 .. Len(s) \subseteq S
  <2> HIDE DEF S
  <2>1. QED
    BY <1>1, <1>2, <1>3, UpTo
<1>5. QED
  <2>1. TAKE i \in 1 .. Len(s)
  <2>2. i - 1 \in 0 .. Len(s) /\ (i - 1) + 1 = i /\ i - 1 < Len(s)
    BY <1>1
  <2>3. i - 1 \in S
    BY <1>4, <2>2
  <2>4. QED
    BY <2>2, <2>3

LEMMA TraceInUse ==
  ASSUME NEW t \in Table, Sound(t), NEW c \in InUse(t), NEW s, IsTrace(t, c, s)
  PROVE  \A i \in 1 .. Len(s) : s[i] \in InUse(t)
BY TraceWithin, NextInUse

(* In a sound table a trace from a start passes no cluster twice, and two  *)
(* traces from different starts do not meet.                               *)
LEMMA Backwards ==
  ASSUME NEW t \in Table, Sound(t),
         NEW c \in InUse(t), NEW s, IsTrace(t, c, s), NEW i \in 1 .. Len(s), i # 1
  PROVE  /\ i - 1 \in 1 .. Len(s) /\ s[i - 1] \in Clusters /\ s[i] \in Clusters
         /\ t[s[i - 1]] = s[i]
<1>1. Len(s) \in Nat \ {0} /\ Follows(t, s)
  BY Constants DEF IsTrace
<1>2. i - 1 \in 1 .. Len(s) - 1 /\ i - 1 \in 1 .. Len(s) /\ (i - 1) + 1 = i
  BY <1>1
<1>3. s[i] = Next_in(t, s[i - 1]) /\ s[i] # Invalid
  BY <1>1, <1>2 DEF Follows
<1>4. s[i - 1] \in InUse(t) /\ s[i] \in InUse(t)
  BY <1>2, TraceInUse
<1>5. QED
  BY <1>2, <1>3, <1>4, NextInUse DEF InUse

LEMMA Meet ==
  ASSUME NEW t \in Table, Sound(t),
         NEW c, NEW d, Starts(t, c), Starts(t, d),
         NEW s, IsTrace(t, c, s), NEW u, IsTrace(t, d, u),
         NEW k \in 1 .. Len(s), NEW j \in 1 .. Len(u), s[k] = u[j]
  PROVE  k = j /\ c = d
<1> DEFINE T == {n \in Nat : /\ n \in 1 .. Len(s)
                             /\ \E m \in 1 .. Len(u) : s[n] = u[m] /\ ~ (n = m /\ c = d)}
<1>1. c \in InUse(t) /\ d \in InUse(t) /\ Len(s) \in Nat \ {0} /\ Len(u) \in Nat \ {0}
      /\ s[1] = c /\ u[1] = d
  BY Constants DEF Starts, InUse, IsTrace
<1>2. SUFFICES ASSUME T # {}  PROVE FALSE
  <2>1. k \in Nat
    BY <1>1
  <2>2. QED
    BY <2>1
<1>3. PICK n \in T : \A m \in T : n <= m
  <2>1. T \in SUBSET Nat
    OBVIOUS
  <2> HIDE DEF T
  <2>2. QED
    BY <1>2, <2>1, Least
<1>4. PICK m \in 1 .. Len(u) : s[n] = u[m] /\ ~ (n = m /\ c = d)
  BY <1>3
<1>5. n \in 1 .. Len(s) /\ n \in Nat
  BY <1>3
<1>6. CASE n = 1 /\ m = 1
  BY <1>1, <1>4, <1>6
<1>7. CASE n = 1 /\ m # 1
  <2>1. u[m - 1] \in Clusters /\ t[u[m - 1]] = u[m]
    BY <1>1, <1>7, Backwards
  <2>2. u[m] = c
    BY <1>1, <1>4, <1>7
  <2>3. QED
    BY <2>1, <2>2 DEF Starts
<1>8. CASE n # 1 /\ m = 1
  <2>1. s[n - 1] \in Clusters /\ t[s[n - 1]] = s[n]
    BY <1>1, <1>5, <1>8, Backwards
  <2>2. s[n] = d
    BY <1>1, <1>4, <1>8
  <2>3. QED
    BY <2>1, <2>2 DEF Starts
<1>9. CASE n # 1 /\ m # 1
  <2>1. /\ n - 1 \in 1 .. Len(s) /\ s[n - 1] \in Clusters /\ s[n] \in Clusters
        /\ t[s[n - 1]] = s[n]
    BY <1>1, <1>5, <1>9, Backwards
  <2>2. m - 1 \in 1 .. Len(u) /\ u[m - 1] \in Clusters /\ t[u[m - 1]] = u[m]
    <3>1. m # 1 /\ d \in InUse(t) /\ IsTrace(t, d, u)
      BY <1>1, <1>9
    <3> HIDE DEF T
    <3>2. QED
      BY <3>1, Backwards
  <2>3. s[n - 1] = u[m - 1]
    BY <2>1, <2>2, <1>4 DEF Sound
  <2>4. ~ (n - 1 = m - 1 /\ c = d)
    BY <1>4, <1>5, <2>2
  <2>5. n - 1 \in T
    <3>1. n - 1 \in Nat
      BY <2>1, <1>1
    <3>2. QED
      BY <2>1, <2>2, <2>3, <2>4, <3>1
  <2>6. n <= n - 1
    BY <1>3, <2>5
  <2>7. QED
    BY <2>6, <1>5
<1>10. QED
  BY <1>6, <1>7, <1>8, <1>9

(* Distinct clusters are at most TotalClusters many.                       *)
LEMMA Pigeons ==
  ASSUME NEW s \in Seq(Nodes), \A i \in 1 .. Len(s) : s[i] \in Clusters,
         \A i, j \in 1 .. Len(s) : s[i] = s[j] => i = j
  PROVE  Len(s) <= TotalClusters
<1> DEFINE I == 1 .. Len(s)
           f == [i \in I |-> s[i]]
<1>1. Len(s) \in Nat /\ TotalClusters \in Nat /\ TotalClusters + 1 \in Int /\ 2 \in Int /\ 1 \in Int
  BY Constants
<1>2. IsFiniteSet(I) /\ Cardinality(I) = Len(s)
  <2>1. Cardinality(1 .. Len(s)) = IF 1 > Len(s) THEN 0 ELSE Len(s) - 1 + 1
    BY <1>1, FS_Interval
  <2>2. QED
    BY <1>1, <2>1, FS_Interval
<1>3. IsFiniteSet(Clusters) /\ Cardinality(Clusters) = TotalClusters
  <2>1. /\ IsFiniteSet(2 .. TotalClusters + 1)
        /\ Cardinality(2 .. TotalClusters + 1)
             = IF 2 > TotalClusters + 1 THEN 0 ELSE TotalClusters + 1 - 2 + 1
    BY <1>1, FS_Interval
  <2>2. TotalClusters > 0
    BY Constants
  <2>3. QED
    BY <1>1, <2>1, <2>2 DEF Clusters
<1>4. f \in [I -> Clusters]
  OBVIOUS
<1>5. \A x, y \in I : f[x] = f[y] => x = y
  OBVIOUS
<1> HIDE DEF I, f
<1>6. ~ (Cardinality(Clusters) < Cardinality(I))
  BY <1>2, <1>3, <1>4, <1>5, FS_PigeonHole
<1>7. QED
  BY <1>1, <1>2, <1>3, <1>6

(* The chain from a start: it ends at an end mark, all its clusters are in *)
(* use, and it passes none twice.                                          *)
LEMMA ChainFromStart ==
  ASSUME NEW t \in Table, Sound(t), NEW c, Starts(t, c)
  PROVE  /\ IsChain(t, c, Chain_in(t, c))
         /\ Len(Chain_in(t, c)) <= TotalClusters
         /\ \A i \in 1 .. Len(Chain_in(t, c)) : Chain_in(t, c)[i] \in InUse(t)
         /\ \A i, j \in 1 .. Len(Chain_in(t, c)) :
              Chain_in(t, c)[i] = Chain_in(t, c)[j] => i = j
<1> DEFINE s == Chain_in(t, c)
<1>1. c \in Nodes /\ c \in InUse(t)
  BY Constants DEF Starts, InUse
<1>2. IsTrace(t, c, s) /\ (Len(s) = TotalClusters + 1 \/ IsChain(t, c, s))
  BY <1>1, ChainIsTrace
<1> HIDE DEF s
<1>3. \A i \in 1 .. Len(s) : s[i] \in InUse(t) /\ s[i] \in Clusters
  BY <1>1, <1>2, TraceInUse DEF InUse
<1>4. \A i, j \in 1 .. Len(s) : s[i] = s[j] => i = j
  BY <1>2, Meet
<1>5. Len(s) <= TotalClusters /\ Len(s) \in Nat
  BY <1>2, <1>3, <1>4, Pigeons DEF IsTrace
<1>6. IsChain(t, c, s)
  BY <1>2, <1>5, Constants
<1>7. QED
  BY <1>3, <1>4, <1>5, <1>6 DEF s

LEMMA ChainEnd ==
  ASSUME NEW t \in Table, Sound(t), NEW c, Starts(t, c)
  PROVE  /\ Last(Chain_in(t, c)) \in InUse(t)
         /\ t[Last(Chain_in(t, c))] = Eoc
         /\ Last(Chain_in(t, c)) \in ToSet(Chain_in(t, c))
<1> DEFINE s == Chain_in(t, c)
<1>1. IsChain(t, c, s) /\ \A i \in 1 .. Len(s) : s[i] \in InUse(t)
  BY ChainFromStart
<1> HIDE DEF s
<1>2. s \in Seq(Nodes) /\ Len(s) \in 1 .. Len(s) /\ Next_in(t, s[Len(s)]) = Invalid
  BY <1>1, Constants DEF IsChain, IsTrace
<1>3. Last(s) = s[Len(s)] /\ s[Len(s)] \in InUse(t) /\ Last(s) \in ToSet(s)
  BY <1>1, <1>2 DEF Last, ToSet
<1>4. t[s[Len(s)]] = Eoc
  BY <1>2, <1>3, NextInUse
<1>5. QED
  BY <1>3, <1>4 DEF s

LEMMA ChainsApart ==
  ASSUME NEW t \in Table, Sound(t),
         NEW c, NEW d, Starts(t, c), Starts(t, d), c # d
  PROVE  ToSet(Chain_in(t, c)) \cap ToSet(Chain_in(t, d)) = {}
<1>1. IsTrace(t, c, Chain_in(t, c)) /\ IsTrace(t, d, Chain_in(t, d))
  BY ChainFromStart DEF IsChain
<1>2. /\ DOMAIN Chain_in(t, c) = 1 .. Len(Chain_in(t, c))
      /\ DOMAIN Chain_in(t, d) = 1 .. Len(Chain_in(t, d))
  BY <1>1 DEF IsTrace
<1>3. QED
  BY <1>1, <1>2, Meet DEF ToSet

(* The set of clusters of a chain: it has its start and is closed.         *)
LEMMA ChainSet ==
  ASSUME NEW t \in Table, Sound(t), NEW c, Starts(t, c)
  PROVE  /\ c \in ToSet(Chain_in(t, c)) /\ ToSet(Chain_in(t, c)) \subseteq InUse(t)
         /\ \A d \in ToSet(Chain_in(t, c)) :
              Next_in(t, d) # Invalid => Next_in(t, d) \in ToSet(Chain_in(t, c))
<1> DEFINE s == Chain_in(t, c)
<1>1. /\ IsChain(t, c, s)
      /\ \A i \in 1 .. Len(s) : s[i] \in InUse(t)
  BY ChainFromStart
<1> HIDE DEF s
<1>2. s \in Seq(Nodes) /\ DOMAIN s = 1 .. Len(s) /\ Len(s) \in Nat \ {0} /\ s[1] = c
      /\ Follows(t, s) /\ Next_in(t, s[Len(s)]) = Invalid
  BY <1>1, Constants DEF IsChain, IsTrace
<1>3. ToSet(s) = {s[i] : i \in 1 .. Len(s)}
  BY <1>2 DEF ToSet
<1>4. c \in ToSet(s) /\ ToSet(s) \subseteq InUse(t)
  <2>1. 1 \in 1 .. Len(s)
    BY <1>2
  <2>2. QED
    BY <2>1, <1>1, <1>2, <1>3
<1>5. ASSUME NEW d \in ToSet(s), Next_in(t, d) # Invalid  PROVE Next_in(t, d) \in ToSet(s)
  <2>1. PICK i \in 1 .. Len(s) : d = s[i]
    BY <1>3
  <2>2. i \in 1 .. Len(s) - 1 /\ i + 1 \in 1 .. Len(s)
    BY <1>2, <1>5, <2>1
  <2>3. s[i + 1] = Next_in(t, s[i])
    BY <1>2, <2>2 DEF Follows
  <2>4. QED
    BY <1>3, <2>1, <2>2, <2>3
<1>6. QED
  BY <1>4, <1>5 DEF s

(* Any closed set with the start has the chain.                            *)
LEMMA ChainWithin ==
  ASSUME NEW t \in Table, NEW c \in Nodes, NEW T, c \in T,
         \A d \in T : Next_in(t, d) # Invalid => Next_in(t, d) \in T
  PROVE  ToSet(Chain_in(t, c)) \subseteq T /\ Last(Chain_in(t, c)) \in ToSet(Chain_in(t, c))
         /\ c \in ToSet(Chain_in(t, c))
<1> DEFINE s == Chain_in(t, c)
<1>1. IsTrace(t, c, s)
  BY ChainIsTrace
<1> HIDE DEF s
<1>2. s \in Seq(Nodes) /\ DOMAIN s = 1 .. Len(s) /\ Len(s) \in 1 .. Len(s) /\ 1 \in 1 .. Len(s) /\ s[1] = c
  BY <1>1, Constants DEF IsTrace
<1>3. \A i \in 1 .. Len(s) : s[i] \in T
  BY <1>1, TraceWithin
<1>4. QED
  BY <1>2, <1>3 DEF s, ToSet, Last

LEMMA LastOfChain ==
  ASSUME NEW t \in Table, NEW c \in Nodes
  PROVE  Last(Chain_in(t, c)) \in ToSet(Chain_in(t, c))
<1>1. \A d \in Nodes : Next_in(t, d) # Invalid => Next_in(t, d) \in Nodes
  BY NextType
<1>2. QED
  BY <1>1, ChainWithin

-----------------------------------------------------------------------------
(* What the writes to a table do to it.                                    *)

Writes_entry(t, u, c, value) ==
  u \in Table /\ u[c] = value /\ \A d \in Clusters : d # c => u[d] = t[d]

LEMMA EntryWritten ==
  ASSUME TypeOK, NEW c, NEW value \in Clusters \cup {Free, Eoc}, Write_fat_entry(c, value)
  PROVE  Writes_entry(fat, fat', c, value) /\ data' = data /\ c \in Clusters
BY DEF TypeOK, Table, Write_fat_entry, Writes_entry

(* A free cluster is marked as the end of a chain.                         *)
LEMMA MarkedTable ==
  ASSUME NEW t \in Table, Sound(t), NEW c \in Clusters, t[c] = Free,
         NEW u, Writes_entry(t, u, c, Eoc)
  PROVE  /\ u \in Table /\ Sound(u) /\ Starts(u, c) /\ u[c] = Eoc
         /\ \A d : Starts(t, d) => Starts(u, d) /\ d # c
         /\ \A d \in InUse(t) : d \in InUse(u) /\ u[d] = t[d]
<1>1. u \in Table /\ u[c] = Eoc /\ \A d \in Clusters : d # c => u[d] = t[d]
  BY DEF Writes_entry
<1>2. \A d \in Clusters : t[d] # c
  BY Constants DEF Sound
<1>3. Sound(u)
  <2>1. SUFFICES ASSUME NEW d \in Clusters, u[d] \in Clusters
                 PROVE  /\ u[u[d]] # Free
                        /\ \A e \in Clusters : u[e] = u[d] => e = d
    BY DEF Sound
  <2>2. d # c /\ u[d] = t[d] /\ t[d] \in Clusters
    BY <1>1, <2>1, Constants
  <2>3. t[t[d]] # Free /\ \A e \in Clusters : t[e] = t[d] => e = d
    BY <2>2 DEF Sound
  <2>4. u[u[d]] # Free
    BY <1>1, <2>2, <2>3, Constants
  <2>5. ASSUME NEW e \in Clusters, u[e] = u[d]  PROVE e = d
    <3>1. e # c
      BY <1>1, <2>1, <2>5, Constants
    <3>2. QED
      BY <1>1, <2>2, <2>3, <2>5, <3>1
  <2>6. QED
    BY <2>4, <2>5
<1>4. Starts(u, c)
  BY <1>1, <1>2, Constants DEF Starts
<1>5. ASSUME NEW d, Starts(t, d)  PROVE Starts(u, d) /\ d # c
  BY <1>1, <1>5, Constants DEF Starts
<1>6. QED
  BY <1>1, <1>3, <1>4, <1>5 DEF InUse

(* A cluster in use is given a new successor that no other leads to.       *)
LEMMA LinkedTable ==
  ASSUME NEW t \in Table, Sound(t), NEW c \in InUse(t), NEW new, Starts(t, new), c # new,
         t[new] = Eoc, NEW u, Writes_entry(t, u, c, new)
  PROVE  /\ u \in Table /\ Sound(u) /\ u[new] = Eoc /\ u[c] = new
         /\ \A d : Starts(t, d) /\ d # new => Starts(u, d)
         /\ InUse(u) = InUse(t) /\ \A d \in Clusters : d # c => u[d] = t[d]
<1>1. new \in Clusters /\ t[new] # Free /\ c \in Clusters /\ t[c] # Free
  BY DEF Starts, InUse
<1>2. u \in Table /\ u[c] = new /\ \A d \in Clusters : d # c => u[d] = t[d]
  BY <1>1 DEF Writes_entry
<1>3. \A d \in Clusters : t[d] # new
  BY DEF Starts
<1>4. Sound(u)
  <2>1. SUFFICES ASSUME NEW d \in Clusters, u[d] \in Clusters
                 PROVE  /\ u[u[d]] # Free
                        /\ \A e \in Clusters : u[e] = u[d] => e = d
    BY DEF Sound
  <2>2. CASE d = c
    BY <1>1, <1>2, <1>3, <2>2
  <2>3. CASE d # c
    <3>1. u[d] = t[d] /\ t[d] \in Clusters /\ t[d] # new
      BY <1>2, <1>3, <2>1, <2>3
    <3>2. t[t[d]] # Free /\ \A e \in Clusters : t[e] = t[d] => e = d
      BY <3>1 DEF Sound
    <3>3. u[u[d]] # Free
      BY <1>1, <1>2, <3>1, <3>2, Constants
    <3>4. ASSUME NEW e \in Clusters, u[e] = u[d]  PROVE e = d
      <4>1. e # c
        BY <1>2, <3>1, <3>4
      <4>2. QED
        BY <1>2, <3>1, <3>2, <3>4, <4>1
    <3>5. QED
      BY <3>3, <3>4
  <2>4. QED
    BY <2>2, <2>3
<1>5. ASSUME NEW d, Starts(t, d), d # new  PROVE Starts(u, d)
  <2>1. d \in Clusters /\ t[d] # Free /\ \A e \in Clusters : t[e] # d
    BY <1>5 DEF Starts
  <2>2. u[d] # Free
    BY <1>1, <1>2, <2>1, Constants
  <2>3. \A e \in Clusters : u[e] # d
    BY <1>2, <1>5, <2>1
  <2>4. QED
    BY <2>1, <2>2, <2>3 DEF Starts
<1>6. InUse(u) = InUse(t)
  BY <1>1, <1>2, Constants DEF InUse
<1>7. u[new] = Eoc
  BY <1>1, <1>2
<1>8. QED
  BY <1>2, <1>4, <1>5, <1>6, <1>7

(* The first cluster of a chain is freed; the chain goes on behind it.     *)
LEMMA FreedTable ==
  ASSUME NEW t \in Table, Sound(t), NEW c, Starts(t, c),
         NEW u, Writes_entry(t, u, c, Free)
  PROVE  /\ u \in Table /\ Sound(u) /\ u[c] = Free
         /\ \A d : Starts(t, d) /\ d # c => Starts(u, d)
         /\ t[c] = Eoc \/ (Starts(u, t[c]) /\ t[c] # c /\ ~ Starts(t, t[c]))
         /\ \A d \in Clusters : d # c => u[d] = t[d]
         /\ InUse(u) = InUse(t) \ {c}
<1>1. c \in Clusters /\ t[c] # Free /\ \A d \in Clusters : t[d] # c
  BY DEF Starts
<1>2. u \in Table /\ u[c] = Free /\ \A d \in Clusters : d # c => u[d] = t[d]
  BY <1>1 DEF Writes_entry
<1>3. Sound(u)
  <2>1. SUFFICES ASSUME NEW d \in Clusters, u[d] \in Clusters
                 PROVE  /\ u[u[d]] # Free
                        /\ \A e \in Clusters : u[e] = u[d] => e = d
    BY DEF Sound
  <2>2. d # c /\ u[d] = t[d] /\ t[d] \in Clusters /\ t[d] # c
    BY <1>1, <1>2, <2>1, Constants
  <2>3. t[t[d]] # Free /\ \A e \in Clusters : t[e] = t[d] => e = d
    BY <2>2 DEF Sound
  <2>4. u[u[d]] # Free
    BY <1>2, <2>2, <2>3
  <2>5. ASSUME NEW e \in Clusters, u[e] = u[d]  PROVE e = d
    <3>1. e # c
      BY <1>2, <2>1, <2>5, Constants
    <3>2. QED
      BY <1>2, <2>2, <2>3, <2>5, <3>1
  <2>6. QED
    BY <2>4, <2>5
<1>4. ASSUME NEW d, Starts(t, d), d # c  PROVE Starts(u, d)
  <2>1. d \in Clusters /\ t[d] # Free /\ \A e \in Clusters : t[e] # d
    BY <1>4 DEF Starts
  <2>2. u[d] # Free /\ \A e \in Clusters : u[e] # d
    BY <1>2, <1>4, <2>1, Constants
  <2>3. QED
    BY <2>1, <2>2 DEF Starts
<1>5. ASSUME t[c] # Eoc  PROVE Starts(u, t[c]) /\ t[c] # c /\ ~ Starts(t, t[c])
  <2>1. t[c] \in Clusters /\ t[c] # c
    BY <1>1, <1>5, TableType
  <2>2. t[t[c]] # Free /\ \A e \in Clusters : t[e] = t[c] => e = c
    BY <1>1, <2>1 DEF Sound
  <2>3. u[t[c]] # Free
    BY <1>2, <2>1, <2>2
  <2>4. \A e \in Clusters : u[e] # t[c]
    BY <1>2, <2>1, <2>2, Constants
  <2>5. ~ Starts(t, t[c])
    BY <1>1 DEF Starts
  <2>6. QED
    BY <2>1, <2>3, <2>4, <2>5 DEF Starts
<1>6. InUse(u) = InUse(t) \ {c}
  BY <1>1, <1>2 DEF InUse
<1>7. QED
  BY <1>2, <1>3, <1>4, <1>5, <1>6

-----------------------------------------------------------------------------
(* What the writes to a table do to a chain.                               *)

(* A chain stays as it is when its clusters keep their entries.            *)
LEMMA ChainKept ==
  ASSUME NEW t \in Table, Sound(t), NEW c, Starts(t, c), NEW u \in Table,
         \A d \in ToSet(Chain_in(t, c)) : u[d] = t[d]
  PROVE  Chain_in(u, c) = Chain_in(t, c)
<1> DEFINE s == Chain_in(t, c)
<1>1. IsChain(t, c, s) /\ \A i \in 1 .. Len(s) : s[i] \in InUse(t)
  BY ChainFromStart
<1>2. ToSet(s) = {s[i] : i \in 1 .. Len(s)}
  BY <1>1 DEF ToSet, IsChain, IsTrace
<1>3. \A i \in 1 .. Len(s) : u[s[i]] = t[s[i]]
  BY <1>2
<1> HIDE DEF s
<1>4. \A i \in 1 .. Len(s) : Next_in(u, s[i]) = Next_in(t, s[i])
  BY <1>3 DEF Next_in
<1>5. s \in Seq(Nodes) /\ Len(s) \in Nat \ {0} /\ Follows(t, s) /\ Next_in(t, s[Len(s)]) = Invalid
  BY <1>1, Constants DEF IsChain, IsTrace
<1>6. Follows(u, s)
  <2>1. \A i \in 1 .. Len(s) - 1 : i \in 1 .. Len(s)
    BY <1>5
  <2>2. QED
    BY <1>4, <1>5, <2>1 DEF Follows
<1>7. Next_in(u, s[Len(s)]) = Invalid
  BY <1>4, <1>5
<1>8. IsChain(u, c, s)
  BY <1>1, <1>6, <1>7 DEF IsChain, IsTrace
<1>9. c \in Nodes
  BY Constants DEF Starts
<1>10. QED
  BY <1>8, <1>9, ChainUnique DEF s

(* A chain whose cluster k gets a new successor.                           *)
LEMMA ChainLinked ==
  ASSUME NEW t \in Table, Sound(t), NEW c, Starts(t, c),
         NEW new, Starts(t, new), new # c, t[new] = Eoc,
         NEW k \in 1 .. Len(Chain_in(t, c)),
         NEW u, Writes_entry(t, u, Chain_in(t, c)[k], new)
  PROVE  /\ IsChain(u, c, Chain_in(u, c)) /\ Len(Chain_in(u, c)) = k + 1
         /\ Chain_in(u, c)[k + 1] = new
         /\ \A i \in 1 .. k : Chain_in(u, c)[i] = Chain_in(t, c)[i]
         /\ Chain_in(t, c)[k] # new
<1> DEFINE s == Chain_in(t, c)
           v == [i \in 1 .. k + 1 |-> IF i = k + 1 THEN new ELSE s[i]]
<1>1. /\ IsChain(t, c, s) /\ Len(s) <= TotalClusters
      /\ \A i \in 1 .. Len(s) : s[i] \in InUse(t)
      /\ \A i, j \in 1 .. Len(s) : s[i] = s[j] => i = j
  BY ChainFromStart
<1>2. s \in Seq(Nodes) /\ Len(s) \in Nat \ {0} /\ s[1] = c /\ Follows(t, s) /\ k \in 1 .. Len(s)
  BY <1>1, Constants DEF IsChain, IsTrace
<1>3. Writes_entry(t, u, s[k], new)
  OBVIOUS
<1>4. new \in Clusters /\ new \in InUse(t)
  BY DEF Starts, InUse
<1>5. \A i \in 1 .. Len(s) : s[i] # new
  <2>1. ASSUME NEW i \in 1 .. Len(s), s[i] = new  PROVE FALSE
    <3>1. IsTrace(t, new, Chain_in(t, new)) /\ 1 \in 1 .. Len(Chain_in(t, new))
          /\ Chain_in(t, new)[1] = new
      BY ChainFromStart, Constants DEF IsChain, IsTrace
    <3>2. IsTrace(t, c, s) /\ s[i] = Chain_in(t, new)[1]
      BY <1>1, <2>1, <3>1 DEF IsChain
    <3>3. c = new
      BY <3>1, <3>2, Meet
    <3>4. QED
      BY <3>3
  <2>2. QED
    BY <2>1
<1>6. s[k] \in InUse(t) /\ s[k] \in Clusters
  BY <1>1, <1>2 DEF InUse
<1>7. /\ u \in Table /\ u[s[k]] = new /\ u[new] = Eoc
      /\ \A i \in 1 .. Len(s) : i # k => u[s[i]] = t[s[i]]
  <2>1. \A d \in Clusters : d # s[k] => u[d] = t[d]
    BY <1>3, <1>6 DEF Writes_entry
  <2>2. u \in Table /\ u[s[k]] = new
    BY <1>3, <1>4, <1>6 DEF Writes_entry
  <2>3. QED
    BY <2>1, <2>2, <1>1, <1>2, <1>4, <1>5 DEF InUse
<1> HIDE DEF s
<1>8. k + 1 \in Nat /\ k \in Nat
  BY <1>2
<1>9. v \in Seq(Nodes) /\ Len(v) = k + 1 /\ v[k + 1] = new /\ \A i \in 1 .. k : v[i] = s[i]
  <2>1. \A i \in 1 .. k + 1 : i # k + 1 => i \in 1 .. Len(s)
    BY <1>2
  <2>2. v \in [1 .. k + 1 -> Nodes]
    BY <1>2, <1>4, <2>1, Constants
  <2>3. v \in Seq(Nodes) /\ Len(v) = k + 1
    BY <1>8, <2>2
  <2>4. k + 1 \in 1 .. k + 1 /\ \A i \in 1 .. k : i \in 1 .. k + 1 /\ i # k + 1
    BY <1>8
  <2>5. QED
    BY <2>3, <2>4
<1> HIDE DEF v
<1>10. Follows(u, v)
  <2>0. Len(v) - 1 = k
    BY <1>8, <1>9
  <2>1. SUFFICES ASSUME NEW i \in 1 .. k
                 PROVE  v[i + 1] = Next_in(u, v[i]) /\ v[i + 1] # Invalid
    BY <2>0 DEF Follows
  <2>2. i \in 1 .. Len(s) /\ v[i] = s[i] /\ s[i] \in Clusters
    BY <1>1, <1>2, <1>9 DEF InUse
  <2>3. CASE i = k
    BY <2>2, <2>3, <1>4, <1>7, <1>9, Constants DEF Next_in
  <2>4. CASE i # k
    <3>1. i \in 1 .. Len(s) - 1 /\ i + 1 \in 1 .. k
      BY <1>2, <2>4
    <3>2. s[i + 1] = Next_in(t, s[i]) /\ s[i + 1] # Invalid /\ v[i + 1] = s[i + 1]
      BY <1>2, <1>9, <3>1 DEF Follows
    <3>3. Next_in(u, s[i]) = Next_in(t, s[i])
      BY <1>7, <2>2, <2>4 DEF Next_in
    <3>4. QED
      BY <2>2, <3>2, <3>3
  <2>5. QED
    BY <2>3, <2>4
<1>11. Next_in(u, v[Len(v)]) = Invalid
  BY <1>7, <1>9 DEF Next_in
<1>12. v[1] = c
  BY <1>2, <1>9
<1>13. Len(v) \in 1 .. TotalClusters + 1
  BY <1>1, <1>2, <1>9, Constants
<1>14. IsChain(u, c, v)
  BY <1>9, <1>10, <1>11, <1>12, <1>13 DEF IsChain, IsTrace
<1>15. Chain_in(u, c) = v
  <2>1. c \in Nodes
    BY Constants DEF Starts
  <2>2. QED
    BY <2>1, <1>7, <1>14, ChainUnique
<1>16. s[k] # new
  BY <1>2, <1>5
<1>17. QED
  BY <1>9, <1>14, <1>15, <1>16 DEF s

(* The chain that goes on from a cluster of a chain ends where that does.  *)
LEMMA RestOfChain ==
  ASSUME NEW t \in Table, Sound(t), NEW c, Starts(t, c),
         NEW d \in ToSet(Chain_in(t, c))
  PROVE  /\ ToSet(Chain_in(t, d)) \subseteq ToSet(Chain_in(t, c))
         /\ Last(Chain_in(t, d)) = Last(Chain_in(t, c))
         /\ d \in ToSet(Chain_in(t, d)) /\ d \in InUse(t)
         /\ Last(Chain_in(t, d)) \in ToSet(Chain_in(t, c))
         /\ \A e \in ToSet(Chain_in(t, d)) :
              \E j, k \in 1 .. Len(Chain_in(t, c)) :
                j <= k /\ d = Chain_in(t, c)[j] /\ e = Chain_in(t, c)[k]
<1> DEFINE s == Chain_in(t, c)
<1>1. /\ IsChain(t, c, s) /\ \A i \in 1 .. Len(s) : s[i] \in InUse(t)
  BY ChainFromStart
<1>2. s \in Seq(Nodes) /\ Len(s) \in Nat \ {0} /\ Len(s) <= TotalClusters + 1
      /\ Follows(t, s) /\ Next_in(t, s[Len(s)]) = Invalid /\ ToSet(s) = {s[i] : i \in 1 .. Len(s)}
  BY <1>1, Constants DEF IsChain, IsTrace, ToSet
<1>3. PICK k \in 1 .. Len(s) : d = s[k]
  BY <1>2
<1> DEFINE v == [i \in 1 .. Len(s) - k + 1 |-> s[k + i - 1]]
<1>4. d \in InUse(t) /\ d \in Nodes
  BY <1>1, <1>3, Constants DEF InUse
<1>5. ToSet(Chain_in(t, d)) \subseteq ToSet(s) /\ d \in ToSet(Chain_in(t, d))
  BY <1>4, ChainSet, ChainWithin
<1> HIDE DEF s
<1>6. Len(s) - k + 1 \in Nat \ {0} /\ k \in Nat
  BY <1>2
<1>7. v \in Seq(Nodes) /\ Len(v) = Len(s) - k + 1 /\ \A i \in 1 .. Len(v) : v[i] = s[k + i - 1]
  <2>1. \A i \in 1 .. Len(s) - k + 1 : k + i - 1 \in 1 .. Len(s)
    BY <1>2
  <2>2. v \in [1 .. Len(s) - k + 1 -> Nodes]
    BY <1>2, <2>1
  <2>3. \A n \in Nat : \A w \in [1 .. n -> Nodes] : w \in Seq(Nodes) /\ Len(w) = n
    OBVIOUS
  <2>4. v \in Seq(Nodes) /\ Len(v) = Len(s) - k + 1
    BY <1>6, <2>2, <2>3
  <2>5. QED
    BY <2>4
<1> HIDE DEF v
<1>8. Follows(t, v)
  <2>1. SUFFICES ASSUME NEW i \in 1 .. Len(v) - 1
                 PROVE  v[i + 1] = Next_in(t, v[i]) /\ v[i + 1] # Invalid
    BY DEF Follows
  <2>2. /\ k + i - 1 \in 1 .. Len(s) - 1 /\ i \in 1 .. Len(v) /\ i + 1 \in 1 .. Len(v)
        /\ k + (i + 1) - 1 = (k + i - 1) + 1
    BY <1>2, <1>6, <1>7
  <2>3. s[(k + i - 1) + 1] = Next_in(t, s[k + i - 1]) /\ s[(k + i - 1) + 1] # Invalid
    BY <1>2, <2>2 DEF Follows
  <2>4. QED
    BY <1>7, <2>2, <2>3
<1>9. v[Len(v)] = s[Len(s)] /\ v[1] = d
  <2>1. k + (Len(s) - k + 1) - 1 = Len(s) /\ k + 1 - 1 = k
    BY <1>2, <1>6
  <2>2. Len(v) \in 1 .. Len(v) /\ 1 \in 1 .. Len(v)
    BY <1>6, <1>7
  <2>3. QED
    BY <1>3, <1>7, <2>1, <2>2
<1>10. Len(v) \in 1 .. TotalClusters + 1
  BY <1>2, <1>6, <1>7, Constants
<1>11. IsChain(t, d, v)
  BY <1>2, <1>7, <1>8, <1>9, <1>10 DEF IsChain, IsTrace
<1>12. Chain_in(t, d) = v
  BY <1>4, <1>11, ChainUnique
<1>13. Last(Chain_in(t, d)) = Last(s)
  BY <1>9, <1>12 DEF Last
<1>14. Last(s) \in ToSet(s)
  BY <1>2 DEF Last
<1>15. ASSUME NEW e \in ToSet(Chain_in(t, d))
       PROVE  \E j, m \in 1 .. Len(s) : j <= m /\ d = s[j] /\ e = s[m]
  <2>1. PICK i \in 1 .. Len(v) : e = v[i]
    BY <1>7, <1>12, <1>15 DEF ToSet
  <2>2. k + i - 1 \in 1 .. Len(s) /\ k <= k + i - 1
    BY <1>2, <1>6, <1>7
  <2>3. QED
    BY <1>3, <1>7, <2>1, <2>2
<1>16. QED
  BY <1>4, <1>5, <1>13, <1>14, <1>15 DEF s

-----------------------------------------------------------------------------
(* The call in progress.                                                   *)

LEMMA Busy ==
  ASSUME TypeOK, op.pc # "idle"
  PROVE  op \in Operation /\ op # NoOp /\ op.pc \in Steps
BY DEF TypeOK, NoOp, Operation

LEMMA Quiet ==
  ASSUME TypeOK, op.pc = "idle"
  PROVE  op = NoOp
BY DEF TypeOK, Operation, Steps

LEMMA BeginIs ==
  ASSUME NEW o \in Operation
  PROVE  /\ Begin(o) \in Operation
         /\ Begin(o).pc = IF o.first = 0 THEN "claim" ELSE "fill"
         /\ Begin(o).kind = o.kind /\ Begin(o).name = o.name /\ Begin(o).first = o.first
         /\ Begin(o).cur = o.cur /\ Begin(o).size = o.size /\ Begin(o).pos = o.pos
         /\ Begin(o).text = o.text /\ Begin(o).todo = o.todo /\ Begin(o).new = o.new
         /\ Begin(o).source = o.source /\ Begin(o).excused = o.excused
BY DEF Begin, Operation, Steps

LEMMA ToEndIs ==
  ASSUME NEW o \in Operation, NEW text \in Seq(Bytes), NEW end \in Nodes
  PROVE  LET e == ToEnd(o, text, end) IN
         /\ e \in Operation
         /\ e.pc = IF o.first = 0 THEN "claim" ELSE "fill"
         /\ e.kind = o.kind /\ e.name = o.name /\ e.first = o.first
         /\ e.cur = end /\ e.size = o.size /\ e.pos = o.size
         /\ e.text = text /\ e.todo = text /\ e.new = o.new /\ e.source = o.source
         /\ e.excused = (o.excused \/ end # Last(Chain(o.first))
                           \/ ~ (Accountable \/ InOnePlace(o)))
<1> DEFINE x == o.excused \/ end # Last(Chain(o.first)) \/ ~ (Accountable \/ InOnePlace(o))
           r == [o EXCEPT !.pos = o.size, !.cur = end, !.text = text, !.todo = text,
                          !.excused = x]
<1>1. x \in BOOLEAN
  OBVIOUS
<1>2. ToEnd(o, text, end) = Begin(r)
  BY DEF ToEnd
<1> HIDE DEF x
<1>3. /\ r \in Operation /\ r.kind = o.kind /\ r.name = o.name /\ r.first = o.first
      /\ r.cur = end /\ r.size = o.size /\ r.pos = o.size /\ r.text = text /\ r.todo = text
      /\ r.new = o.new /\ r.source = o.source /\ r.excused = x
  BY <1>1 DEF Operation
<1> HIDE DEF r
<1>4. /\ Begin(r) \in Operation /\ Begin(r).pc = (IF o.first = 0 THEN "claim" ELSE "fill")
      /\ Begin(r).kind = o.kind /\ Begin(r).name = o.name /\ Begin(r).first = o.first
      /\ Begin(r).cur = end /\ Begin(r).size = o.size /\ Begin(r).pos = o.size
      /\ Begin(r).text = text /\ Begin(r).todo = text /\ Begin(r).new = o.new
      /\ Begin(r).source = o.source /\ Begin(r).excused = x
  BY <1>3, BeginIs
<1>5. QED
  BY <1>2, <1>4 DEF x

LEMMA FitsType ==
  ASSUME NEW o \in Operation
  PROVE  /\ Fits(o) \in Nat /\ Fits(o) <= Len(o.todo)
         /\ o.pos % ClusterSize \in 0 .. ClusterSize - 1
         /\ (o.pos % ClusterSize) + Fits(o) <= ClusterSize
         /\ o.todo # <<>> => Fits(o) > 0
<1>1. o.pos \in Nat /\ o.todo \in Seq(Bytes) /\ ClusterSize \in Nat \ {0} /\ Len(o.todo) \in Nat
  BY Constants DEF Operation
<1>2. o.pos % ClusterSize \in 0 .. ClusterSize - 1
  BY <1>1, DivMod
<1> DEFINE at == o.pos % ClusterSize
<1>3. Fits(o) = IF Len(o.todo) > ClusterSize - at THEN ClusterSize - at ELSE Len(o.todo)
  BY DEF Fits
<1>4. o.todo # <<>> => Len(o.todo) > 0
  BY <1>1
<1> HIDE DEF at
<1>5. at \in 0 .. ClusterSize - 1
  BY <1>2 DEF at
<1>6. Fits(o) \in Nat /\ Fits(o) <= Len(o.todo) /\ at + Fits(o) <= ClusterSize
      /\ (o.todo # <<>> => Fits(o) > 0)
  BY <1>1, <1>3, <1>4, <1>5
<1>7. QED
  BY <1>2, <1>6 DEF at

LEMMA MovedIs ==
  ASSUME NEW o \in Operation
  PROVE  /\ Moved(o) \in Operation /\ Moved(o).pc = o.pc
         /\ Moved(o).kind = o.kind /\ Moved(o).name = o.name /\ Moved(o).first = o.first
         /\ Moved(o).cur = o.cur /\ Moved(o).size = o.size
         /\ Moved(o).pos = o.pos + Fits(o) /\ Moved(o).text = o.text
         /\ Moved(o).todo = SubSeq(o.todo, Fits(o) + 1, Len(o.todo))
         /\ Moved(o).new = o.new /\ Moved(o).source = o.source /\ Moved(o).excused = o.excused
<1>1. Fits(o) \in Nat /\ Fits(o) <= Len(o.todo) /\ o.todo \in Seq(Bytes) /\ o.pos \in Nat
  BY FitsType DEF Operation
<1>2. SubSeq(o.todo, Fits(o) + 1, Len(o.todo)) \in Seq(Bytes)
  BY <1>1
<1>3. o.pos + Fits(o) \in Nat
  BY <1>1
<1>4. Moved(o) = [o EXCEPT !.pos = o.pos + Fits(o),
                           !.todo = SubSeq(o.todo, Fits(o) + 1, Len(o.todo))]
  BY DEF Moved, Operation
<1>5. QED
  BY <1>2, <1>3, <1>4 DEF Operation

LEMMA ExtendIs ==
  ASSUME NEW o \in Operation, NEW next \in Nodes \cup {Invalid}
  PROVE  LET e == Extend(o, next) IN
         /\ e \in Operation
         /\ e.pc = (IF next = Invalid THEN "claim" ELSE "fill")
         /\ e.cur = (IF next = Invalid THEN o.cur ELSE next)
         /\ e.excused = (o.excused \/ (next = Invalid /\ Next_cluster(o.cur) # Invalid))
         /\ e.kind = o.kind /\ e.name = o.name /\ e.first = o.first /\ e.size = o.size
         /\ e.pos = o.pos /\ e.text = o.text /\ e.todo = o.todo /\ e.new = o.new
         /\ e.source = o.source
<1>1. CASE next = Invalid
  <2> DEFINE x == o.excused \/ Next_cluster(o.cur) # Invalid
  <2>1. x \in BOOLEAN
    OBVIOUS
  <2>2. Extend(o, next) = [o EXCEPT !.pc = "claim", !.excused = x]
    BY <1>1 DEF Extend
  <2>3. x = (o.excused \/ (next = Invalid /\ Next_cluster(o.cur) # Invalid))
    BY <1>1
  <2> HIDE DEF x
  <2>4. QED
    BY <1>1, <2>1, <2>2, <2>3 DEF Operation, Steps
<1>2. CASE next # Invalid
  <2>1. Extend(o, next) = [o EXCEPT !.pc = "fill", !.cur = next] /\ next \in Nodes
    BY <1>2 DEF Extend
  <2>2. o.excused \in BOOLEAN
    BY DEF Operation
  <2>3. o.excused = (o.excused \/ (next = Invalid /\ Next_cluster(o.cur) # Invalid))
    BY <1>2, <2>2
  <2>4. QED
    BY <1>2, <2>1, <2>2, <2>3 DEF Operation, Steps
<1>3. QED
  BY <1>1, <1>2

(* First_free finds a free cluster when there is one.                      *)
LEMMA FirstFree ==
  ASSUME NEW S \in SUBSET Clusters, S # {}
  PROVE  First_free(S) \in S
<1>1. S \in SUBSET Nat
  BY Constants
<1>2. \E c \in S : \A d \in S : c <= d
  BY <1>1, Least
<1>3. QED
  BY <1>2 DEF First_free

(* With careful use no fault hits a deletion.                              *)
LEMMA FaultIs ==
  ASSUME TypeOK, NEW kind, Fault(kind)
  PROVE  faults' \in 0 .. MaxFaults /\ faults' > 0 /\ (CarefulUse => op.kind # "delete")
BY FilesAssumption DEF Fault, TypeOK, CarefulUse

-----------------------------------------------------------------------------
(* Types.                                                                  *)

LEMMA NotedDomain ==
  ASSUME TypeOK, NEW n, NEW t, Noted(n, t)
  PROVE  DOMAIN contents' = Name
BY DEF Noted, TypeOK

LEMMA OpenedType ==
  ASSUME TypeOK, NEW n \in Name, dir[n] # Absent,
         NEW kind \in {"write", "append", "copy", "delete"}
  PROVE  Opened(kind, n) \in Operation
<1>1. dir[n] \in [first : Nodes, size : Nat]
  BY DEF TypeOK
<1>2. dir[n].first \in Nodes /\ dir[n].size \in Nat /\ 0 \in Nodes
  BY <1>1, Constants
<1>3. <<>> \in Seq(Bytes)
  OBVIOUS
<1>4. QED
  BY <1>2, <1>3 DEF Opened, Operation, Steps

LEMMA StartType ==
  ASSUME TypeOK, NEW n \in Name,
         \/ Create(n) \/ StartDelete(n)
         \/ \E text \in Text : Write(n, text)
         \/ \E text \in Added : StartAppend(n, text)
         \/ \E m \in Name : StartCopy(n, m)
  PROVE  TypeOK'
<1>1. CASE Create(n)
  <2>1. DOMAIN contents' = Name
    BY <1>1, NotedDomain DEF Create
  <2>2. Entry(0, 0) \in [first : Nodes, size : Nat]
    BY Constants DEF Entry
  <2>3. QED
    BY <1>1, <2>1, <2>2 DEF Create, TypeOK, volume
<1>2. CASE StartDelete(n)
  <2>1. Opened("delete", n) \in Operation
    BY <1>2, OpenedType DEF StartDelete
  <2>2. op' \in Operation
    BY <1>2, <2>1 DEF StartDelete, Operation, Steps
  <2>3. QED
    BY <1>2, <2>2 DEF StartDelete, TypeOK, volume
<1>3. ASSUME NEW text \in Text, Write(n, text)  PROVE TypeOK'
  <2>1. Opened("write", n) \in Operation /\ text \in Seq(Bytes)
    BY <1>3, OpenedType, TextAssumption DEF Write
  <2>2. op' \in Operation
    BY <1>3, <2>1 DEF Write, Operation, Steps
  <2>3. QED
    BY <1>3, <2>2 DEF Write, TypeOK, volume
<1>4. ASSUME NEW text \in Added, StartAppend(n, text)  PROVE TypeOK'
  <2>1. Opened("append", n) \in Operation /\ text \in Seq(Bytes)
    BY <1>4, OpenedType, TextAssumption DEF StartAppend
  <2>2. op' \in Operation
    BY <1>4, <2>1 DEF StartAppend, Operation, Steps
  <2>3. QED
    BY <1>4, <2>2 DEF StartAppend, TypeOK, volume
<1>5. ASSUME NEW m \in Name, StartCopy(n, m)  PROVE TypeOK'
  <2>1. Entry(0, 0) \in [first : Nodes, size : Nat] /\ 0 \in Nodes
    BY Constants DEF Entry
  <2>2. dir[n].first \in Nodes /\ dir[n].size \in Nat
    BY <1>5 DEF StartCopy, TypeOK
  <2>3. SourceFile(n) \in [name : Name, cur : Nodes, pos : Nat, size : Nat]
    BY <2>2 DEF SourceFile
  <2>4. <<>> \in Seq(Bytes)
    OBVIOUS
  <2>5. (~ Accountable /\ dir[n].size > ClusterSize) \in BOOLEAN
    OBVIOUS
  <2>6. op' \in Operation
    BY <1>5, <2>1, <2>3, <2>4, <2>5 DEF StartCopy, Operation, Steps
  <2>7. dir' \in [Name -> {Absent} \cup [first : Nodes, size : Nat]]
    BY <1>5, <2>1 DEF StartCopy, TypeOK
  <2>8. QED
    BY <1>5, <2>6, <2>7 DEF StartCopy, TypeOK, volume
<1>6. QED
  BY <1>1, <1>2, <1>3, <1>4, <1>5

(* What a fault, a cluster and a table entry that are written may be.      *)
LEMMA FaultsType ==
  ASSUME TypeOK, NoFault \/ \E kind : Fault(kind)
  PROVE  faults' \in 0 .. MaxFaults
BY FaultIs DEF NoFault, TypeOK

LEMMA FailType ==
  ASSUME TypeOK, Fail
  PROVE  op' \in {NoOp} \cup Operation /\ DOMAIN contents' = Name
BY NotedDomain DEF Fail

LEMMA EntryType ==
  ASSUME TypeOK, NEW c, NEW value \in Clusters \cup {Free, Eoc}, Write_fat_entry(c, value)
  PROVE  /\ fat' \in [Clusters -> Clusters \cup {Free, Eoc}]
         /\ data' \in [Nodes -> [1 .. ClusterSize -> Bytes]]
BY DEF TypeOK, Write_fat_entry

LEMMA ClusterType ==
  ASSUME TypeOK, NEW c, NEW bytes \in [1 .. ClusterSize -> Bytes], Write_cluster(c, bytes)
  PROVE  /\ fat' \in [Clusters -> Clusters \cup {Free, Eoc}]
         /\ data' \in [Nodes -> [1 .. ClusterSize -> Bytes]]
BY DEF TypeOK, Write_cluster

LEMMA VolumeType ==
  ASSUME TypeOK, UNCHANGED volume
  PROVE  /\ fat' \in [Clusters -> Clusters \cup {Free, Eoc}]
         /\ data' \in [Nodes -> [1 .. ClusterSize -> Bytes]]
BY DEF TypeOK, volume

LEMMA ZeroedType == Zeroed \in [1 .. ClusterSize -> Bytes]
BY DEF Zeroed, Bytes

LEMMA FilledType ==
  ASSUME TypeOK, NEW o \in Operation
  PROVE  Filled(o) \in [1 .. ClusterSize -> Bytes]
<1> DEFINE at == o.pos % ClusterSize
<1>1. Fits(o) \in Nat /\ Fits(o) <= Len(o.todo) /\ at \in Nat
  BY FitsType, Constants
<1>2. o.todo \in Seq(Bytes) /\ o.cur \in Nodes
  BY DEF Operation
<1>3. data[o.cur] \in [1 .. ClusterSize -> Bytes]
  BY <1>2 DEF TypeOK
<1>4. Filled(o) = [i \in 1 .. ClusterSize |->
                     IF i > at /\ i <= at + Fits(o) THEN o.todo[i - at] ELSE data[o.cur][i]]
  BY DEF Filled
<1> HIDE DEF at
<1>5. ASSUME NEW i \in 1 .. ClusterSize, i > at, i <= at + Fits(o)  PROVE o.todo[i - at] \in Bytes
  <2>1. i - at \in 1 .. Len(o.todo)
    BY <1>1, <1>2, <1>5, Constants
  <2>2. QED
    BY <1>2, <2>1
<1>6. QED
  BY <1>3, <1>4, <1>5

LEMMA SeekType ==
  ASSUME TypeOK, Seek
  PROVE  TypeOK'
<1>1. PICK end \in Clusters \cup {Boot} :
        WalkToEnd(op.first, end) /\ op' = ToEnd(op, op.text, end)
  BY DEF Seek
<1>2. op \in Operation /\ op.text \in Seq(Bytes)
  BY Busy DEF Seek, At, Operation
<1>3. op' \in Operation
  BY <1>1, <1>2, ToEndIs DEF Nodes
<1>4. faults' \in 0 .. MaxFaults
  BY <1>1, FaultsType DEF WalkToEnd
<1>5. QED
  BY <1>3, <1>4 DEF Seek, TypeOK, volume

LEMMA EmptyType ==
  ASSUME TypeOK, CallSound, Empty
  PROVE  TypeOK'
<1>1. op \in Operation /\ op.name \in Name
  BY Busy DEF Empty, At, Operation
<1>2. dir' \in [Name -> {Absent} \cup [first : Nodes, size : Nat]]
  <2>1. dir' = [dir EXCEPT ![op.name].size = 0] \/ dir' = dir
    BY DEF Empty, FailedWrite
  <2>2. CASE dir' = dir
    BY <2>2 DEF TypeOK
  <2>3. CASE dir' = [dir EXCEPT ![op.name].size = 0]
    <3>1. dir' = [dir EXCEPT ![op.name] = [dir[op.name] EXCEPT !.size = 0]]
      BY <2>3
    <3>2. dir[op.name] # Absent
      BY DEF Empty, At, CallSound, Writing, Steps
    <3>3. dir[op.name] \in [first : Nodes, size : Nat]
      BY <1>1, <3>2 DEF TypeOK
    <3>4. [dir[op.name] EXCEPT !.size = 0] \in [first : Nodes, size : Nat]
      BY <3>3
    <3>5. QED
      BY <3>1, <3>4 DEF TypeOK
  <2>4. QED
    BY <2>1, <2>2, <2>3
<1>3. op' \in {NoOp} \cup Operation /\ DOMAIN contents' = Name
  <2>1. CASE op' = Begin(op) /\ UNCHANGED contents
    BY <1>1, <2>1, BeginIs DEF TypeOK
  <2>2. CASE Fail
    BY <2>2, FailType
  <2>3. QED
    BY <2>1, <2>2 DEF Empty
<1>4. faults' \in 0 .. MaxFaults
  BY FaultsType DEF Empty, FailedWrite
<1>5. QED
  BY <1>2, <1>3, <1>4 DEF Empty, TypeOK, volume

LEMMA ClaimType ==
  ASSUME TypeOK, Claim
  PROVE  TypeOK'
<1>1. op \in Operation
  BY Busy DEF Claim, At
<1>2. CASE \E c \in FreeClusters :
             /\ \/ c = First_free(FreeClusters) /\ NoFault
                \/ c # First_free(FreeClusters) /\ Fault("read")
             /\ Write_fat_entry(c, Eoc)
             /\ op' = [op EXCEPT !.pc = "zero", !.new = c]
             /\ UNCHANGED contents
  <2>1. PICK c \in FreeClusters : /\ NoFault \/ Fault("read")
                                  /\ Write_fat_entry(c, Eoc)
                                  /\ op' = [op EXCEPT !.pc = "zero", !.new = c]
    BY <1>2
  <2>2. c \in Nodes
    BY Constants DEF FreeClusters
  <2>3. op' \in Operation
    BY <1>1, <2>1, <2>2 DEF Operation, Steps
  <2>4. faults' \in 0 .. MaxFaults
    BY <2>1, FaultsType
  <2>5. /\ fat' \in [Clusters -> Clusters \cup {Free, Eoc}]
        /\ data' \in [Nodes -> [1 .. ClusterSize -> Bytes]]
    BY <2>1, EntryType
  <2>6. QED
    BY <1>2, <2>3, <2>4, <2>5 DEF Claim, TypeOK
<1>3. CASE Fail /\ (NoFault \/ \E kind : Fault(kind))
           /\ (UNCHANGED volume \/ Write_fat_entry(First_free(FreeClusters), Eoc))
  <2>1. faults' \in 0 .. MaxFaults
    BY <1>3, FaultsType
  <2>2. /\ fat' \in [Clusters -> Clusters \cup {Free, Eoc}]
        /\ data' \in [Nodes -> [1 .. ClusterSize -> Bytes]]
    BY <1>3, EntryType, VolumeType
  <2>3. QED
    BY <1>3, <2>1, <2>2, FailType DEF Claim, TypeOK
<1>4. QED
  BY <1>2, <1>3 DEF Claim, FailedWrite

LEMMA ZeroNewType ==
  ASSUME TypeOK, ZeroNew
  PROVE  TypeOK'
<1>1. op \in Operation
  BY Busy DEF ZeroNew, At
<1>2. op' \in Operation
  <2>1. op.new \in Nodes
    BY <1>1 DEF Operation
  <2>2. \/ op' = [op EXCEPT !.pc = "fill", !.first = op.new, !.cur = op.new]
        \/ op' = [op EXCEPT !.pc = "link"]
        \/ op' = [op EXCEPT !.pc = "unclaim"]
    BY DEF ZeroNew, Goto
  <2>3. QED
    BY <1>1, <2>1, <2>2 DEF Operation, Steps
<1>3. faults' \in 0 .. MaxFaults
  BY FaultsType DEF ZeroNew, FailedWrite
<1>4. /\ fat' \in [Clusters -> Clusters \cup {Free, Eoc}]
      /\ data' \in [Nodes -> [1 .. ClusterSize -> Bytes]]
  <2>1. UNCHANGED volume \/ Write_cluster(op.new, Zeroed)
    BY DEF ZeroNew, FailedWrite
  <2>2. QED
    BY <2>1, VolumeType, ClusterType, ZeroedType
<1>5. QED
  BY <1>2, <1>3, <1>4 DEF ZeroNew, TypeOK

LEMMA UnclaimType ==
  ASSUME TypeOK, Unclaim
  PROVE  TypeOK'
<1>1. faults' \in 0 .. MaxFaults
  BY FaultsType DEF Unclaim, FailedWrite
<1>2. /\ fat' \in [Clusters -> Clusters \cup {Free, Eoc}]
      /\ data' \in [Nodes -> [1 .. ClusterSize -> Bytes]]
  <2>1. UNCHANGED volume \/ Write_fat_entry(op.new, Free)
    BY DEF Unclaim, FailedWrite
  <2>2. QED
    BY <2>1, VolumeType, EntryType
<1>3. QED
  BY <1>1, <1>2, FailType DEF Unclaim, TypeOK

LEMMA FillType ==
  ASSUME TypeOK, Fill \/ NothingToFill
  PROVE  TypeOK'
<1>1. op \in Operation
  BY Busy DEF Fill, NothingToFill, At
<1>2. CASE NothingToFill
  <2>1. op' \in Operation
    BY <1>1, <1>2 DEF NothingToFill, Goto, Operation, Steps
  <2>2. QED
    BY <1>2, <2>1 DEF NothingToFill, TypeOK, volume
<1>3. CASE Fill
  <2>1. Moved(op) \in Operation
    BY <1>1, MovedIs
  <2>2. CASE /\ Write_cluster(op.cur, Filled(op))
             /\ IF Moved(op).todo = <<>>
                  THEN op' = [Moved(op) EXCEPT !.pc = "close"] /\ NoFault
                  ELSE \E next \in Clusters \cup {Boot, Invalid} :
                         Follow(op.cur, next) /\ op' = Extend(Moved(op), next)
             /\ UNCHANGED <<dir, contents>>
    <3>1. op' \in Operation /\ (NoFault \/ \E kind : Fault(kind))
      <4>1. CASE Moved(op).todo = <<>>
        BY <2>1, <2>2, <4>1 DEF Operation, Steps
      <4>2. CASE Moved(op).todo # <<>>
        <5>1. PICK next \in Clusters \cup {Boot, Invalid} :
                Follow(op.cur, next) /\ op' = Extend(Moved(op), next)
          BY <2>2, <4>2
        <5>2. op' \in Operation
          BY <2>1, <5>1, ExtendIs DEF Nodes
        <5>3. QED
          BY <5>1, <5>2 DEF Follow
      <4>3. QED
        BY <4>1, <4>2
    <3>2. QED
      BY <1>1, <2>2, <3>1, FaultsType, FilledType, ClusterType DEF TypeOK
  <2>3. CASE /\ \/ Fault("read") /\ UNCHANGED volume
                \/ FailedWrite(Write_cluster(op.cur, Filled(op)), UNCHANGED volume)
             /\ Fail /\ UNCHANGED dir
    <3>1. faults' \in 0 .. MaxFaults
      BY <2>3, FaultsType DEF FailedWrite
    <3>2. UNCHANGED volume \/ Write_cluster(op.cur, Filled(op))
      BY <2>3 DEF FailedWrite
    <3>3. QED
      BY <1>1, <2>3, <3>1, <3>2, FailType, VolumeType, FilledType, ClusterType DEF TypeOK
  <2>4. QED
    BY <1>3, <2>2, <2>3 DEF Fill
<1>4. QED
  BY <1>2, <1>3

LEMMA LinkType ==
  ASSUME TypeOK, Link
  PROVE  TypeOK'
<1>1. op \in Operation /\ op.new \in Nodes
  BY Busy DEF Link, At, Operation
<1>2. CASE \E end \in Clusters \cup {Boot} :
             /\ WalkToEnd(op.cur, end)
             /\ IF end \in Clusters
                  THEN /\ Write_fat_entry(end, op.new)
                       /\ op' = [op EXCEPT !.pc = "mark",
                                           !.excused = @ \/ end # Last(Chain(op.cur))]
                       /\ UNCHANGED contents
                  ELSE Fail /\ UNCHANGED volume
  <2>1. PICK end \in Clusters \cup {Boot} :
             /\ WalkToEnd(op.cur, end)
             /\ IF end \in Clusters
                  THEN /\ Write_fat_entry(end, op.new)
                       /\ op' = [op EXCEPT !.pc = "mark",
                                           !.excused = @ \/ end # Last(Chain(op.cur))]
                       /\ UNCHANGED contents
                  ELSE Fail /\ UNCHANGED volume
    BY <1>2
  <2>2. faults' \in 0 .. MaxFaults
    BY <2>1, FaultsType DEF WalkToEnd
  <2>3. CASE end \notin Clusters
    BY <2>1, <2>2, <2>3, FailType, VolumeType DEF TypeOK, Link
  <2>4. CASE end \in Clusters
    <3> DEFINE x == op.excused \/ end # Last(Chain(op.cur))
    <3>1. x \in BOOLEAN
      OBVIOUS
    <3>2. op' = [op EXCEPT !.pc = "mark", !.excused = x]
      BY <2>1, <2>4
    <3> HIDE DEF x
    <3>3. op' \in Operation
      BY <1>1, <3>1, <3>2 DEF Operation, Steps
    <3>4. fat' = [fat EXCEPT ![end] = op.new] /\ UNCHANGED data /\ DOMAIN contents' = Name
      BY <2>1, <2>4 DEF Write_fat_entry, TypeOK
    <3>5. op.new \in Clusters \cup {Free, Eoc}
      BY <1>1, Constants
    <3>6. fat' \in [Clusters -> Clusters \cup {Free, Eoc}]
      BY <2>4, <3>4, <3>5 DEF TypeOK
    <3>7. QED
      BY <2>2, <3>3, <3>4, <3>6 DEF TypeOK, Link
  <2>5. QED
    BY <2>3, <2>4
<1>3. CASE FailedWrite(Write_fat_entry(Last(Chain(op.cur)), op.new), UNCHANGED volume) /\ Fail
  <2>1. faults' \in 0 .. MaxFaults
    BY <1>3, FaultsType DEF FailedWrite
  <2>2. op.new \in Clusters \cup {Free, Eoc}
    BY <1>1, Constants
  <2>3. UNCHANGED volume \/ Write_fat_entry(Last(Chain(op.cur)), op.new)
    BY <1>3 DEF FailedWrite
  <2>4. QED
    BY <1>3, <2>1, <2>2, <2>3, FailType, VolumeType, EntryType DEF TypeOK, Link
<1>4. QED
  BY <1>2, <1>3 DEF Link

LEMMA MarkType ==
  ASSUME TypeOK, Mark \/ Rezero
  PROVE  TypeOK'
<1>1. op \in Operation /\ op.new \in Nodes
  BY Busy DEF Mark, Rezero, At, Operation
<1>2. op' \in {NoOp} \cup Operation /\ DOMAIN contents' = Name
  <2>1. CASE Fail
    BY <2>1, FailType
  <2>2. CASE UNCHANGED contents /\ \/ op' = [op EXCEPT !.pc = "rezero"]
                                   \/ op' = [op EXCEPT !.pc = "fill", !.cur = op.new]
    BY <1>1, <2>2 DEF TypeOK, Operation, Steps
  <2>3. QED
    BY <2>1, <2>2 DEF Mark, Rezero, Goto
<1>3. faults' \in 0 .. MaxFaults
  BY FaultsType DEF Mark, Rezero, FailedWrite
<1>4. /\ fat' \in [Clusters -> Clusters \cup {Free, Eoc}]
      /\ data' \in [Nodes -> [1 .. ClusterSize -> Bytes]]
  <2>1. UNCHANGED volume \/ Write_fat_entry(op.new, Eoc) \/ Write_cluster(op.new, Zeroed)
    BY DEF Mark, Rezero, FailedWrite
  <2>2. QED
    BY <2>1, VolumeType, EntryType, ClusterType, ZeroedType
<1>5. QED
  BY <1>2, <1>3, <1>4 DEF Mark, Rezero, TypeOK

LEMMA CloseType ==
  ASSUME TypeOK, Close
  PROVE  TypeOK'
<1>1. op \in Operation /\ op.first \in Nodes
  BY Busy DEF Close, At, Operation
<1>2. NewSize(op) \in Nat
  BY <1>1 DEF NewSize, Operation
<1>3. Entry(op.first, NewSize(op)) \in [first : Nodes, size : Nat]
  BY <1>1, <1>2 DEF Entry
<1>4. dir' \in [Name -> {Absent} \cup [first : Nodes, size : Nat]]
  <2>1. dir' = [dir EXCEPT ![op.name] = Entry(op.first, NewSize(op))] \/ dir' = dir
    BY DEF Close, FailedWrite
  <2>2. QED
    BY <1>3, <2>1 DEF TypeOK
<1>5. op' \in {NoOp} \cup Operation /\ DOMAIN contents' = Name
  <2>1. CASE Fail
    BY <2>1, FailType
  <2>2. CASE op' = [op EXCEPT !.pc = "copy", !.size = NewSize(op)] /\ UNCHANGED contents
    BY <1>1, <1>2, <2>2 DEF TypeOK, Operation, Steps
  <2>3. CASE Succeed(op.name, Expected(op))
    BY <2>3, NotedDomain DEF Succeed
  <2>4. QED
    BY <2>1, <2>2, <2>3 DEF Close
<1>6. faults' \in 0 .. MaxFaults
  BY FaultsType DEF Close, FailedWrite
<1>7. QED
  BY <1>4, <1>5, <1>6 DEF Close, TypeOK, volume

(* The steps of a copy, of a deletion, and the machine's stop.             *)
LEMMA ChunkType ==
  ASSUME TypeOK,
         NEW f \in [name : Name, cur : Nodes, pos : Nat, size : Nat], f.pos < f.size
  PROVE  /\ ReadChunk(f).bytes \in Seq(Bytes)
         /\ ReadChunk(f).file \in [name : Name, cur : Nodes, pos : Nat, size : Nat]
         /\ ReadChunk(f).file.name = f.name /\ ReadChunk(f).file.cur = f.cur
         /\ ReadChunk(f).file.size = f.size
<1> DEFINE n == IF f.size - f.pos < ClusterSize THEN f.size - f.pos ELSE ClusterSize
<1>1. n \in Nat /\ n <= ClusterSize
  BY Constants
<1>2. data[f.cur] \in [1 .. ClusterSize -> Bytes]
  BY DEF TypeOK
<1>3. data[f.cur] \in Seq(Bytes) /\ Len(data[f.cur]) = ClusterSize
  BY <1>2, Constants
<1>4. /\ ReadChunk(f).bytes = SubSeq(data[f.cur], 1, n)
      /\ ReadChunk(f).file = [f EXCEPT !.pos = @ + n]
  BY DEF ReadChunk
<1> HIDE DEF n
<1>5. SubSeq(data[f.cur], 1, n) \in Seq(Bytes)
  BY <1>1, <1>3, Constants
<1>6. f.pos + n \in Nat
  BY <1>1
<1>7. /\ [f EXCEPT !.pos = @ + n] \in [name : Name, cur : Nodes, pos : Nat, size : Nat]
      /\ [f EXCEPT !.pos = @ + n].name = f.name /\ [f EXCEPT !.pos = @ + n].cur = f.cur
      /\ [f EXCEPT !.pos = @ + n].size = f.size
  BY <1>6
<1>8. QED
  BY <1>4, <1>5, <1>7

LEMMA CopyType ==
  ASSUME TypeOK, Copy, op.source # <<>>
  PROVE  TypeOK'
<1>1. op \in Operation /\ op.source \in [name : Name, cur : Nodes, pos : Nat, size : Nat]
  BY Busy DEF Copy, At, Operation
<1>2. CASE \/ NoFault /\ Succeed(op.name, contents[op.source.name])
           \/ Fault("read") /\ Fail
  <2>1. op' = NoOp /\ DOMAIN contents' = Name
    BY <1>2, NotedDomain DEF Succeed, Fail
  <2>2. QED
    BY <1>2, <2>1, FaultsType DEF Copy, TypeOK, volume
<1>3. CASE /\ op.source.pos < op.source.size
           /\ \E end \in Clusters \cup {Boot} :
                /\ WalkToEnd(op.first, end)
                /\ op' = [ToEnd(op, ReadChunk(op.source).bytes, end)
                            EXCEPT !.source = ReadChunk(op.source).file]
           /\ UNCHANGED contents
  <2>1. PICK end \in Nodes :
                /\ WalkToEnd(op.first, end)
                /\ op' = [ToEnd(op, ReadChunk(op.source).bytes, end)
                            EXCEPT !.source = ReadChunk(op.source).file]
    BY <1>3 DEF Nodes
  <2>2. ReadChunk(op.source).bytes \in Seq(Bytes)
        /\ ReadChunk(op.source).file \in [name : Name, cur : Nodes, pos : Nat, size : Nat]
    BY <1>1, <1>3, ChunkType
  <2>3. ToEnd(op, ReadChunk(op.source).bytes, end) \in Operation
    BY <1>1, <2>2, ToEndIs
  <2>4. op' \in Operation
    BY <2>1, <2>2, <2>3 DEF Operation
  <2>5. faults' \in 0 .. MaxFaults
    BY <2>1, FaultsType DEF WalkToEnd
  <2>6. QED
    BY <1>3, <2>4, <2>5 DEF Copy, TypeOK, volume
<1>4. QED
  BY <1>2, <1>3 DEF Copy

LEMMA DeleteType ==
  ASSUME TypeOK, FreeNext \/ RemoveEntry \/ Stop
  PROVE  TypeOK'
<1>1. op \in Operation /\ op.cur \in Nodes
  BY Busy DEF FreeNext, RemoveEntry, Stop, At, Operation
<1>2. CASE FreeNext
  <2>1. faults' \in 0 .. MaxFaults
    BY <1>2, FaultsType DEF FreeNext, FailedWrite
  <2>2. op' \in {NoOp} \cup Operation /\ DOMAIN contents' = Name
    <3>1. CASE Fail
      BY <3>1, FailType
    <3>2. CASE op' = [op EXCEPT !.pc = "remove"] /\ UNCHANGED contents
      BY <1>1, <3>2 DEF TypeOK, Operation, Steps
    <3>3. CASE /\ op.cur \in Clusters /\ fat[op.cur] # Eoc
               /\ op' = [op EXCEPT !.cur = fat[op.cur]] /\ UNCHANGED contents
      <4>1. fat[op.cur] \in Nodes
        BY <3>3, Constants DEF TypeOK
      <4>2. QED
        BY <1>1, <3>3, <4>1 DEF TypeOK, Operation
    <3>4. QED
      BY <1>2, <3>1, <3>2, <3>3 DEF FreeNext, Goto
  <2>3. /\ fat' \in [Clusters -> Clusters \cup {Free, Eoc}]
        /\ data' \in [Nodes -> [1 .. ClusterSize -> Bytes]]
    <3>1. UNCHANGED volume \/ Write_fat_entry(op.cur, Free)
      BY <1>2 DEF FreeNext, FailedWrite
    <3>2. QED
      BY <3>1, VolumeType, EntryType
  <2>4. QED
    BY <1>2, <2>1, <2>2, <2>3 DEF FreeNext, TypeOK
<1>3. CASE RemoveEntry
  <2>1. faults' \in 0 .. MaxFaults
    BY <1>3, FaultsType DEF RemoveEntry, FailedWrite
  <2>2. op' = NoOp /\ DOMAIN contents' = Name
    BY <1>3, NotedDomain DEF RemoveEntry, Succeed, Fail
  <2>3. dir' = [dir EXCEPT ![op.name] = Absent] \/ dir' = dir
    BY <1>3 DEF RemoveEntry, FailedWrite
  <2>4. QED
    BY <1>3, <2>1, <2>2, <2>3 DEF RemoveEntry, TypeOK, volume
<1>4. CASE Stop
  BY <1>4, FaultsType, FailType DEF Stop, TypeOK, volume
<1>5. QED
  BY <1>2, <1>3, <1>4

-----------------------------------------------------------------------------
(* The files keep their chains.                                            *)

(* An entry changes at most for the name n, whose chain starts at c.       *)
LEMMA FilesKept ==
  ASSUME FilesSound, NEW n, NEW c,
         \A m \in Whole' : m # n => m \in Whole /\ dir'[m].first = dir[m].first,
         n \in Whole' => dir'[n].first = c,
         c # 0 => Starts(fat', c) /\ \A m \in Whole : m # n => dir[m].first # c,
         \A m \in Whole : Starts(fat, dir[m].first) => Starts(fat', dir[m].first)
  PROVE  FilesSound'
<1>1. SUFFICES ASSUME NEW m \in Whole', dir'[m].first # 0
               PROVE  /\ Starts(fat', dir'[m].first)
                      /\ \A k \in Whole' : dir'[k].first = dir'[m].first => k = m
  BY DEF FilesSound
<1>2. CASE m = n
  BY <1>1, <1>2
<1>3. CASE m # n
  <2>1. m \in Whole /\ dir'[m].first = dir[m].first /\ dir[m].first # 0
    BY <1>1, <1>3
  <2>2. Starts(fat, dir[m].first) /\ \A k \in Whole : dir[k].first = dir[m].first => k = m
    BY <2>1 DEF FilesSound
  <2>3. ASSUME NEW k \in Whole', dir'[k].first = dir'[m].first  PROVE k = m
    <3>1. CASE k = n
      BY <1>1, <1>3, <2>1, <2>3, <3>1
    <3>2. CASE k # n
      BY <2>1, <2>2, <2>3, <3>2
    <3>3. QED
      BY <3>1, <3>2
  <2>4. QED
    BY <2>1, <2>2, <2>3
<1>4. QED
  BY <1>2, <1>3

LEMMA SameFiles ==
  ASSUME FilesSound, \A m \in Whole' : m \in Whole /\ dir'[m].first = dir[m].first,
         \A m \in Whole : Starts(fat, dir[m].first) => Starts(fat', dir[m].first)
  PROVE  FilesSound'
BY DEF FilesSound

(* A call that goes on keeps its file; it may get a new cluster.           *)
LEMMA CallKept ==
  ASSUME CallSound, Writing,
         op'.pc \in Steps \ {"free", "remove", "copy"}, op'.kind = op.kind, op'.name = op.name,
         op'.first = op.first, op.kind = "copy" => op'.source # <<>>,
         dir'[op.name] # Absent, dir'[op.name].first = dir[op.name].first,
         \A m \in Whole' : m \in Whole /\ dir'[m].first = dir[m].first,
         op.first = 0 => op'.cur = 0 /\ op'.pc \in {"open", "seek", "claim", "zero", "unclaim"},
         op.first # 0 => Starts(fat', op.first) /\ op'.cur \in ToSet(Chain_in(fat', op.first)),
         op'.pc \in {"zero", "unclaim", "link"} =>
           Starts(fat', op'.new) /\ FirstOfNone(op'.new) /\ op'.new # op.first,
         op'.pc \notin {"zero", "unclaim", "link"} =>
           op'.new = 0 \/ (op.first # 0 /\ op'.new \in ToSet(Chain_in(fat', op.first))),
         op'.pc \in {"zero", "unclaim", "link", "mark", "rezero"} =>
           op'.new \in Clusters /\ fat'[op'.new] = Eoc
  PROVE  CallSound'
<1>1. /\ op.kind # "delete" /\ (op.kind = "copy" => op.source # <<>>)
      /\ (dir[op.name].first # 0 => op.first = dir[op.name].first)
      /\ (op.first # 0 => \A m \in Whole : dir[m].first = op.first => m = op.name)
  BY DEF CallSound
<1>2. /\ op'.kind # "delete" /\ (op'.kind = "copy" => op'.source # <<>>)
      /\ (op'.pc = "copy" => op'.kind = "copy")
      /\ dir'[op'.name] # Absent
      /\ (dir'[op'.name].first # 0 => op'.first = dir'[op'.name].first)
  BY <1>1
<1>3. IF op'.first = 0
        THEN op'.cur = 0 /\ op'.pc \in {"open", "seek", "claim", "zero", "unclaim", "copy"}
        ELSE /\ Starts(fat', op'.first)
             /\ \A m \in Whole' : dir'[m].first = op'.first => m = op'.name
             /\ op'.cur \in ToSet(Chain_in(fat', op'.first))
  BY <1>1
<1>4. FirstOfNone(op'.new) => \A m \in Whole' : dir'[m].first # op'.new
  BY DEF FirstOfNone
<1>5. QED
  BY <1>2, <1>3, <1>4 DEF CallSound, Writing, Preparing, FirstOfNone, Chain

(* With nothing in progress there is nothing to say about a call.          *)
LEMMA CallOver ==
  ASSUME op' = NoOp
  PROVE  CallSound' /\ DeletionSound' /\ ToldTheTruth' /\ \A n : n \in Whole' <=> n \in Files'
BY DEF NoOp, CallSound, DeletionSound, ToldTheTruth, Writing, Steps, Whole, Files, Deleting

LEMMA AllWhole ==
  ASSUME op.pc \notin {"free", "remove"}
  PROVE  \A n : n \in Whole <=> n \in Name /\ dir[n] # Absent
BY DEF Whole, Files, Deleting

LEMMA AllWholeNext ==
  ASSUME op'.pc \notin {"free", "remove"}
  PROVE  \A n : n \in Whole' <=> n \in Name /\ dir'[n] # Absent
BY DEF Whole, Files, Deleting

LEMMA NotDeleting ==
  ASSUME op'.pc \notin {"free", "remove"}
  PROVE  DeletionSound'
BY DEF DeletionSound

(* A call that gives up leaves the files as they are, whether the sector   *)
(* it failed on was written or not.                                        *)
LEMMA GivesUp ==
  ASSUME VolumeInv, CarefulUse, Writing, op' = NoOp, TypeOK', Sound(fat'),
         \A n \in Name : /\ dir'[n] # Absent => dir[n] # Absent
                         /\ dir'[n].first = dir[n].first,
         \A n \in Whole : Starts(fat, dir[n].first) => Starts(fat', dir[n].first),
         data'[Boot] = data[Boot]
  PROVE  VolumeInv'
<1>1. \A n : n \in Whole <=> n \in Name /\ dir[n] # Absent
  BY AllWhole DEF Writing
<1>2. \A n : n \in Whole' <=> n \in Name /\ dir'[n] # Absent
  BY AllWholeNext DEF NoOp
<1>3. FilesSound'
  BY <1>1, <1>2, SameFiles DEF VolumeInv
<1>4. BootUntouched'
  BY DEF VolumeInv, BootUntouched, Zeroed
<1>5. QED
  BY <1>3, <1>4, CallOver DEF VolumeInv

-----------------------------------------------------------------------------
(* The steps of a call.                                                    *)

(* Starting a call.                                                        *)
LEMMA CreateStep ==
  ASSUME VolumeInv, NEW n \in Name, Create(n)
  PROVE  VolumeInv'
<1>1. TypeOK'
  BY StartType DEF VolumeInv
<1>2. op = NoOp /\ op' = NoOp /\ op.pc = "idle"
  BY Quiet DEF Create, At, VolumeInv
<1>3. CallSound' /\ DeletionSound' /\ ToldTheTruth'
  BY <1>2, CallOver
<1>4. FilesSound'
  <2>1. /\ \A m : m \in Whole <=> m \in Name /\ dir[m] # Absent
        /\ \A m : m \in Whole' <=> m \in Name /\ dir'[m] # Absent
    BY <1>2, AllWhole, AllWholeNext
  <2>2. /\ \A m \in Name : m # n => dir'[m] = dir[m]
        /\ dir'[n].first = 0 /\ fat' = fat
    BY DEF Create, VolumeInv, TypeOK, Entry, volume
  <2>3. QED
    BY <2>1, <2>2, FilesKept DEF VolumeInv
<1>5. QED
  BY <1>1, <1>3, <1>4 DEF VolumeInv, Create, volume, BootUntouched, Zeroed

LEMMA OpenStep ==
  ASSUME VolumeInv, NEW n \in Name,
         \/ StartDelete(n)
         \/ \E text \in Text : Write(n, text)
         \/ \E text \in Added : StartAppend(n, text)
  PROVE  VolumeInv'
<1>1. TypeOK'
  BY StartType DEF VolumeInv
<1>2. op = NoOp /\ op.pc = "idle" /\ dir[n] # Absent /\ UNCHANGED <<fat, data, dir, faults, contents>>
  BY Quiet DEF StartDelete, Write, StartAppend, At, VolumeInv, volume
<1>3. \A m : m \in Whole <=> m \in Name /\ dir[m] # Absent
  BY <1>2, AllWhole
<1>4. \A m : m \in Whole' => m \in Whole
  BY <1>2, <1>3 DEF Whole, Files
<1>5. FilesSound'
  BY <1>2, <1>4, SameFiles DEF VolumeInv
<1>6. dir[n].first # 0 =>
        /\ Starts(fat, dir[n].first) /\ dir[n].first \in ToSet(Chain(dir[n].first))
        /\ \A m \in Whole : dir[m].first = dir[n].first => m = n
  BY <1>2, <1>3, ChainSet DEF VolumeInv, FilesSound, TypeOK, Table, Chain
<1>7. BootUntouched'
  BY <1>2 DEF VolumeInv, BootUntouched, Zeroed
<1>8. CASE op'.pc \in {"open", "seek"}
  <2>1. /\ op'.kind \in {"write", "append"} /\ op'.name = n /\ op'.first = dir[n].first
        /\ op'.cur = dir[n].first /\ op'.new = 0
    BY <1>8 DEF StartDelete, Write, StartAppend, Opened
  <2>2. CallSound'
    BY <1>2, <1>4, <1>6, <1>8, <2>1 DEF CallSound, Writing, Preparing, Chain
  <2>3. DeletionSound' /\ ToldTheTruth'
    BY <1>8 DEF DeletionSound, ToldTheTruth
  <2>4. QED
    BY <1>1, <1>2, <1>5, <1>7, <2>2, <2>3 DEF VolumeInv
<1>9. CASE StartDelete(n)
  <2>1. /\ op'.pc = (IF dir[n].first = 0 THEN "remove" ELSE "free")
        /\ op'.kind = "delete" /\ op'.name = n /\ op'.first = dir[n].first
        /\ op'.cur = dir[n].first /\ op'.new = 0
    BY <1>9 DEF StartDelete, Opened
  <2>2. \A m \in Whole' : m # n
    BY <2>1 DEF Whole, Deleting
  <2>3. CallSound' /\ ToldTheTruth'
    BY <2>1 DEF CallSound, Writing, ToldTheTruth
  <2>4. DeletionSound'
    BY <1>2, <1>4, <1>6, <2>1, <2>2 DEF DeletionSound, FirstOfNone
  <2>5. QED
    BY <1>1, <1>2, <1>5, <1>7, <2>3, <2>4 DEF VolumeInv
<1>10. QED
  BY <1>8, <1>9 DEF Write, StartAppend, Opened

LEMMA StartCopyStep ==
  ASSUME VolumeInv, NEW n \in Name, NEW m \in Name, StartCopy(n, m)
  PROVE  VolumeInv'
<1>1. TypeOK'
  BY StartType DEF VolumeInv
<1>2. op = NoOp /\ op.pc = "idle" /\ dir[m] = Absent /\ UNCHANGED <<fat, data, faults, contents>>
  BY Quiet DEF StartCopy, At, VolumeInv, volume
<1>3. /\ op'.pc = "copy" /\ op'.kind = "copy" /\ op'.name = m /\ op'.first = 0 /\ op'.cur = 0
      /\ op'.new = 0 /\ op'.source = SourceFile(n)
  BY DEF StartCopy
<1>4. /\ \A k : k \in Whole <=> k \in Name /\ dir[k] # Absent
      /\ \A k : k \in Whole' <=> k \in Name /\ dir'[k] # Absent
  BY <1>2, <1>3, AllWhole, AllWholeNext
<1>5. /\ \A k \in Name : k # m => dir'[k] = dir[k]
      /\ dir'[m].first = 0 /\ dir'[m] = Entry(0, 0)
  BY DEF StartCopy, VolumeInv, TypeOK, Entry
<1>6. FilesSound'
  BY <1>2, <1>4, <1>5, FilesKept DEF VolumeInv
<1>7. dir'[m] # Absent
  <2>1. Entry(0, 0) \in [first : Clusters \cup {0}, size : Nat]
    BY Constants DEF Entry
  <2>2. QED
    BY <1>5, <2>1, TextAssumption
<1>8. SourceFile(n) # <<>>
  <2>1. SourceFile(n).name = n /\ DOMAIN SourceFile(n) = {"name", "cur", "pos", "size"}
    BY DEF SourceFile
  <2>2. DOMAIN <<>> = {}
    OBVIOUS
  <2>3. QED
    BY <2>1, <2>2
<1>9. CallSound'
  BY <1>3, <1>5, <1>7, <1>8 DEF CallSound, Writing, Preparing, Steps
<1>10. DeletionSound' /\ ToldTheTruth'
  BY <1>3 DEF DeletionSound, ToldTheTruth
<1>11. BootUntouched'
  BY <1>2 DEF VolumeInv, BootUntouched, Zeroed
<1>12. QED
  BY <1>1, <1>2, <1>6, <1>9, <1>10, <1>11 DEF VolumeInv

(* What a call that writes knows.                                          *)
LEMMA Writes ==
  ASSUME VolumeInv, op.pc \in Steps \ {"free", "remove"}
  PROVE  /\ op \in Operation /\ Writing /\ fat \in Table /\ Sound(fat)
         /\ \A m : m \in Whole <=> m \in Name /\ dir[m] # Absent
         /\ op.name \in Name /\ dir[op.name] # Absent /\ op.name \in Whole
         /\ op.kind # "delete"
         /\ dir[op.name].first # 0 => op.first = dir[op.name].first
         /\ op.first = 0 => /\ op.cur = 0
                            /\ op.pc \in {"open", "seek", "claim", "zero", "unclaim", "copy"}
         /\ op.first # 0 => /\ Starts(fat, op.first) /\ op.first \in InUse(fat)
                            /\ op.cur \in ToSet(Chain(op.first)) /\ op.cur \in InUse(fat)
                            /\ \A m \in Whole : dir[m].first = op.first => m = op.name
<1>1. op.pc # "idle"
  BY DEF Steps
<1>2. op \in Operation /\ Writing
  BY <1>1, Busy DEF VolumeInv, Writing
<1>3. fat \in Table /\ Sound(fat)
  BY DEF VolumeInv, TypeOK, Table
<1>4. \A m : m \in Whole <=> m \in Name /\ dir[m] # Absent
  BY AllWhole
<1>5. op.name \in Name
  BY <1>2 DEF Operation
<1>6. CallSound
  BY DEF VolumeInv
<1>7. op.first # 0 => ToSet(Chain(op.first)) \subseteq InUse(fat) /\ op.first \in InUse(fat)
  <2>1. op.first # 0 => Starts(fat, op.first)
    BY <1>2, <1>6 DEF CallSound
  <2>2. QED
    BY <1>3, <2>1, ChainSet DEF Chain, InUse, Starts
<1>8. /\ op.kind # "delete" /\ dir[op.name] # Absent
      /\ (dir[op.name].first # 0 => op.first = dir[op.name].first)
      /\ (op.first = 0 => /\ op.cur = 0
                          /\ op.pc \in {"open", "seek", "claim", "zero", "unclaim", "copy"})
      /\ (op.first # 0 => /\ Starts(fat, op.first)
                          /\ op.cur \in ToSet(Chain(op.first))
                          /\ \A m \in Whole : dir[m].first = op.first => m = op.name)
  BY <1>2, <1>6 DEF CallSound
<1>9. QED
  BY <1>2, <1>3, <1>4, <1>5, <1>7, <1>8

(* When nothing on the disk changes but the bytes in a cluster and the     *)
(* size in an entry, the call may go on.                                   *)
LEMMA GoesOn ==
  ASSUME VolumeInv, op.pc \in Steps \ {"free", "remove"}, TypeOK', fat' = fat,
         \A m \in Name : /\ dir'[m] # Absent <=> dir[m] # Absent
                         /\ dir'[m].first = dir[m].first,
         data'[Boot] = data[Boot],
         op'.pc \in Steps \ {"free", "remove", "copy"}, op'.kind = op.kind, op'.name = op.name,
         op'.first = op.first, op.kind = "copy" => op'.source # <<>>, op'.new = op.new,
         op.first = 0 => op'.cur = 0 /\ op'.pc \in {"open", "seek", "claim", "zero", "unclaim"},
         op.first # 0 => op'.cur \in ToSet(Chain(op.first)),
         op'.pc \in {"zero", "unclaim", "link"} => Preparing,
         Preparing => op'.pc \in {"zero", "unclaim", "link"},
         op'.pc \in {"mark", "rezero"} => op.pc \in {"mark", "rezero"},
         ToldTheTruth'
  PROVE  VolumeInv'
<1>1. /\ op \in Operation /\ Writing /\ fat \in Table /\ Sound(fat)
      /\ \A m : m \in Whole <=> m \in Name /\ dir[m] # Absent
      /\ op.name \in Name /\ dir[op.name] # Absent /\ CallSound
  BY Writes DEF VolumeInv
<1>2. \A m : m \in Whole' <=> m \in Name /\ dir'[m] # Absent
  BY AllWholeNext
<1>3. FilesSound'
  BY <1>1, <1>2, SameFiles DEF VolumeInv
<1>4. /\ (Preparing => Starts(fat, op.new) /\ FirstOfNone(op.new) /\ op.new # op.first)
      /\ (~ Preparing => op.new = 0 \/ (op.first # 0 /\ op.new \in ToSet(Chain(op.first))))
      /\ (Preparing \/ op.pc \in {"mark", "rezero"} => op.new \in Clusters /\ fat[op.new] = Eoc)
  BY <1>1 DEF CallSound
<1>5. op.first # 0 => Starts(fat, op.first)
  BY <1>1 DEF CallSound
<1>6. \A m \in Whole' : m \in Whole /\ dir'[m].first = dir[m].first
  BY <1>1, <1>2
<1>7. CallSound'
  <2>1. dir'[op.name] # Absent /\ dir'[op.name].first = dir[op.name].first
    BY <1>1
  <2>2. op'.pc \in {"zero", "unclaim", "link"} =>
           Starts(fat', op'.new) /\ FirstOfNone(op'.new) /\ op'.new # op.first
    BY <1>4
  <2>3. op'.pc \notin {"zero", "unclaim", "link"} =>
           op'.new = 0 \/ (op.first # 0 /\ op'.new \in ToSet(Chain_in(fat', op.first)))
    BY <1>4 DEF Chain
  <2>4. op'.pc \in {"zero", "unclaim", "link", "mark", "rezero"} =>
           op'.new \in Clusters /\ fat'[op'.new] = Eoc
    BY <1>4
  <2>5. op.first # 0 => Starts(fat', op.first) /\ op'.cur \in ToSet(Chain_in(fat', op.first))
    BY <1>5 DEF Chain
  <2>6. QED
    BY <1>1, <1>6, <2>1, <2>2, <2>3, <2>4, <2>5, CallKept
<1>8. DeletionSound'
  BY NotDeleting
<1>9. Sound(fat') /\ BootUntouched'
  BY <1>1 DEF VolumeInv, BootUntouched, Zeroed
<1>10. QED
  BY <1>3, <1>7, <1>8, <1>9 DEF VolumeInv

LEMMA EndIsOurs ==
  ASSUME VolumeInv, op.pc \in Steps \ {"free", "remove"},
         NEW c \in ToSet(Chain(op.first)), NEW end, WalkToEnd(c, end)
  PROVE  /\ op.first = 0 => end = 0
         /\ op.first # 0 => /\ end \in ToSet(Chain(op.first)) /\ end \in InUse(fat)
                            /\ NoFault => end = Last(Chain(op.first))
         /\ (op.first = 0 \/ end # Last(Chain(c))) => NoFault \/ Fault("read")
         /\ end = Last(Chain(c)) \/ Fault("read")
<1>1. fat \in Table /\ Sound(fat) /\ op.first \in Nodes
      /\ (op.first # 0 => Starts(fat, op.first))
  BY Writes DEF Operation
<1>2. CASE op.first = 0
  <2> DEFINE T == {0}
  <2>1. \A d \in T : Next_in(fat, d) = Invalid
    BY Constants DEF Next_in
  <2>2. ToSet(Chain_in(fat, 0)) \subseteq T /\ Last(Chain_in(fat, 0)) \in ToSet(Chain_in(fat, 0))
    BY <1>1, <2>1, ChainWithin, Constants
  <2>3. c = 0 /\ Last(Chain(c)) = 0 /\ ToSet(Chain(c)) \subseteq {0}
    BY <1>2, <2>2 DEF Chain
  <2>4. QED
    BY <1>2, <2>3 DEF WalkToEnd
<1>3. CASE op.first # 0
  <2>1. Starts(fat, op.first)
    BY <1>1, <1>3
  <2>2. /\ ToSet(Chain_in(fat, c)) \subseteq ToSet(Chain_in(fat, op.first))
        /\ Last(Chain_in(fat, c)) = Last(Chain_in(fat, op.first))
        /\ Last(Chain_in(fat, c)) \in ToSet(Chain_in(fat, op.first))
    BY <1>1, <2>1, RestOfChain DEF Chain
  <2>3. ToSet(Chain_in(fat, op.first)) \subseteq InUse(fat)
    BY <1>1, <2>1, ChainSet
  <2>4. end \in ToSet(Chain(op.first)) /\ end \in InUse(fat)
    BY <2>2, <2>3 DEF WalkToEnd, Chain
  <2>5. NoFault => ~ Fault("read")
    BY DEF NoFault, Fault, VolumeInv, TypeOK
  <2>6. NoFault => end = Last(Chain(op.first))
    BY <2>2, <2>5 DEF WalkToEnd, Chain
  <2>7. QED
    BY <1>3, <2>4, <2>6 DEF WalkToEnd
<1>4. QED
  BY <1>2, <1>3

LEMMA FirstIsOurs ==
  ASSUME VolumeInv, op.pc \in Steps \ {"free", "remove"}
  PROVE  /\ op.first \in ToSet(Chain(op.first)) /\ op.cur \in ToSet(Chain(op.first))
<1>1. fat \in Table /\ Sound(fat) /\ op.first \in Nodes
      /\ (op.first # 0 => Starts(fat, op.first) /\ op.cur \in ToSet(Chain(op.first)))
      /\ (op.first = 0 => op.cur = 0)
  BY Writes DEF Operation
<1>2. op.first \in ToSet(Chain(op.first))
  <2>1. Len(Chain_in(fat, op.first)) \in 1 .. TotalClusters + 1
        /\ Chain_in(fat, op.first) \in Seq(Nodes) /\ Chain_in(fat, op.first)[1] = op.first
    BY <1>1, ChainIsTrace DEF IsTrace
  <2>2. 1 \in DOMAIN Chain_in(fat, op.first)
    BY <2>1, Constants
  <2>3. QED
    BY <2>1, <2>2 DEF Chain, ToSet
<1>3. QED
  BY <1>1, <1>2

LEMMA SeekStep ==
  ASSUME VolumeInv, Seek
  PROVE  VolumeInv'
<1>1. op.pc = "seek" /\ op.pc \in Steps \ {"free", "remove"} /\ TypeOK
  BY DEF Seek, At, Steps, VolumeInv
<1>2. PICK end \in Nodes : WalkToEnd(op.first, end) /\ op' = ToEnd(op, op.text, end)
  BY DEF Seek, Nodes
<1>3. op \in Operation /\ op.text \in Seq(Bytes)
  BY <1>1, Writes DEF Operation
<1>4. /\ op'.pc = (IF op.first = 0 THEN "claim" ELSE "fill") /\ op'.kind = op.kind
      /\ op'.name = op.name /\ op'.first = op.first /\ op'.cur = end /\ op'.new = op.new
      /\ op'.source = op.source
  BY <1>2, <1>3, ToEndIs
<1>5. TypeOK' /\ fat' = fat /\ data' = data /\ dir' = dir
  BY <1>1, SeekType DEF Seek, volume
<1>6. (op.first = 0 => end = 0) /\ (op.first # 0 => end \in ToSet(Chain(op.first)))
  BY <1>1, <1>2, FirstIsOurs, EndIsOurs
<1>7. ToldTheTruth'
  BY <1>4 DEF ToldTheTruth
<1>8. op.kind = "copy" => op.source # <<>>
  BY <1>1, Writes DEF VolumeInv, CallSound
<1>9. QED
  BY <1>1, <1>4, <1>5, <1>6, <1>7, <1>8, GoesOn DEF Steps, Preparing

(* file_write empties the entry: its first cluster stays.                  *)
LEMMA EmptyDir ==
  ASSUME VolumeInv, Empty
  PROVE  \A m \in Name : (dir'[m] # Absent <=> dir[m] # Absent) /\ dir'[m].first = dir[m].first
<1>0. /\ op.pc = "open" /\ op.pc \in Steps \ {"free", "remove"} /\ TypeOK
      /\ op \in Operation /\ dir[op.name] # Absent /\ op.name \in Name
  <2>1. op.pc = "open" /\ op.pc \in Steps \ {"free", "remove"} /\ TypeOK
    BY DEF Empty, At, Steps, VolumeInv
  <2>2. QED
    BY <2>1, Writes
<1>1. dir' = [dir EXCEPT ![op.name].size = 0] \/ dir' = dir
  BY DEF Empty, FailedWrite
<1>2. CASE dir' = dir
  BY <1>2
<1>3. CASE dir' = [dir EXCEPT ![op.name].size = 0]
  <2>1. dir[op.name] \in [first : Nodes, size : Nat]
    BY <1>0 DEF TypeOK
  <2>2. dir'[op.name] = [dir[op.name] EXCEPT !.size = 0]
        /\ \A m \in Name : m # op.name => dir'[m] = dir[m]
    BY <1>0, <1>3 DEF TypeOK
  <2>3. dir'[op.name] \in [first : Clusters \cup {0}, size : Nat]
        /\ dir'[op.name].first = dir[op.name].first
    BY <2>1, <2>2, Constants
  <2>4. dir'[op.name] # Absent
    BY <2>3, TextAssumption
  <2>5. QED
    BY <1>0, <2>2, <2>3, <2>4
<1>4. QED
  BY <1>1, <1>2, <1>3

LEMMA EmptyStep ==
  ASSUME VolumeInv, CarefulUse, Empty
  PROVE  VolumeInv'
<1>1. op.pc = "open" /\ op.pc \in Steps \ {"free", "remove"} /\ TypeOK
  BY DEF Empty, At, Steps, VolumeInv
<1>2. /\ op \in Operation /\ Writing /\ Sound(fat) /\ dir[op.name] # Absent /\ op.name \in Name
      /\ (op.kind = "copy" => op.source # <<>>)
  BY <1>1, Writes DEF VolumeInv, CallSound
<1>3. TypeOK' /\ fat' = fat /\ data' = data
  BY EmptyType DEF Empty, VolumeInv, volume
<1>4. \A m \in Name : (dir'[m] # Absent <=> dir[m] # Absent) /\ dir'[m].first = dir[m].first
  BY EmptyDir
<1>5. CASE op' = Begin(op)
  <2>1. /\ op'.pc = (IF op.first = 0 THEN "claim" ELSE "fill") /\ op'.kind = op.kind
        /\ op'.name = op.name /\ op'.first = op.first /\ op'.cur = op.cur /\ op'.new = op.new
        /\ op'.source = op.source
    BY <1>2, <1>5, BeginIs
  <2>2. ToldTheTruth'
    BY <2>1 DEF ToldTheTruth
  <2>3. (op.first = 0 => op'.cur = 0) /\ (op.first # 0 => op'.cur \in ToSet(Chain(op.first)))
    BY <1>1, <2>1, Writes
  <2>4. QED
    BY <1>1, <1>2, <1>3, <1>4, <2>1, <2>2, <2>3, GoesOn DEF Steps, Preparing
<1>6. CASE Fail
  BY <1>2, <1>3, <1>4, <1>6, GivesUp DEF Fail
<1>7. QED
  BY <1>5, <1>6 DEF Empty

LEMMA StopStep ==
  ASSUME VolumeInv, CarefulUse, Stop
  PROVE  VolumeInv'
<1>1. op.pc # "idle" /\ TypeOK /\ TypeOK' /\ UNCHANGED <<fat, data, dir>> /\ op' = NoOp
  BY DeleteType DEF Stop, At, VolumeInv, volume, Fail
<1>2. op.kind # "delete"
  BY <1>1, FaultIs DEF Stop
<1>3. op.pc \in Steps /\ op.pc \notin {"free", "remove"}
  BY <1>1, <1>2, Busy DEF VolumeInv, DeletionSound
<1>4. Writing /\ Sound(fat)
  BY <1>3, Writes
<1>5. QED
  BY <1>1, <1>4, GivesUp

(* The first write of an allocation.                                       *)
LEMMA ClaimStep ==
  ASSUME VolumeInv, CarefulUse, Claim
  PROVE  VolumeInv'
<1>1. op.pc = "claim" /\ op.pc \in Steps \ {"free", "remove"} /\ TypeOK /\ TypeOK' /\ dir' = dir
  BY ClaimType DEF Claim, At, Steps, VolumeInv
<1>2. /\ op \in Operation /\ Writing /\ fat \in Table /\ Sound(fat)
      /\ dir[op.name] # Absent /\ op.name \in Name /\ (op.kind = "copy" => op.source # <<>>)
      /\ \A m : m \in Whole <=> m \in Name /\ dir[m] # Absent
  BY <1>1, Writes DEF VolumeInv, CallSound
<1>3. ASSUME NEW c \in FreeClusters, Write_fat_entry(c, Eoc)
      PROVE  /\ fat' \in Table /\ Sound(fat') /\ Starts(fat', c) /\ fat'[c] = Eoc /\ data' = data
             /\ \A d : Starts(fat, d) => Starts(fat', d) /\ d # c
             /\ \A d \in InUse(fat) : fat'[d] = fat[d]
             /\ c \in Clusters
  <2>1. c \in Clusters /\ fat[c] = Free
    BY DEF FreeClusters
  <2>2. Writes_entry(fat, fat', c, Eoc) /\ data' = data
    BY <1>1, <1>3, EntryWritten
  <2>3. QED
    BY <1>2, <2>1, <2>2, MarkedTable
<1>4. CASE Fail
  <2>1. UNCHANGED volume \/ (FreeClusters # {} /\ Write_fat_entry(First_free(FreeClusters), Eoc))
        \/ \E c \in FreeClusters : Write_fat_entry(c, Eoc)
    BY DEF Claim, FailedWrite
  <2>2. CASE UNCHANGED volume
    BY <1>1, <1>2, <1>4, <2>2, GivesUp DEF Fail, volume
  <2>3. CASE ~ UNCHANGED volume
    <3>1. PICK c \in FreeClusters : Write_fat_entry(c, Eoc)
      <4>1. FreeClusters \in SUBSET Clusters
        BY DEF FreeClusters
      <4>2. FreeClusters # {} => First_free(FreeClusters) \in FreeClusters
        BY <4>1, FirstFree
      <4>3. QED
        BY <2>1, <2>3, <4>2
    <3>2. Sound(fat') /\ data' = data /\ \A d : Starts(fat, d) => Starts(fat', d)
      BY <1>3, <3>1
    <3>3. QED
      BY <1>1, <1>2, <1>4, <3>2, GivesUp DEF Fail
  <2>4. QED
    BY <2>2, <2>3
<1>5. CASE \E c \in FreeClusters :
             Write_fat_entry(c, Eoc) /\ op' = [op EXCEPT !.pc = "zero", !.new = c]
             /\ faults' >= faults
  <2>1. PICK c \in FreeClusters :
             Write_fat_entry(c, Eoc) /\ op' = [op EXCEPT !.pc = "zero", !.new = c]
             /\ faults' >= faults
    BY <1>5
  <2>2. /\ op'.pc = "zero" /\ op'.new = c /\ op'.kind = op.kind /\ op'.name = op.name
        /\ op'.first = op.first /\ op'.cur = op.cur /\ op'.source = op.source
    BY <1>2, <2>1 DEF Operation
  <2>3. /\ fat' \in Table /\ Sound(fat') /\ Starts(fat', c) /\ fat'[c] = Eoc /\ data' = data
        /\ \A d : Starts(fat, d) => Starts(fat', d) /\ d # c
        /\ \A d \in InUse(fat) : fat'[d] = fat[d]
        /\ c \in Clusters
    BY <1>3, <2>1
  <2>4. \A m : m \in Whole' <=> m \in Whole
    BY <1>1, <1>2, <2>2, AllWholeNext
  <2>5. FilesSound'
    BY <1>1, <2>3, <2>4, SameFiles DEF VolumeInv
  <2>6. op.first # 0 => /\ Starts(fat, op.first) /\ Chain_in(fat', op.first) = Chain_in(fat, op.first)
                        /\ op.cur \in ToSet(Chain(op.first)) /\ op.cur \in InUse(fat)
    <3>1. op.first # 0 => Starts(fat, op.first) /\ op.cur \in ToSet(Chain(op.first)) /\ op.cur \in InUse(fat)
      BY <1>1, Writes
    <3>2. ASSUME op.first # 0
          PROVE  Chain_in(fat', op.first) = Chain_in(fat, op.first)
      <4>1. Starts(fat, op.first)
        BY <3>1, <3>2
      <4>2. \A d \in ToSet(Chain_in(fat, op.first)) : fat'[d] = fat[d]
        BY <1>2, <2>3, <4>1, ChainSet
      <4>3. QED
        BY <1>2, <2>3, <4>1, <4>2, ChainKept
    <3>3. QED
      BY <3>1, <3>2
  <2>7. op.first = 0 => op.cur = 0
    BY <1>1, Writes
  <2>8. FirstOfNone(c) /\ c # op.first
    <3>1. \A m \in Whole : dir[m].first # c
      BY <2>3, Constants DEF VolumeInv, FilesSound
    <3>2. c # op.first
      BY <2>3, <2>6, Constants
    <3>3. QED
      BY <3>1, <3>2 DEF FirstOfNone
  <2>9. CallSound'
    <3>1. op.first # 0 => Starts(fat', op.first) /\ op'.cur \in ToSet(Chain_in(fat', op.first))
      BY <2>2, <2>3, <2>6 DEF Chain
    <3>2. op'.pc \in Steps \ {"free", "remove", "copy"}
      BY <2>2 DEF Steps
    <3>3. CallSound
      BY DEF VolumeInv
    <3>4. QED
      BY <1>1, <1>2, <2>2, <2>3, <2>4, <2>7, <2>8, <3>1, <3>2, <3>3, CallKept
  <2>10. ToldTheTruth'
    <3>1. op.first # 0 => Next_cluster(op.cur) = Invalid \/ faults > 0
      BY <1>1 DEF VolumeInv, ToldTheTruth
    <3>2. op.first # 0 => Next_in(fat', op.cur) = Next_in(fat, op.cur)
      BY <2>3, <2>6 DEF Next_in
    <3>3. faults > 0 => faults' > 0
      BY <1>1, <2>1 DEF TypeOK
    <3>4. QED
      BY <2>2, <3>1, <3>2, <3>3 DEF ToldTheTruth, Next_cluster
  <2>11. DeletionSound'
    BY <2>2, NotDeleting
  <2>12. BootUntouched'
    BY <2>3 DEF VolumeInv, BootUntouched, Zeroed
  <2>13. QED
    BY <1>1, <2>3, <2>5, <2>9, <2>10, <2>11, <2>12 DEF VolumeInv
<1>6. (NoFault \/ \E kind : Fault(kind)) => faults' >= faults
  <2>1. faults \in Nat
    BY <1>1, FilesAssumption DEF TypeOK
  <2>2. (NoFault \/ \E kind : Fault(kind)) => faults' = faults \/ faults' = faults + 1
    BY DEF NoFault, Fault
  <2>3. QED
    BY <2>1, <2>2
<1>7. QED
  BY <1>4, <1>5, <1>6 DEF Claim

LEMMA BootKept ==
  ASSUME TypeOK, NEW c \in Clusters, NEW bytes, Write_cluster(c, bytes)
  PROVE  data'[Boot] = data[Boot]
BY Constants DEF TypeOK, Write_cluster

(* What a call that prepares a cluster, or has just linked it, knows.      *)
LEMMA Prepares ==
  ASSUME VolumeInv, op.pc \in {"zero", "unclaim", "link", "mark", "rezero"}
  PROVE  /\ op.pc \in Steps \ {"free", "remove"}
         /\ op.kind = "copy" => op.source # <<>>
         /\ op.new \in Clusters /\ fat[op.new] = Eoc
         /\ op.pc \in {"zero", "unclaim", "link"} =>
              Starts(fat, op.new) /\ FirstOfNone(op.new) /\ op.new # op.first
         /\ op.pc \in {"link", "mark", "rezero"} => op.first # 0
         /\ op.pc \in {"mark", "rezero"} => op.new \in ToSet(Chain(op.first))
<1>1. op.pc \in Steps \ {"free", "remove"} /\ Writing /\ CallSound
  BY DEF Steps, Writing, VolumeInv
<1>2. /\ op.kind = "copy" => op.source # <<>>
      /\ op.new \in Clusters /\ fat[op.new] = Eoc
      /\ Preparing => Starts(fat, op.new) /\ FirstOfNone(op.new) /\ op.new # op.first
      /\ op.pc \in {"link", "mark", "rezero"} => op.first # 0
      /\ ~ Preparing => op.new = 0 \/ (op.first # 0 /\ op.new \in ToSet(Chain(op.first)))
  BY <1>1 DEF CallSound, Preparing
<1>4. op.pc \in {"mark", "rezero"} => op.new \in ToSet(Chain(op.first))
  BY <1>2, Constants DEF Preparing
<1>5. QED
  BY <1>1, <1>2, <1>4 DEF Preparing

(* The second write of an allocation.                                      *)
LEMMA ZeroNewStep ==
  ASSUME VolumeInv, ZeroNew
  PROVE  VolumeInv'
<1>1. op.pc = "zero" /\ TypeOK /\ TypeOK' /\ dir' = dir
  BY ZeroNewType DEF ZeroNew, At, VolumeInv
<1>2. /\ op.new \in Clusters /\ fat[op.new] = Eoc /\ Starts(fat, op.new) /\ FirstOfNone(op.new)
      /\ op.new # op.first /\ op.pc \in Steps \ {"free", "remove"}
      /\ (op.kind = "copy" => op.source # <<>>)
  BY <1>1, Prepares
<1>3. /\ op \in Operation /\ fat \in Table /\ Sound(fat) /\ op.name \in Name
      /\ \A m : m \in Whole <=> m \in Name /\ dir[m] # Absent
      /\ op.kind # "delete" /\ dir[op.name] # Absent
      /\ (dir[op.name].first # 0 => op.first = dir[op.name].first)
      /\ (op.first = 0 => op.cur = 0) /\ (op.first # 0 => op.cur \in ToSet(Chain(op.first)))
  BY <1>2, Writes
<1>4. fat' = fat /\ data'[Boot] = data[Boot]
  <2>1. Write_cluster(op.new, Zeroed) \/ UNCHANGED volume
    BY DEF ZeroNew, FailedWrite
  <2>2. QED
    BY <1>1, <1>2, <2>1, BootKept DEF Write_cluster, volume
<1>5. CASE op.first = 0 /\ op' = [op EXCEPT !.pc = "fill", !.first = op.new, !.cur = op.new]
  <2>1. /\ op'.pc = "fill" /\ op'.first = op.new /\ op'.cur = op.new /\ op'.new = op.new
        /\ op'.kind = op.kind /\ op'.name = op.name /\ op'.source = op.source
    BY <1>3, <1>5 DEF Operation
  <2>2. \A m : m \in Whole' <=> m \in Whole
    BY <1>1, <1>3, <2>1, AllWholeNext
  <2>3. FilesSound'
    BY <1>1, <1>4, <2>2, SameFiles DEF VolumeInv
  <2>4. op.new \in ToSet(Chain(op.new))
    BY <1>2, <1>3, ChainSet DEF Chain
  <2>5. CallSound'
    <3>1. op'.first # 0 /\ Starts(fat', op'.first) /\ op'.cur \in ToSet(Chain_in(fat', op'.first))
      BY <1>2, <1>4, <2>1, <2>4, Constants DEF Chain
    <3>2. \A m \in Whole' : dir'[m].first = op'.first => m = op'.name
      BY <1>1, <1>2, <2>1, <2>2 DEF FirstOfNone
    <3>3. dir'[op'.name].first = 0
      BY <1>1, <1>3, <1>5, <2>1
    <3>4. QED
      BY <1>1, <1>2, <1>3, <2>1, <3>1, <3>2, <3>3 DEF CallSound, Preparing, Chain
  <2>6. ToldTheTruth' /\ DeletionSound'
    BY <2>1 DEF ToldTheTruth, DeletionSound
  <2>7. QED
    BY <1>1, <1>3, <1>4, <2>3, <2>5, <2>6 DEF VolumeInv, BootUntouched, Zeroed
<1>6. CASE op' = [op EXCEPT !.pc = "link"] /\ op.first # 0 /\ NoFault
  <2>1. /\ op'.pc = "link" /\ op'.first = op.first /\ op'.cur = op.cur /\ op'.new = op.new
        /\ op'.kind = op.kind /\ op'.name = op.name /\ op'.source = op.source
    BY <1>3, <1>6 DEF Operation
  <2>2. ToldTheTruth'
    <3>1. Next_cluster(op.cur) = Invalid \/ faults > 0
      BY <1>1, <1>6 DEF VolumeInv, ToldTheTruth
    <3>2. QED
      BY <1>4, <1>6, <2>1, <3>1 DEF ToldTheTruth, NoFault, Next_cluster
  <2>3. QED
    BY <1>1, <1>2, <1>3, <1>4, <1>6, <2>1, <2>2, GoesOn DEF Preparing, Steps
<1>7. CASE op' = [op EXCEPT !.pc = "unclaim"]
  <2>1. /\ op'.pc = "unclaim" /\ op'.first = op.first /\ op'.cur = op.cur /\ op'.new = op.new
        /\ op'.kind = op.kind /\ op'.name = op.name /\ op'.source = op.source
    BY <1>3, <1>7 DEF Operation
  <2>2. ToldTheTruth'
    BY <2>1 DEF ToldTheTruth
  <2>3. QED
    BY <1>1, <1>2, <1>3, <1>4, <2>1, <2>2, GoesOn DEF Preparing, Steps
<1>8. QED
  BY <1>5, <1>6, <1>7 DEF ZeroNew, Goto

LEMMA UnclaimStep ==
  ASSUME VolumeInv, CarefulUse, Unclaim
  PROVE  VolumeInv'
<1>1. op.pc = "unclaim" /\ TypeOK /\ TypeOK' /\ dir' = dir /\ op' = NoOp
  BY UnclaimType DEF Unclaim, At, VolumeInv, Fail
<1>2. /\ op.new \in Clusters /\ Starts(fat, op.new) /\ FirstOfNone(op.new)
      /\ op.pc \in Steps \ {"free", "remove"}
  BY <1>1, Prepares
<1>3. Writing /\ fat \in Table /\ Sound(fat)
  BY <1>2, Writes
<1>4. Sound(fat') /\ data' = data /\ \A d : Starts(fat, d) /\ d # op.new => Starts(fat', d)
  <2>1. UNCHANGED volume \/ Write_fat_entry(op.new, Free)
    BY DEF Unclaim, FailedWrite
  <2>2. CASE UNCHANGED volume
    BY <1>3, <2>2 DEF volume
  <2>3. CASE Write_fat_entry(op.new, Free)
    <3>1. Writes_entry(fat, fat', op.new, Free) /\ data' = data
      BY <1>1, <2>3, EntryWritten
    <3>2. QED
      BY <1>2, <1>3, <3>1, FreedTable
  <2>4. QED
    BY <2>1, <2>2, <2>3
<1>5. \A m \in Whole : Starts(fat, dir[m].first) => Starts(fat', dir[m].first)
  BY <1>2, <1>4 DEF FirstOfNone
<1>6. QED
  BY <1>1, <1>3, <1>4, <1>5, GivesUp

(* The loop of file_write_internal.                                        *)
LEMMA FillStep ==
  ASSUME VolumeInv, CarefulUse, Fill \/ NothingToFill
  PROVE  VolumeInv'
<1>1. op.pc = "fill" /\ op.pc \in Steps \ {"free", "remove"} /\ TypeOK /\ TypeOK' /\ dir' = dir
  BY FillType DEF Fill, NothingToFill, At, Steps, VolumeInv
<1>2. /\ op \in Operation /\ Writing /\ fat \in Table /\ Sound(fat) /\ op.first # 0
      /\ Starts(fat, op.first) /\ op.cur \in ToSet(Chain(op.first)) /\ op.cur \in InUse(fat)
      /\ op.cur \in Clusters /\ (op.kind = "copy" => op.source # <<>>)
  BY <1>1, Writes DEF VolumeInv, CallSound, InUse
<1>3. fat' = fat /\ data'[Boot] = data[Boot]
  <2>1. Write_cluster(op.cur, Filled(op)) \/ UNCHANGED volume
    BY DEF Fill, NothingToFill, FailedWrite
  <2>2. QED
    BY <1>1, <1>2, <2>1, BootKept DEF Write_cluster, volume
<1>4. CASE op' = [Moved(op) EXCEPT !.pc = "close"] \/ op' = [op EXCEPT !.pc = "close"]
  <2>1. /\ op'.pc = "close" /\ op'.first = op.first /\ op'.cur = op.cur /\ op'.new = op.new
        /\ op'.kind = op.kind /\ op'.name = op.name /\ op'.source = op.source
    BY <1>2, <1>4, MovedIs DEF Operation
  <2>2. ToldTheTruth'
    BY <2>1 DEF ToldTheTruth
  <2>3. QED
    BY <1>1, <1>2, <1>3, <2>1, <2>2, GoesOn DEF Preparing, Steps
<1>5. CASE \E next \in Clusters \cup {Boot, Invalid} :
             Follow(op.cur, next) /\ op' = Extend(Moved(op), next)
  <2>1. PICK next \in Nodes \cup {Invalid} :
             Follow(op.cur, next) /\ op' = Extend(Moved(op), next)
    BY <1>5 DEF Nodes
  <2>2. /\ op'.pc = (IF next = Invalid THEN "claim" ELSE "fill")
        /\ op'.cur = (IF next = Invalid THEN op.cur ELSE next)
        /\ op'.first = op.first /\ op'.new = op.new
        /\ op'.kind = op.kind /\ op'.name = op.name /\ op'.source = op.source
    BY <1>2, <2>1, MovedIs, ExtendIs
  <2>3. next # Invalid => next \in ToSet(Chain(op.first))
    BY <1>2, <2>1, ChainSet DEF Follow, Chain, Next_cluster
  <2>4. ToldTheTruth'
    <3>1. next = Invalid => Next_cluster(op.cur) = Invalid \/ faults' > 0
      BY <1>1, <2>1, FaultIs DEF Follow
    <3>2. QED
      BY <1>3, <2>2, <3>1 DEF ToldTheTruth, Next_cluster
  <2>5. op'.pc \in Steps \ {"free", "remove", "copy", "zero", "unclaim", "link", "mark", "rezero"}
    BY <2>2 DEF Steps
  <2>6. op'.cur \in ToSet(Chain(op.first))
    BY <1>2, <2>2, <2>3
  <2>7. QED
    BY <1>1, <1>2, <1>3, <2>2, <2>4, <2>5, <2>6, GoesOn DEF Preparing
<1>6. CASE Fail
  BY <1>1, <1>2, <1>3, <1>6, GivesUp DEF Fail
<1>7. QED
  BY <1>4, <1>5, <1>6 DEF Fill, NothingToFill, Goto

(* fat32_append_cluster: the cluster at the end gets its successor.        *)
LEMMA LinkStep ==
  ASSUME VolumeInv, CarefulUse, Link
  PROVE  VolumeInv'
<1>1. op.pc = "link" /\ TypeOK /\ TypeOK' /\ dir' = dir
  BY LinkType DEF Link, At, VolumeInv
<1>2. /\ op.new \in Clusters /\ fat[op.new] = Eoc /\ Starts(fat, op.new) /\ FirstOfNone(op.new)
      /\ op.new # op.first /\ op.pc \in Steps \ {"free", "remove"} /\ op.first # 0
      /\ (op.kind = "copy" => op.source # <<>>)
  BY <1>1, Prepares
<1>3. /\ op \in Operation /\ Writing /\ fat \in Table /\ Sound(fat)
      /\ Starts(fat, op.first) /\ op.cur \in ToSet(Chain(op.first))
      /\ dir[op.name] # Absent /\ op.name \in Name
      /\ \A m : m \in Whole <=> m \in Name /\ dir[m] # Absent
  BY <1>2, Writes
<1>4. ASSUME NEW end \in ToSet(Chain(op.first)), Write_fat_entry(end, op.new)
      PROVE  /\ fat' \in Table /\ Sound(fat') /\ data' = data /\ fat'[op.new] = Eoc
             /\ \A d : Starts(fat, d) /\ d # op.new => Starts(fat', d)
  <2>1. end \in InUse(fat) /\ end # op.new
    <3>1. ToSet(Chain_in(fat, op.first)) \subseteq InUse(fat)
          /\ op.new \in ToSet(Chain_in(fat, op.new))
      BY <1>2, <1>3, ChainSet
    <3>2. ToSet(Chain_in(fat, op.first)) \cap ToSet(Chain_in(fat, op.new)) = {}
      BY <1>2, <1>3, ChainsApart
    <3>3. QED
      BY <3>1, <3>2 DEF Chain
  <2>2. Writes_entry(fat, fat', end, op.new) /\ data' = data
    BY <1>1, <1>2, <1>4, EntryWritten
  <2>3. QED
    BY <1>2, <1>3, <2>1, <2>2, LinkedTable
<1>5. Last(Chain(op.cur)) \in ToSet(Chain(op.first))
  BY <1>3, RestOfChain DEF Chain
<1>6. CASE Fail
  <2>1. UNCHANGED volume \/ Write_fat_entry(Last(Chain(op.cur)), op.new)
        \/ \E end \in Clusters \cup {Boot} :
              op' = [op EXCEPT !.pc = "mark", !.excused = @ \/ end # Last(Chain(op.cur))]
    BY DEF Link, FailedWrite
  <2>2. op'.pc # "mark"
    BY <1>6 DEF Fail, NoOp
  <2>3. \A x : [op EXCEPT !.pc = "mark", !.excused = x].pc = "mark"
    BY <1>3 DEF Operation
  <2>4. UNCHANGED volume \/ Write_fat_entry(Last(Chain(op.cur)), op.new)
    BY <1>3, <2>1, <2>2 DEF Operation
  <2>5. Sound(fat') /\ data' = data /\ \A d : Starts(fat, d) /\ d # op.new => Starts(fat', d)
    BY <1>3, <1>4, <1>5, <2>4 DEF volume
  <2>6. \A m \in Whole : Starts(fat, dir[m].first) => Starts(fat', dir[m].first)
    BY <1>2, <2>5 DEF FirstOfNone
  <2>7. QED
    BY <1>1, <1>3, <1>6, <2>5, <2>6, GivesUp DEF Fail
<1>7. CASE \E end \in Clusters \cup {Boot} :
             /\ WalkToEnd(op.cur, end) /\ Write_fat_entry(end, op.new)
             /\ op' = [op EXCEPT !.pc = "mark", !.excused = @ \/ end # Last(Chain(op.cur))]
  <2>1. PICK end : /\ WalkToEnd(op.cur, end) /\ Write_fat_entry(end, op.new)
                   /\ op' = [op EXCEPT !.pc = "mark", !.excused = @ \/ end # Last(Chain(op.cur))]
    BY <1>7
  <2>2. /\ op'.pc = "mark" /\ op'.first = op.first /\ op'.cur = op.cur /\ op'.new = op.new
        /\ op'.kind = op.kind /\ op'.name = op.name /\ op'.source = op.source
    BY <1>3, <2>1 DEF Operation
  <2>3. end \in ToSet(Chain(op.first)) /\ end \in ToSet(Chain(op.cur))
    <3>1. Last(Chain(op.cur)) \in ToSet(Chain(op.cur))
      BY <1>3, LastOfChain DEF Chain, Operation
    <3>2. QED
      BY <1>2, <1>3, <2>1, <3>1, EndIsOurs DEF WalkToEnd
  <2>4. /\ fat' \in Table /\ Sound(fat') /\ data' = data /\ fat'[op.new] = Eoc
        /\ \A d : Starts(fat, d) /\ d # op.new => Starts(fat', d)
    BY <1>4, <2>1, <2>3
  <2>5. /\ op.new \in ToSet(Chain_in(fat', op.first))
        /\ op.cur \in ToSet(Chain_in(fat', op.first))
    <3> DEFINE s == Chain_in(fat, op.first)
    <3>1. PICK j, k \in 1 .. Len(s) : j <= k /\ op.cur = s[j] /\ end = s[k]
      BY <1>3, <2>3, RestOfChain DEF Chain
    <3>2. Writes_entry(fat, fat', s[k], op.new)
      BY <1>1, <1>2, <2>1, <3>1, EntryWritten
    <3>3. /\ IsChain(fat', op.first, Chain_in(fat', op.first))
          /\ Len(Chain_in(fat', op.first)) = k + 1
          /\ Chain_in(fat', op.first)[k + 1] = op.new
          /\ \A i \in 1 .. k : Chain_in(fat', op.first)[i] = s[i]
      BY <1>2, <1>3, <3>1, <3>2, ChainLinked
    <3> HIDE DEF s
    <3>4. j \in 1 .. k /\ j \in 1 .. k + 1 /\ k + 1 \in 1 .. k + 1
      BY <3>1
    <3>5. ToSet(Chain_in(fat', op.first)) = {Chain_in(fat', op.first)[i] : i \in 1 .. k + 1}
      BY <3>3 DEF IsChain, IsTrace, ToSet
    <3>6. QED
      BY <3>1, <3>3, <3>4, <3>5
  <2>6. \A m : m \in Whole' <=> m \in Whole
    BY <1>1, <1>3, <2>2, AllWholeNext
  <2>7. FilesSound'
    BY <1>1, <1>2, <2>4, <2>6, SameFiles DEF VolumeInv, FirstOfNone
  <2>8. CallSound'
    <3>1. Starts(fat', op.first)
      BY <1>2, <1>3, <2>4
    <3>2. CallSound /\ op'.pc \in Steps
      BY <2>2 DEF VolumeInv, Steps
    <3>3. QED
      BY <1>1, <1>2, <1>3, <2>2, <2>4, <2>5, <2>6, <3>1, <3>2, CallKept
  <2>9. ToldTheTruth' /\ DeletionSound' /\ BootUntouched'
    BY <2>2, <2>4 DEF ToldTheTruth, DeletionSound, VolumeInv, BootUntouched, Zeroed
  <2>10. QED
    BY <1>1, <2>4, <2>7, <2>8, <2>9 DEF VolumeInv
<1>8. QED
  BY <1>6, <1>7 DEF Link

(* The new cluster's entry and its zeroes, once more.                      *)
LEMMA MarkStep ==
  ASSUME VolumeInv, CarefulUse, Mark \/ Rezero
  PROVE  VolumeInv'
<1>1. op.pc \in {"mark", "rezero"} /\ TypeOK /\ TypeOK' /\ dir' = dir
  BY MarkType DEF Mark, Rezero, At, VolumeInv
<1>2. /\ op.new \in Clusters /\ fat[op.new] = Eoc /\ op.first # 0
      /\ op.pc \in Steps \ {"free", "remove"} /\ op.new \in ToSet(Chain(op.first))
      /\ (op.kind = "copy" => op.source # <<>>)
  BY <1>1, Prepares
<1>3. /\ op \in Operation /\ Writing /\ fat \in Table /\ Sound(fat)
      /\ op.cur \in ToSet(Chain(op.first))
  BY <1>2, Writes
<1>4. fat' = fat /\ data'[Boot] = data[Boot]
  <2>1. CASE Mark
    <3>1. [fat EXCEPT ![op.new] = Eoc] = fat
      BY <1>2, <1>3 DEF Table
    <3>2. QED
      BY <2>1, <3>1 DEF Mark, FailedWrite, Write_fat_entry, volume
  <2>2. CASE Rezero
    <3>1. Write_cluster(op.new, Zeroed) \/ UNCHANGED volume
      BY <2>2 DEF Rezero, FailedWrite
    <3>2. QED
      BY <1>1, <1>2, <3>1, BootKept DEF Write_cluster, volume
  <2>3. QED
    BY <2>1, <2>2
<1>5. CASE op' = [op EXCEPT !.pc = "rezero"]
  <2>1. /\ op'.pc = "rezero" /\ op'.first = op.first /\ op'.cur = op.cur /\ op'.new = op.new
        /\ op'.kind = op.kind /\ op'.name = op.name /\ op'.source = op.source
    BY <1>3, <1>5 DEF Operation
  <2>2. ToldTheTruth'
    BY <2>1 DEF ToldTheTruth
  <2>3. QED
    BY <1>1, <1>2, <1>3, <1>4, <2>1, <2>2, GoesOn DEF Preparing, Steps
<1>6. CASE op' = [op EXCEPT !.pc = "fill", !.cur = op.new]
  <2>1. /\ op'.pc = "fill" /\ op'.first = op.first /\ op'.cur = op.new /\ op'.new = op.new
        /\ op'.kind = op.kind /\ op'.name = op.name /\ op'.source = op.source
    BY <1>3, <1>6 DEF Operation
  <2>2. ToldTheTruth'
    BY <2>1 DEF ToldTheTruth
  <2>3. QED
    BY <1>1, <1>2, <1>3, <1>4, <2>1, <2>2, GoesOn DEF Preparing, Steps
<1>7. CASE Fail
  BY <1>1, <1>3, <1>4, <1>7, GivesUp DEF Fail
<1>8. QED
  BY <1>5, <1>6, <1>7 DEF Mark, Rezero, Goto

(* The directory entry at the end of a call.                               *)
LEMMA CloseStep ==
  ASSUME VolumeInv, CarefulUse, Close
  PROVE  VolumeInv'
<1>1. op.pc = "close" /\ op.pc \in Steps \ {"free", "remove"} /\ TypeOK /\ TypeOK'
      /\ fat' = fat /\ data' = data
  BY CloseType DEF Close, At, Steps, VolumeInv, volume
<1>2. /\ op \in Operation /\ Writing /\ fat \in Table /\ Sound(fat) /\ op.first # 0
      /\ Starts(fat, op.first) /\ op.cur \in ToSet(Chain(op.first))
      /\ op.kind # "delete" /\ op.name \in Name
      /\ \A m : m \in Whole <=> m \in Name /\ dir[m] # Absent
      /\ \A m \in Whole : dir[m].first = op.first => m = op.name
  BY <1>1, Writes
<1>3. /\ (op.kind = "copy" => op.source # <<>>)
      /\ (op.new = 0 \/ op.new \in ToSet(Chain(op.first)))
  BY <1>1, <1>2 DEF VolumeInv, CallSound, Preparing
<1>4. CASE dir' = dir /\ op' = NoOp
  BY <1>1, <1>2, <1>4, GivesUp
<1>5. CASE /\ dir' = [dir EXCEPT ![op.name] = Entry(op.first, NewSize(op))]
           /\ op' = NoOp \/ (op.kind = "copy" /\ op' = [op EXCEPT !.pc = "copy", !.size = NewSize(op)])
  <2>1. /\ \A m \in Name : m # op.name => dir'[m] = dir[m]
        /\ dir'[op.name] = Entry(op.first, NewSize(op)) /\ dir'[op.name].first = op.first
    BY <1>1, <1>2, <1>5 DEF TypeOK, Entry
  <2>2. dir'[op.name] # Absent
    <3>1. NewSize(op) \in Nat /\ op.first \in Clusters \cup {0}
      BY <1>2, Constants DEF NewSize, Operation
    <3>2. Entry(op.first, NewSize(op)) \in [first : Clusters \cup {0}, size : Nat]
      BY <3>1 DEF Entry
    <3>3. QED
      BY <2>1, <3>2, TextAssumption
  <2>3. op'.pc \in {"idle", "copy"}
    <3>1. op' = NoOp => op'.pc = "idle"
      BY DEF NoOp
    <3>2. [op EXCEPT !.pc = "copy", !.size = NewSize(op)].pc = "copy"
      BY <1>2 DEF Operation
    <3>3. QED
      BY <1>5, <3>1, <3>2
  <2>4. \A m : m \in Whole' <=> m \in Name /\ dir'[m] # Absent
    BY <2>3, AllWholeNext
  <2>5. FilesSound'
    <3>1. \A m \in Whole' : m # op.name => m \in Whole /\ dir'[m].first = dir[m].first
      BY <1>2, <2>1, <2>4
    <3>2. \A m \in Whole : m # op.name => dir[m].first # op.first
      BY <1>2
    <3>3. QED
      BY <1>1, <1>2, <2>1, <3>1, <3>2, FilesKept DEF VolumeInv
  <2>6. CallSound'
    <3>1. CASE op' = NoOp
      BY <3>1, CallOver
    <3>2. CASE op.kind = "copy" /\ op' = [op EXCEPT !.pc = "copy", !.size = NewSize(op)]
      <4>1. /\ op'.pc = "copy" /\ op'.first = op.first /\ op'.cur = op.cur /\ op'.new = op.new
            /\ op'.kind = op.kind /\ op'.name = op.name /\ op'.source = op.source
        BY <1>2, <3>2 DEF Operation
      <4>2. \A m \in Whole' : dir'[m].first = op'.first => m = op'.name
        BY <1>2, <2>1, <2>4, <4>1
      <4>3. QED
        BY <1>1, <1>2, <1>3, <2>1, <2>2, <3>2, <4>1, <4>2 DEF CallSound, Preparing, Chain
    <3>3. QED
      BY <1>5, <3>1, <3>2
  <2>7. ToldTheTruth' /\ DeletionSound' /\ BootUntouched' /\ Sound(fat')
    BY <1>1, <1>2, <2>3 DEF ToldTheTruth, DeletionSound, VolumeInv, BootUntouched, Zeroed
  <2>8. QED
    BY <1>1, <2>5, <2>6, <2>7 DEF VolumeInv
<1>6. QED
  BY <1>4, <1>5 DEF Close, Succeed, Fail, FailedWrite

(* file_copy between two appends.                                          *)
LEMMA CopyStep ==
  ASSUME VolumeInv, CarefulUse, Copy
  PROVE  VolumeInv'
<1>1. op.pc = "copy" /\ op.pc \in Steps \ {"free", "remove"} /\ TypeOK
      /\ fat' = fat /\ data' = data /\ dir' = dir
  BY DEF Copy, At, Steps, VolumeInv, volume
<1>2. /\ op \in Operation /\ Writing /\ Sound(fat) /\ op.kind = "copy" /\ op.source # <<>>
      /\ (op.first = 0 => op.cur = 0)
  BY <1>1, Writes DEF VolumeInv, CallSound
<1>3. TypeOK'
  BY <1>1, <1>2, CopyType
<1>4. CASE op' = NoOp
  BY <1>1, <1>2, <1>3, <1>4, GivesUp
<1>5. CASE /\ op.source.pos < op.source.size
           /\ \E end \in Clusters \cup {Boot} :
                /\ WalkToEnd(op.first, end)
                /\ op' = [ToEnd(op, ReadChunk(op.source).bytes, end)
                            EXCEPT !.source = ReadChunk(op.source).file]
  <2>1. PICK end \in Nodes :
                /\ WalkToEnd(op.first, end)
                /\ op' = [ToEnd(op, ReadChunk(op.source).bytes, end)
                            EXCEPT !.source = ReadChunk(op.source).file]
    BY <1>5 DEF Nodes
  <2> DEFINE e == ToEnd(op, ReadChunk(op.source).bytes, end)
  <2>2. op.source \in [name : Name, cur : Nodes, pos : Nat, size : Nat]
    BY <1>2 DEF Operation
  <2>3. ReadChunk(op.source).bytes \in Seq(Bytes)
        /\ ReadChunk(op.source).file \in [name : Name, cur : Nodes, pos : Nat, size : Nat]
    BY <1>1, <1>5, <2>2, ChunkType
  <2>4. /\ e \in Operation /\ e.pc = (IF op.first = 0 THEN "claim" ELSE "fill")
        /\ e.kind = op.kind /\ e.name = op.name /\ e.first = op.first /\ e.cur = end
        /\ e.new = op.new
    BY <1>2, <2>3, ToEndIs
  <2>5. op' = [e EXCEPT !.source = ReadChunk(op.source).file]
    BY <2>1
  <2> HIDE DEF e
  <2>6. /\ op'.pc = (IF op.first = 0 THEN "claim" ELSE "fill") /\ op'.kind = op.kind
        /\ op'.name = op.name /\ op'.first = op.first /\ op'.cur = end /\ op'.new = op.new
        /\ op'.source = ReadChunk(op.source).file
    BY <2>4, <2>5 DEF Operation
  <2>7. op'.source # <<>>
    <3>1. op'.source.name \in Name /\ DOMAIN op'.source = {"name", "cur", "pos", "size"}
      BY <2>3, <2>6
    <3>2. DOMAIN <<>> = {}
      OBVIOUS
    <3>3. QED
      BY <3>1, <3>2
  <2>8. (op.first = 0 => end = 0) /\ (op.first # 0 => end \in ToSet(Chain(op.first)))
    BY <1>1, <2>1, FirstIsOurs, EndIsOurs
  <2>9. ToldTheTruth'
    BY <2>6 DEF ToldTheTruth
  <2>10. QED
    BY <1>1, <1>2, <1>3, <2>6, <2>7, <2>8, <2>9, GoesOn DEF Steps, Preparing
<1>6. QED
  BY <1>4, <1>5 DEF Copy, Succeed, Fail

(* A deletion: the chain is freed from its start, then the entry goes.     *)
LEMMA FreeStep ==
  ASSUME VolumeInv, CarefulUse, FreeNext
  PROVE  VolumeInv'
<1>1. op.pc = "free" /\ TypeOK /\ TypeOK' /\ dir' = dir
  BY DeleteType DEF FreeNext, At, VolumeInv
<1>2. /\ op \in Operation /\ fat \in Table /\ Sound(fat) /\ FilesSound
  BY <1>1, Busy DEF VolumeInv, TypeOK, Table
<1>3. /\ op.kind = "delete" /\ op.new = 0
      /\ dir[op.name] # Absent /\ dir[op.name].first = op.first
      /\ Starts(fat, op.cur) /\ FirstOfNone(op.cur) /\ op.cur \in Clusters
      /\ op.first = op.cur \/ (op.first \in Clusters /\ fat[op.first] = Free)
  BY <1>1 DEF VolumeInv, DeletionSound, Starts
<1>4. /\ Write_fat_entry(op.cur, Free)
      /\ op' = IF fat[op.cur] = Eoc THEN [op EXCEPT !.pc = "remove"]
                                    ELSE [op EXCEPT !.cur = fat[op.cur]]
  BY <1>1, <1>3, FaultIs DEF FreeNext, FailedWrite
<1>5. Writes_entry(fat, fat', op.cur, Free) /\ data' = data
  BY <1>1, <1>4, EntryWritten
<1>6. /\ fat' \in Table /\ Sound(fat') /\ fat'[op.cur] = Free
      /\ \A d : Starts(fat, d) /\ d # op.cur => Starts(fat', d)
      /\ \/ fat[op.cur] = Eoc
         \/ Starts(fat', fat[op.cur]) /\ ~ Starts(fat, fat[op.cur])
      /\ \A d \in Clusters : d # op.cur => fat'[d] = fat[d]
  BY <1>2, <1>3, <1>5, FreedTable
<1>7. op'.name = op.name /\ op'.first = op.first /\ op'.kind = op.kind /\ op'.new = op.new
      /\ op'.pc = (IF fat[op.cur] = Eoc THEN "remove" ELSE "free")
      /\ op'.cur = (IF fat[op.cur] = Eoc THEN op.cur ELSE fat[op.cur])
  BY <1>1, <1>2, <1>4 DEF Operation
<1>8. \A m : m \in Whole' <=> m \in Whole
  BY <1>1, <1>7 DEF Whole, Files, Deleting
<1>9. FilesSound'
  BY <1>1, <1>2, <1>3, <1>6, <1>8, SameFiles DEF FirstOfNone
<1>10. op.first \in Clusters /\ fat'[op.first] = Free
  BY <1>3, <1>6
<1>11. DeletionSound'
  <2>1. CASE fat[op.cur] = Eoc
    BY <1>1, <1>3, <1>6, <1>7, <1>10, <2>1 DEF DeletionSound
  <2>2. CASE fat[op.cur] # Eoc
    <3>1. fat[op.cur] \in Clusters /\ Starts(fat', fat[op.cur]) /\ ~ Starts(fat, fat[op.cur])
      BY <1>6, <2>2 DEF Starts
    <3>2. \A m \in Whole' : dir'[m].first # op'.cur
      BY <1>1, <1>2, <1>7, <1>8, <2>2, <3>1, Constants DEF FilesSound
    <3>3. QED
      BY <1>1, <1>3, <1>7, <1>10, <2>2, <3>1, <3>2 DEF DeletionSound, FirstOfNone
  <2>3. QED
    BY <2>1, <2>2
<1>12. CallSound' /\ ToldTheTruth' /\ BootUntouched'
  BY <1>5, <1>7 DEF CallSound, Writing, ToldTheTruth, VolumeInv, BootUntouched, Zeroed
<1>13. QED
  BY <1>1, <1>6, <1>9, <1>11, <1>12 DEF VolumeInv

LEMMA RemoveStep ==
  ASSUME VolumeInv, CarefulUse, RemoveEntry
  PROVE  VolumeInv'
<1>1. op.pc = "remove" /\ TypeOK /\ TypeOK' /\ fat' = fat /\ data' = data
  BY DeleteType DEF RemoveEntry, At, VolumeInv, volume
<1>2. op.kind = "delete" /\ op \in Operation
  BY <1>1, Busy DEF VolumeInv, DeletionSound
<1>3. dir' = [dir EXCEPT ![op.name] = Absent] /\ op' = NoOp
  BY <1>1, <1>2, FaultIs DEF RemoveEntry, FailedWrite, Succeed
<1>4. \A m : m \in Whole' => m \in Whole /\ dir'[m] = dir[m]
  BY <1>1, <1>2, <1>3 DEF TypeOK, Whole, Files, Deleting, Operation
<1>5. FilesSound'
  BY <1>1, <1>4, SameFiles DEF VolumeInv
<1>6. QED
  BY <1>1, <1>3, <1>5, CallOver DEF VolumeInv, BootUntouched, Zeroed

LEMMA VolumeInit ==
  ASSUME Init
  PROVE  VolumeInv
<1>1. /\ fat = [c \in Clusters |-> Free] /\ data = [c \in Nodes |-> Zeroed]
      /\ dir = [n \in Name |-> Absent] /\ op = NoOp /\ faults = 0
      /\ contents = [n \in Name |-> Absent]
  BY DEF Init, FatInit, Nodes
<1>2. Zeroed \in [1 .. ClusterSize -> Bytes]
  BY DEF Zeroed, Bytes
<1>3. TypeOK
  BY <1>1, <1>2, FilesAssumption DEF TypeOK
<1>4. Sound(fat)
  BY <1>1, Constants DEF Sound
<1>5. Whole = {}
  BY <1>1 DEF Whole, Files
<1>6. FilesSound /\ CallSound /\ DeletionSound /\ ToldTheTruth
  BY <1>1, <1>5 DEF FilesSound, CallSound, DeletionSound, ToldTheTruth, Writing, Steps, NoOp
<1>7. BootUntouched
  BY <1>1, Constants DEF BootUntouched
<1>8. QED
  BY <1>3, <1>4, <1>6, <1>7 DEF VolumeInv

LEMMA VolumeStep ==
  ASSUME VolumeInv, CarefulUse, [Next]_vars
  PROVE  VolumeInv'
<1>1. CASE UNCHANGED vars
  BY <1>1 DEF vars, volume, VolumeInv, TypeOK, FilesSound, CallSound, DeletionSound,
              BootUntouched, ToldTheTruth, Whole, Files, Deleting, Writing, Preparing,
              FirstOfNone, Chain, Next_cluster, Zeroed
<1>2. CASE \E n \in Name : Create(n)
  BY <1>2, CreateStep
<1>3. CASE \/ \E n \in Name : StartDelete(n)
           \/ \E n \in Name, text \in Text : Write(n, text)
           \/ \E n \in Name, text \in Added : StartAppend(n, text)
  BY <1>3, OpenStep
<1>4. CASE \E n, m \in Name : StartCopy(n, m)
  BY <1>4, StartCopyStep
<1>5. CASE Seek \/ Empty \/ Claim \/ ZeroNew \/ Unclaim
  BY <1>5, SeekStep, EmptyStep, ClaimStep, ZeroNewStep, UnclaimStep
<1>6. CASE Fill \/ NothingToFill \/ Link \/ Mark \/ Rezero
  BY <1>6, FillStep, LinkStep, MarkStep
<1>7. CASE Close \/ Copy \/ FreeNext \/ RemoveEntry \/ Stop
  BY <1>7, CloseStep, CopyStep, FreeStep, RemoveStep, StopStep
<1>8. QED
  BY <1>1, <1>2, <1>3, <1>4, <1>5, <1>6, <1>7 DEF Next

(* What the theorems rest on: at every moment of every call, with any      *)
(* number of faults, the table, the directory entries and the file_t of    *)
(* the call agree.                                                         *)
THEOREM VolumeHolds ==
  ASSUME CarefulUse
  PROVE  Spec => []VolumeInv
<1>1. Init => VolumeInv
  BY VolumeInit
<1>2. VolumeInv /\ [Next]_vars => VolumeInv'
  BY VolumeStep
<1>3. QED
  BY <1>1, <1>2, PTL DEF Spec

(* From the invariant.                                                     *)
LEMMA VolumeOwned ==
  ASSUME VolumeInv
  PROVE  ChainsOwned
<1>1. fat \in Table /\ Sound(fat) /\ FilesSound
  BY DEF VolumeInv, TypeOK, Table
<1>2. ChainsEnd
  BY <1>1, ChainEnd DEF ChainsEnd, FilesSound, Chain, InUse
<1>3. ASSUME NEW n \in Whole, NEW m \in Whole, n # m
      PROVE  ClustersOf(dir[n].first) \cap ClustersOf(dir[m].first) = {}
  <2>1. CASE dir[n].first # 0 /\ dir[m].first # 0
    <3>1. Starts(fat, dir[n].first) /\ Starts(fat, dir[m].first) /\ dir[n].first # dir[m].first
      BY <1>1, <1>3, <2>1 DEF FilesSound
    <3>2. QED
      BY <1>1, <2>1, <3>1, ChainsApart DEF ClustersOf, Chain
  <2>2. CASE dir[n].first = 0 \/ dir[m].first = 0
    BY <2>2 DEF ClustersOf
  <2>3. QED
    BY <2>1, <2>2
<1>4. ASSUME NEW n \in Whole, At("zero") \/ At("unclaim")
      PROVE  op.new \notin ClustersOf(dir[n].first)
  <2>1. Starts(fat, op.new) /\ FirstOfNone(op.new)
    BY <1>4, Prepares DEF At
  <2>2. CASE dir[n].first # 0
    <3>1. Starts(fat, dir[n].first) /\ dir[n].first # op.new
      BY <1>1, <2>1, <2>2 DEF FilesSound, FirstOfNone
    <3>2. op.new \in ToSet(Chain_in(fat, op.new))
      BY <1>1, <2>1, ChainSet
    <3>3. QED
      BY <1>1, <2>1, <2>2, <3>1, <3>2, ChainsApart DEF ClustersOf, Chain
  <2>3. CASE dir[n].first = 0
    BY <2>3 DEF ClustersOf
  <2>4. QED
    BY <2>2, <2>3
<1>5. QED
  BY <1>2, <1>3, <1>4 DEF ChainsOwned, NoSharedCluster

(* The chain of every file ends, at an end mark and without passing a free *)
(* cluster, and no cluster is in two files or prepared for a second one by *)
(* fat32_allocate_cluster: the loops of file_append and                    *)
(* fat32_append_cluster, which do not count, come to an end.               *)
THEOREM ClustersAreOwned ==
  ASSUME CarefulUse
  PROVE  Spec => []ChainsOwned
<1>1. VolumeInv => ChainsOwned
  BY VolumeOwned
<1>2. QED
  BY <1>1, VolumeHolds, PTL

(* fat32_cluster_to_sector would send a write to cluster 0 to the boot     *)
(* sector: no call gets there.                                             *)
THEOREM BootIsUntouched ==
  ASSUME CarefulUse
  PROVE  Spec => []BootUntouched
<1>1. VolumeInv => BootUntouched
  BY DEF VolumeInv
<1>2. QED
  BY <1>1, VolumeHolds, PTL

-----------------------------------------------------------------------------
(* Nothing is lost.                                                        *)

LEMMA LosesNone ==
  ASSUME InUse(fat') \subseteq InUse(fat) \cup Reachable',
         \A c \in Reachable : c \in InUse(fat') => c \in Reachable'
  PROVE  Lost' \subseteq Lost
BY DEF Lost, InUse

(* A cluster that is in use and reached is one of a file's, of the chain   *)
(* that the call is writing, or the cluster that it prepares.              *)
LEMMA Reached ==
  ASSUME VolumeInv, op.pc \in Steps \ {"free", "remove"},
         NEW c \in Reachable, c \in Clusters
  PROVE  \/ \E n \in Whole : /\ dir[n].first # 0 /\ Starts(fat, dir[n].first)
                             /\ Preparing => dir[n].first # op.new
                             /\ c \in ToSet(Chain_in(fat, dir[n].first))
         \/ op.first # 0 /\ c \in ToSet(Chain_in(fat, op.first))
         \/ Preparing /\ c = op.new
<1>1. /\ Writing /\ fat \in Table /\ Sound(fat) /\ FilesSound /\ CallSound
      /\ \A m : m \in Whole <=> m \in Name /\ dir[m] # Absent
      /\ op.first = 0 => op.cur = 0
      /\ op.first # 0 => Starts(fat, op.first) /\ op.cur \in ToSet(Chain(op.first))
  BY Writes DEF VolumeInv
<1>2. CASE \E n \in Files : c \in ClustersOf(dir[n].first)
  <2>1. PICK n \in Whole : dir[n].first # 0 /\ c \in ToSet(Chain_in(fat, dir[n].first))
    BY <1>1, <1>2 DEF Files, ClustersOf, Chain
  <2>2. Starts(fat, dir[n].first)
    BY <1>1, <2>1 DEF FilesSound
  <2>3. Preparing => dir[n].first # op.new
    BY <1>1 DEF CallSound, FirstOfNone
  <2>4. QED
    BY <2>1, <2>2, <2>3
<1>3. CASE c \in ClustersOf(op.first)
  BY <1>3 DEF ClustersOf, Chain
<1>4. CASE c \in ClustersOf(op.cur)
  <2>1. op.cur # 0 /\ op.first # 0
    BY <1>1, <1>4 DEF ClustersOf
  <2>2. ToSet(Chain_in(fat, op.cur)) \subseteq ToSet(Chain_in(fat, op.first))
    BY <1>1, <2>1, RestOfChain DEF Chain
  <2>3. QED
    BY <1>4, <2>1, <2>2 DEF ClustersOf, Chain
<1>5. CASE c = op.new
  <2>1. Preparing \/ (op.first # 0 /\ op.new \in ToSet(Chain(op.first)))
    BY <1>1, <1>5, Constants DEF CallSound
  <2>2. QED
    BY <1>5, <2>1 DEF Chain
<1>6. QED
  BY <1>2, <1>3, <1>4, <1>5 DEF Reachable

LEMMA ReachedNext ==
  ASSUME TRUE
  PROVE  /\ \A n \in Files' : dir'[n].first # 0 =>
              ToSet(Chain_in(fat', dir'[n].first)) \subseteq Reachable'
         /\ op'.pc # "idle" =>
              /\ op'.new \in Reachable'
              /\ op'.first # 0 => ToSet(Chain_in(fat', op'.first)) \subseteq Reachable'
              /\ op'.cur # 0 => ToSet(Chain_in(fat', op'.cur)) \subseteq Reachable'
BY DEF Reachable, ClustersOf, Chain, At

(* A call that keeps what it reaches.                                      *)
LEMMA KeepsAll ==
  ASSUME VolumeInv, op.pc \in Steps \ {"free", "remove"}, fat' \in Table,
         InUse(fat') \subseteq InUse(fat) \cup Reachable',
         \A d : Starts(fat, d) /\ (Preparing => d # op.new)
                  => ToSet(Chain_in(fat, d)) \subseteq ToSet(Chain_in(fat', d)),
         \A n \in Whole : dir[n].first # 0 => n \in Files' /\ dir'[n].first = dir[n].first,
         op.first # 0 => ToSet(Chain_in(fat', op.first)) \subseteq Reachable',
         Preparing => op.new \in Reachable'
  PROVE  Lost' \subseteq Lost
<1>1. SUFFICES ASSUME NEW c \in Reachable, c \in InUse(fat')  PROVE c \in Reachable'
  BY LosesNone
<1>2. c \in Clusters
  BY <1>1 DEF InUse
<1>3. CASE \E n \in Whole : /\ dir[n].first # 0 /\ Starts(fat, dir[n].first)
                            /\ Preparing => dir[n].first # op.new
                            /\ c \in ToSet(Chain_in(fat, dir[n].first))
  BY <1>3, ReachedNext
<1>4. CASE op.first # 0 /\ c \in ToSet(Chain_in(fat, op.first))
  <2>1. Starts(fat, op.first) /\ (Preparing => op.first # op.new)
    BY <1>4, Writes DEF VolumeInv, CallSound
  <2>2. QED
    BY <1>4, <2>1
<1>5. CASE Preparing /\ c = op.new
  BY <1>5
<1>6. QED
  BY <1>2, <1>3, <1>4, <1>5, Reached

(* When the table stays as it is.                                          *)
LEMMA KeepsSame ==
  ASSUME VolumeInv, op.pc \in Steps \ {"free", "remove"}, fat' = fat,
         \A n \in Name : dir[n] # Absent => dir'[n] # Absent,
         \A n \in Name : dir[n].first # 0 => dir'[n].first = dir[n].first,
         \/ op'.pc # "idle" /\ op'.first = op.first /\ op'.new = op.new
         \/ dir'[op.name].first = op.first /\ ~ Preparing
  PROVE  Lost' \subseteq Lost
<1>1. /\ fat \in Table /\ op.name \in Name /\ dir[op.name] # Absent
      /\ \A m : m \in Whole <=> m \in Name /\ dir[m] # Absent
  BY Writes
<1>2. \A n \in Whole : n \in Files'
  BY <1>1 DEF Files
<1>3. op.first # 0 => ToSet(Chain_in(fat', op.first)) \subseteq Reachable'
  BY <1>1, <1>2, ReachedNext
<1>4. Preparing => op.new \in Reachable'
  BY ReachedNext
<1>5. QED
  BY <1>1, <1>2, <1>3, <1>4, KeepsAll

(* A step that does not give up.                                           *)
Keeps == op' = NoOp /\ ~ At("idle") => contents'[op.name] # Unknown

LEMMA NotFail ==
  ASSUME TypeOK, op.pc # "idle", Keeps
  PROVE  ~ Fail
BY Busy DEF Keeps, Fail, Noted, At, TypeOK, Operation

LEMMA StartKeeps ==
  ASSUME VolumeInv, NEW n \in Name,
         \/ Create(n) \/ StartDelete(n)
         \/ \E text \in Text : Write(n, text)
         \/ \E text \in Added : StartAppend(n, text)
         \/ \E m \in Name : StartCopy(m, n)
  PROVE  Lost' \subseteq Lost
<1>1. /\ op.pc = "idle" /\ fat' = fat
      /\ \A m \in Name : dir[m] # Absent => dir'[m] = dir[m]
  <2>1. dir' = dir \/ (dir[n] = Absent /\ dir' = [dir EXCEPT ![n] = Entry(0, 0)])
    BY DEF Create, StartDelete, Write, StartAppend, StartCopy
  <2>2. QED
    BY <2>1 DEF Create, StartDelete, Write, StartAppend, StartCopy, At, volume, VolumeInv, TypeOK
<1>2. ASSUME NEW c \in Reachable  PROVE c \in Reachable'
  <2>1. PICK m \in Files : dir[m].first # 0 /\ c \in ToSet(Chain_in(fat, dir[m].first))
    BY <1>1, <1>2 DEF Reachable, ClustersOf, Chain, At
  <2>2. m \in Files' /\ dir'[m] = dir[m]
    BY <1>1, <2>1 DEF Files
  <2>3. QED
    BY <1>1, <2>1, <2>2, ReachedNext
<1>3. QED
  BY <1>1, <1>2, LosesNone

(* The steps that write no table entry and stay with the chain.            *)
LEMMA CarriesOn ==
  ASSUME VolumeInv, ~ Fail,
         Seek \/ Empty \/ Fill \/ NothingToFill \/ Mark \/ Rezero
  PROVE  Lost' \subseteq Lost
<1>1. op.pc \in {"seek", "open", "fill", "mark", "rezero"}
      /\ op.pc \in Steps \ {"free", "remove"} /\ TypeOK
  BY DEF Seek, Empty, Fill, NothingToFill, Mark, Rezero, At, Steps, VolumeInv
<1>2. op \in Operation /\ fat \in Table
  BY <1>1, Writes
<1>3. fat' = fat
  <2>1. CASE Mark
    <3>1. op.new \in Clusters /\ fat[op.new] = Eoc
      BY <2>1, Prepares DEF Mark, At
    <3>2. [fat EXCEPT ![op.new] = Eoc] = fat
      BY <1>2, <3>1 DEF Table
    <3>3. QED
      BY <2>1, <3>2 DEF Mark, FailedWrite, Write_fat_entry, volume
  <2>2. CASE ~ Mark
    BY <2>2 DEF Seek, Empty, Fill, NothingToFill, Rezero, FailedWrite, Write_cluster, volume
  <2>3. QED
    BY <2>1, <2>2
<1>4. \A m \in Name : (dir[m] # Absent => dir'[m] # Absent) /\ dir'[m].first = dir[m].first
  BY EmptyDir DEF Seek, Fill, NothingToFill, Mark, Rezero
<1>5. op'.first = op.first /\ op'.new = op.new /\ op'.pc # "idle"
  <2>1. CASE Seek
    <3>1. PICK end \in Nodes : op' = ToEnd(op, op.text, end)
      BY <2>1 DEF Seek, Nodes
    <3>2. op.text \in Seq(Bytes)
      BY <1>2 DEF Operation
    <3>3. QED
      BY <1>2, <3>1, <3>2, ToEndIs
  <2>2. CASE Empty
    <3>1. op' = Begin(op)
      BY <2>2 DEF Empty
    <3>2. QED
      BY <1>2, <3>1, BeginIs
  <2>3. CASE Fill
    <3>1. CASE op' = [Moved(op) EXCEPT !.pc = "close"]
      BY <1>2, <3>1, MovedIs DEF Operation
    <3>2. CASE \E next \in Nodes \cup {Invalid} : op' = Extend(Moved(op), next)
      BY <1>2, <3>2, MovedIs, ExtendIs
    <3>3. QED
      BY <2>3, <3>1, <3>2 DEF Fill, Nodes
  <2>4. CASE NothingToFill \/ Mark \/ Rezero
    BY <1>2, <2>4 DEF NothingToFill, Mark, Rezero, Goto, Operation
  <2>5. QED
    BY <2>1, <2>2, <2>3, <2>4
<1>6. QED
  BY <1>1, <1>3, <1>4, <1>5, KeepsSame

LEMMA ClaimKeeps ==
  ASSUME VolumeInv, ~ Fail, Claim
  PROVE  Lost' \subseteq Lost
<1>1. op.pc = "claim" /\ op.pc \in Steps \ {"free", "remove"} /\ TypeOK /\ dir' = dir
  BY DEF Claim, At, Steps, VolumeInv
<1>2. /\ op \in Operation /\ fat \in Table /\ Sound(fat)
      /\ \A m : m \in Whole <=> m \in Name /\ dir[m] # Absent
  BY <1>1, Writes
<1>3. PICK c \in FreeClusters : Write_fat_entry(c, Eoc) /\ op' = [op EXCEPT !.pc = "zero", !.new = c]
  BY DEF Claim
<1>4. op'.pc = "zero" /\ op'.new = c /\ op'.first = op.first
  BY <1>2, <1>3 DEF Operation
<1>5. c \in Clusters /\ fat[c] = Free /\ Writes_entry(fat, fat', c, Eoc)
  BY <1>1, <1>3, EntryWritten DEF FreeClusters
<1>6. fat' \in Table /\ \A d \in InUse(fat) : fat'[d] = fat[d]
  BY <1>2, <1>5, MarkedTable
<1>7. InUse(fat') \subseteq InUse(fat) \cup {c}
  BY <1>5 DEF InUse, Writes_entry
<1>8. ASSUME NEW d, Starts(fat, d)  PROVE Chain_in(fat', d) = Chain_in(fat, d)
  <2>1. \A e \in ToSet(Chain_in(fat, d)) : fat'[e] = fat[e]
    BY <1>2, <1>6, <1>8, ChainSet
  <2>2. QED
    BY <1>2, <1>6, <1>8, <2>1, ChainKept
<1>9. c \in Reachable' /\ (op.first # 0 => ToSet(Chain_in(fat', op.first)) \subseteq Reachable')
  BY <1>4, ReachedNext
<1>10. \A n \in Whole : n \in Files' /\ dir'[n].first = dir[n].first
  BY <1>1, <1>2 DEF Files
<1>11. ~ Preparing
  BY <1>1 DEF Preparing
<1>12. QED
  BY <1>1, <1>6, <1>7, <1>8, <1>9, <1>10, <1>11, KeepsAll

LEMMA ZeroNewKeeps ==
  ASSUME VolumeInv, ZeroNew
  PROVE  Lost' \subseteq Lost
<1>1. op.pc = "zero" /\ op.pc \in Steps \ {"free", "remove"} /\ dir' = dir
  BY DEF ZeroNew, At, Steps
<1>2. /\ op \in Operation /\ fat \in Table
      /\ \A m : m \in Whole <=> m \in Name /\ dir[m] # Absent
  BY <1>1, Writes
<1>3. fat' = fat
  BY DEF ZeroNew, FailedWrite, Write_cluster, volume
<1>4. /\ op'.pc # "idle" /\ op'.new = op.new
      /\ op.first # 0 => op'.first = op.first
  BY <1>2 DEF ZeroNew, Goto, Operation
<1>5. op.new \in Reachable' /\ (op.first # 0 => ToSet(Chain_in(fat', op.first)) \subseteq Reachable')
  BY <1>4, ReachedNext
<1>6. \A n \in Whole : n \in Files'
  BY <1>1, <1>2 DEF Files
<1>7. QED
  BY <1>1, <1>2, <1>3, <1>5, <1>6, KeepsAll

(* Linking goes wrong only when the end of the chain was misread twice.    *)
LEMMA LinkKeeps ==
  ASSUME VolumeInv, ~ Fail, Link, MaxFaults <= 1
  PROVE  Lost' \subseteq Lost
<1>1. op.pc = "link" /\ TypeOK /\ dir' = dir
  BY DEF Link, At, VolumeInv
<1>2. /\ op.new \in Clusters /\ fat[op.new] = Eoc /\ Starts(fat, op.new)
      /\ op.new # op.first /\ op.pc \in Steps \ {"free", "remove"} /\ op.first # 0
  BY <1>1, Prepares
<1>3. /\ op \in Operation /\ fat \in Table /\ Sound(fat)
      /\ Starts(fat, op.first) /\ op.cur \in ToSet(Chain(op.first)) /\ op.cur \in Nodes
      /\ \A m : m \in Whole <=> m \in Name /\ dir[m] # Absent
  BY <1>2, Writes DEF Operation
<1>4. PICK end : /\ WalkToEnd(op.cur, end) /\ Write_fat_entry(end, op.new)
                 /\ op' = [op EXCEPT !.pc = "mark", !.excused = @ \/ end # Last(Chain(op.cur))]
  BY DEF Link
<1>5. op'.pc = "mark" /\ op'.first = op.first /\ op'.new = op.new
  BY <1>3, <1>4 DEF Operation
<1>6. Writes_entry(fat, fat', end, op.new) /\ end \in Clusters
  BY <1>1, <1>2, <1>4, EntryWritten
<1> DEFINE s == Chain_in(fat, op.first)
<1>7. end = Last(s)
  <2>1. Last(Chain(op.cur)) = Last(s)
    BY <1>3, RestOfChain DEF Chain
  <2>2. CASE end = Last(Chain(op.cur))
    BY <2>1, <2>2
  <2>3. CASE end # Last(Chain(op.cur))
    <3>1. faults < MaxFaults /\ faults \in Nat
      BY <1>1, <1>4, <2>3, FilesAssumption DEF WalkToEnd, Fault, TypeOK
    <3>2. ~ (faults > 0)
      BY <3>1, FilesAssumption
    <3>3. Next_in(fat, op.cur) = Invalid
      BY <1>1, <1>2, <3>2 DEF VolumeInv, ToldTheTruth, Next_cluster
    <3> DEFINE T == {op.cur}
    <3>4. \A d \in T : Next_in(fat, d) # Invalid => Next_in(fat, d) \in T
      BY <3>3
    <3>5. ToSet(Chain_in(fat, op.cur)) \subseteq T
          /\ Last(Chain_in(fat, op.cur)) \in ToSet(Chain_in(fat, op.cur))
      BY <1>3, <3>4, ChainWithin
    <3>6. end \in ToSet(Chain(op.cur))
      BY <1>4, <2>3 DEF WalkToEnd
    <3>7. QED
      BY <2>3, <3>5, <3>6 DEF Chain
  <2>4. QED
    BY <2>2, <2>3
<1>8. s \in Seq(Nodes) /\ Len(s) \in Nat \ {0} /\ Len(s) \in 1 .. Len(s) /\ Last(s) = s[Len(s)]
      /\ ToSet(s) = {s[i] : i \in 1 .. Len(s)}
  <2>1. IsChain(fat, op.first, s)
    BY <1>3, ChainFromStart
  <2> HIDE DEF s
  <2>2. s \in Seq(Nodes) /\ Len(s) \in Nat \ {0}
    BY <2>1, Constants DEF IsChain, IsTrace
  <2>3. QED
    BY <2>2 DEF Last, ToSet
<1>9. ToSet(s) \subseteq ToSet(Chain_in(fat', op.first))
  <2>1. Writes_entry(fat, fat', s[Len(s)], op.new)
    BY <1>6, <1>7, <1>8
  <2>2. /\ IsChain(fat', op.first, Chain_in(fat', op.first))
        /\ Len(Chain_in(fat', op.first)) = Len(s) + 1
        /\ \A i \in 1 .. Len(s) : Chain_in(fat', op.first)[i] = s[i]
    BY <1>2, <1>3, <1>8, <2>1, ChainLinked
  <2> HIDE DEF s
  <2>3. ToSet(Chain_in(fat', op.first)) = {Chain_in(fat', op.first)[i] : i \in 1 .. Len(s) + 1}
    BY <2>2 DEF IsChain, IsTrace, ToSet
  <2>4. \A i \in 1 .. Len(s) : i \in 1 .. Len(s) + 1
    BY <1>8
  <2>5. QED
    BY <1>8, <2>2, <2>3, <2>4
<1>10. end \in ToSet(s) /\ end \in InUse(fat) /\ end # op.new
  <2>1. Last(s) \in ToSet(s) /\ ToSet(s) \subseteq InUse(fat)
    BY <1>3, ChainEnd, ChainSet
  <2>2. ToSet(s) \cap ToSet(Chain_in(fat, op.new)) = {} /\ op.new \in ToSet(Chain_in(fat, op.new))
    BY <1>2, <1>3, ChainsApart, ChainSet
  <2>3. QED
    BY <1>7, <2>1, <2>2
<1>11. fat' \in Table /\ InUse(fat') = InUse(fat) /\ \A d \in Clusters : d # end => fat'[d] = fat[d]
  BY <1>2, <1>3, <1>6, <1>10, LinkedTable
<1>12. ASSUME NEW d, Starts(fat, d), d # op.new
       PROVE  ToSet(Chain_in(fat, d)) \subseteq ToSet(Chain_in(fat', d))
  <2>1. CASE d = op.first
    BY <1>9, <2>1
  <2>2. CASE d # op.first
    <3>1. ToSet(Chain_in(fat, d)) \cap ToSet(s) = {} /\ ToSet(Chain_in(fat, d)) \subseteq InUse(fat)
      BY <1>3, <1>12, <2>2, ChainsApart, ChainSet
    <3>2. \A e \in ToSet(Chain_in(fat, d)) : fat'[e] = fat[e]
      BY <1>10, <1>11, <3>1 DEF InUse
    <3>3. Chain_in(fat', d) = Chain_in(fat, d)
      BY <1>3, <1>11, <1>12, <3>2, ChainKept
    <3>4. QED
      BY <3>3
  <2>3. QED
    BY <2>1, <2>2
<1>13. op.new \in Reachable' /\ ToSet(Chain_in(fat', op.first)) \subseteq Reachable'
  BY <1>2, <1>5, ReachedNext
<1>14. \A n \in Whole : n \in Files' /\ dir'[n].first = dir[n].first
  BY <1>1, <1>3 DEF Files
<1>15. Preparing
  BY <1>1 DEF Preparing
<1>16. QED
  BY <1>2, <1>11, <1>12, <1>13, <1>14, <1>15, KeepsAll

LEMMA CloseKeeps ==
  ASSUME VolumeInv, ~ Fail, Close
  PROVE  Lost' \subseteq Lost
<1>1. op.pc = "close" /\ op.pc \in Steps \ {"free", "remove"} /\ TypeOK /\ TypeOK' /\ fat' = fat
  BY CloseType DEF Close, At, Steps, VolumeInv, volume
<1>2. /\ op \in Operation /\ op.name \in Name /\ op.first # 0
      /\ dir[op.name].first # 0 => op.first = dir[op.name].first
  BY <1>1, Writes
<1>3. dir' = [dir EXCEPT ![op.name] = Entry(op.first, NewSize(op))]
  BY DEF Close, FailedWrite
<1>4. dir'[op.name] = Entry(op.first, NewSize(op)) /\ \A m \in Name : m # op.name => dir'[m] = dir[m]
  BY <1>1, <1>2, <1>3 DEF TypeOK
<1>5. dir'[op.name] # Absent
  <2>1. NewSize(op) \in Nat /\ op.first \in Clusters \cup {0}
    BY <1>2, Constants DEF NewSize, Operation
  <2>2. Entry(op.first, NewSize(op)) \in [first : Clusters \cup {0}, size : Nat]
    BY <2>1 DEF Entry
  <2>3. QED
    BY <1>4, <2>2, TextAssumption
<1>6. dir'[op.name].first = op.first
  BY <1>4 DEF Entry
<1>7. ~ Preparing
  BY <1>1 DEF Preparing
<1>8. /\ \A m \in Name : dir[m] # Absent => dir'[m] # Absent
      /\ \A m \in Name : dir[m].first # 0 => dir'[m].first = dir[m].first
  BY <1>2, <1>4, <1>5, <1>6
<1>9. QED
  BY <1>1, <1>6, <1>7, <1>8, KeepsSame

LEMMA CopyKeeps ==
  ASSUME VolumeInv, ~ Fail, Copy
  PROVE  Lost' \subseteq Lost
<1>1. op.pc = "copy" /\ op.pc \in Steps \ {"free", "remove"} /\ fat' = fat /\ dir' = dir
  BY DEF Copy, At, Steps, volume
<1>2. /\ op \in Operation /\ op.source # <<>> /\ dir[op.name].first = op.first
  BY <1>1, Writes DEF VolumeInv, CallSound
<1>3. ~ Preparing
  BY <1>1 DEF Preparing
<1>4. QED
  BY <1>1, <1>2, <1>3, KeepsSame

(* The clusters of a file that is being deleted are its rest, or free.     *)
LEMMA FreedFile ==
  ASSUME NEW t \in Table, NEW c \in Clusters, t[c] = Free
  PROVE  \A d \in ToSet(Chain_in(t, c)) : d \notin InUse(t)
<1> DEFINE T == {c, 0}
<1>1. Next_in(t, c) = 0 /\ Next_in(t, 0) = Invalid
  BY Constants DEF Next_in
<1>2. \A d \in T : Next_in(t, d) # Invalid => Next_in(t, d) \in T
  BY <1>1
<1>3. ToSet(Chain_in(t, c)) \subseteq T
  BY <1>2, ChainWithin, Constants
<1>4. QED
  BY <1>3, Constants DEF InUse

LEMMA FreeKeeps ==
  ASSUME VolumeInv, ~ Fail, FreeNext
  PROVE  Lost' \subseteq Lost
<1>1. op.pc = "free" /\ TypeOK /\ dir' = dir
  BY DEF FreeNext, At, VolumeInv
<1>2. /\ op \in Operation /\ fat \in Table /\ Sound(fat) /\ FilesSound
  BY <1>1, Busy DEF VolumeInv, TypeOK, Table
<1>3. /\ op.new = 0 /\ dir[op.name] # Absent /\ dir[op.name].first = op.first
      /\ Starts(fat, op.cur) /\ FirstOfNone(op.cur) /\ op.cur \in Clusters
      /\ op.first = op.cur \/ (op.first \in Clusters /\ fat[op.first] = Free)
  BY <1>1 DEF VolumeInv, DeletionSound, Starts
<1>4. /\ Write_fat_entry(op.cur, Free)
      /\ op' = IF fat[op.cur] = Eoc THEN [op EXCEPT !.pc = "remove"]
                                    ELSE [op EXCEPT !.cur = fat[op.cur]]
  BY <1>3 DEF FreeNext
<1>5. Writes_entry(fat, fat', op.cur, Free)
  BY <1>1, <1>4, EntryWritten
<1>6. /\ fat' \in Table /\ Sound(fat') /\ fat'[op.cur] = Free
      /\ \/ fat[op.cur] = Eoc
         \/ Starts(fat', fat[op.cur]) /\ fat[op.cur] # op.cur
      /\ \A d \in Clusters : d # op.cur => fat'[d] = fat[d]
      /\ InUse(fat') = InUse(fat) \ {op.cur}
  BY <1>2, <1>3, <1>5, FreedTable
<1>7. op'.name = op.name /\ op'.pc = (IF fat[op.cur] = Eoc THEN "remove" ELSE "free")
      /\ op'.cur = (IF fat[op.cur] = Eoc THEN op.cur ELSE fat[op.cur])
  BY <1>1, <1>2, <1>4 DEF Operation
<1>8. op'.pc # "idle"
  BY <1>7
<1>9. ASSUME NEW c \in ToSet(Chain_in(fat, op.cur)), c \in InUse(fat')  PROVE c \in Reachable'
  <2>1. CASE fat[op.cur] = Eoc
    <3> DEFINE T == {op.cur}
    <3>1. Next_in(fat, op.cur) = Invalid /\ op.cur \in Nodes
      BY <1>3, <2>1, Constants DEF Next_in
    <3>2. ToSet(Chain_in(fat, op.cur)) \subseteq T
      BY <1>2, <3>1, ChainWithin
    <3>3. QED
      BY <1>6, <1>9, <3>2
  <2>2. CASE fat[op.cur] # Eoc
    <3> DEFINE rest == ToSet(Chain_in(fat', fat[op.cur]))
               T == {op.cur} \cup rest
    <3>1. Starts(fat', fat[op.cur]) /\ fat[op.cur] \in Clusters
      BY <1>6, <2>2 DEF Starts
    <3>2. /\ fat[op.cur] \in rest /\ rest \subseteq InUse(fat')
          /\ \A d \in rest : Next_in(fat', d) # Invalid => Next_in(fat', d) \in rest
      BY <1>6, <3>1, ChainSet
    <3>3. \A d \in rest : Next_in(fat, d) = Next_in(fat', d)
      BY <1>6, <3>2 DEF Next_in, InUse
    <3>4. Next_in(fat, op.cur) = fat[op.cur]
      BY <1>3, <2>2 DEF Next_in
    <3> HIDE DEF rest
    <3>5. \A d \in T : Next_in(fat, d) # Invalid => Next_in(fat, d) \in T
      BY <3>2, <3>3, <3>4
    <3>6. op.cur \in Nodes /\ op.cur \in T
      BY <1>3, Constants
    <3> HIDE DEF T
    <3>7. ToSet(Chain_in(fat, op.cur)) \subseteq T
      BY <1>2, <3>5, <3>6, ChainWithin
    <3>8. rest \subseteq Reachable'
      BY <1>7, <1>8, <2>2, <3>1, Constants, ReachedNext DEF rest
    <3>9. QED
      BY <1>6, <1>9, <3>7, <3>8 DEF T
  <2>3. QED
    BY <2>1, <2>2
<1>10. ASSUME NEW n \in Files, NEW c \in ClustersOf(dir[n].first), c \in InUse(fat')
       PROVE  c \in Reachable'
  <2>1. dir[n].first # 0 /\ c \in ToSet(Chain_in(fat, dir[n].first)) /\ n \in Files'
    BY <1>1, <1>10 DEF ClustersOf, Chain, Files
  <2>2. CASE n = op.name
    <3>1. CASE op.first = op.cur
      BY <1>3, <1>9, <1>10, <2>1, <2>2, <3>1
    <3>2. CASE op.first \in Clusters /\ fat[op.first] = Free
      BY <1>2, <1>3, <1>6, <1>10, <2>1, <2>2, <3>2, FreedFile
    <3>3. QED
      BY <1>3, <3>1, <3>2
  <2>3. CASE n # op.name
    <3>1. n \in Whole
      BY <2>3 DEF Whole, Deleting
    <3>2. Starts(fat, dir[n].first) /\ dir[n].first # op.cur
      BY <1>2, <1>3, <2>1, <3>1 DEF FilesSound, FirstOfNone
    <3>3. ToSet(Chain_in(fat, dir[n].first)) \cap ToSet(Chain_in(fat, op.cur)) = {}
          /\ op.cur \in ToSet(Chain_in(fat, op.cur))
          /\ ToSet(Chain_in(fat, dir[n].first)) \subseteq InUse(fat)
      BY <1>2, <1>3, <3>2, ChainsApart, ChainSet
    <3>4. \A d \in ToSet(Chain_in(fat, dir[n].first)) : fat'[d] = fat[d]
      BY <1>6, <3>3 DEF InUse
    <3>5. Chain_in(fat', dir[n].first) = Chain_in(fat, dir[n].first)
      BY <1>2, <1>6, <3>2, <3>4, ChainKept
    <3>6. QED
      BY <1>1, <2>1, <3>5, ReachedNext
  <2>4. QED
    BY <2>2, <2>3
<1>11. ASSUME NEW c \in ClustersOf(op.first) \cup {op.new} \cup ClustersOf(op.cur), c \in InUse(fat')
       PROVE  c \in Reachable'
  <2>1. CASE c \in ClustersOf(op.cur)
    BY <1>9, <1>11, <2>1 DEF ClustersOf, Chain
  <2>2. CASE c \in ClustersOf(op.first)
    <3>1. CASE op.first = op.cur
      BY <2>1, <2>2, <3>1
    <3>2. CASE op.first \in Clusters /\ fat[op.first] = Free
      BY <1>2, <1>6, <1>11, <2>2, <3>2, FreedFile DEF ClustersOf, Chain
    <3>3. QED
      BY <1>3, <3>1, <3>2
  <2>3. CASE c = op.new
    BY <1>3, <1>11, <2>3, Constants DEF InUse
  <2>4. QED
    BY <1>11, <2>1, <2>2, <2>3
<1>12. \A c \in Reachable : c \in InUse(fat') => c \in Reachable'
  BY <1>10, <1>11 DEF Reachable
<1>13. QED
  BY <1>6, <1>12, LosesNone

LEMMA RemoveKeeps ==
  ASSUME VolumeInv, ~ Fail, RemoveEntry
  PROVE  Lost' \subseteq Lost
<1>1. op.pc = "remove" /\ TypeOK /\ fat' = fat /\ fat \in Table
  BY DEF RemoveEntry, At, VolumeInv, volume, TypeOK, Table
<1>2. /\ op \in Operation /\ op.new = 0 /\ dir[op.name].first = op.first
      /\ \A c \in {op.first, op.cur} : c # 0 => c \in Clusters /\ fat[c] = Free
  BY <1>1, Busy DEF VolumeInv, DeletionSound
<1>3. dir' = [dir EXCEPT ![op.name] = Absent]
  BY DEF RemoveEntry, FailedWrite
<1>4. \A n \in Files : n # op.name => n \in Files' /\ dir'[n] = dir[n]
  BY <1>1, <1>3 DEF TypeOK, Files
<1>5. \A c \in ClustersOf(op.first) \cup ClustersOf(op.cur) \cup {op.new} : c \notin InUse(fat)
  <2>1. \A c \in ClustersOf(op.first) : c \notin InUse(fat)
    BY <1>1, <1>2, FreedFile DEF ClustersOf, Chain
  <2>2. \A c \in ClustersOf(op.cur) : c \notin InUse(fat)
    BY <1>1, <1>2, FreedFile DEF ClustersOf, Chain
  <2>3. op.new \notin InUse(fat)
    BY <1>2, Constants DEF InUse
  <2>4. QED
    BY <2>1, <2>2, <2>3
<1>6. ASSUME NEW n \in Files, NEW c \in ClustersOf(dir[n].first), c \in InUse(fat)
      PROVE  c \in Reachable'
  <2>1. n # op.name
    BY <1>2, <1>5, <1>6
  <2>2. dir[n].first # 0 /\ c \in ToSet(Chain_in(fat, dir[n].first))
    BY <1>6 DEF ClustersOf, Chain
  <2>3. QED
    BY <1>1, <1>4, <2>1, <2>2, ReachedNext
<1>7. \A c \in Reachable : c \in InUse(fat') => c \in Reachable'
  BY <1>1, <1>5, <1>6 DEF Reachable
<1>8. QED
  BY <1>1, <1>7, LosesNone

LEMMA StepLosesNone ==
  ASSUME VolumeInv, MaxFaults <= 1, [Next]_vars, Keeps
  PROVE  Lost' \subseteq Lost
<1>1. CASE UNCHANGED vars
  BY <1>1 DEF vars, volume, Lost, Reachable, Files, ClustersOf, Chain, At
<1>2. CASE \/ \E n \in Name : Create(n) \/ StartDelete(n)
           \/ \E n \in Name, text \in Text : Write(n, text)
           \/ \E n \in Name, text \in Added : StartAppend(n, text)
           \/ \E n, m \in Name : StartCopy(n, m)
  BY <1>2, StartKeeps
<1>3. CASE \/ Seek \/ Empty \/ Claim \/ ZeroNew \/ Unclaim \/ Fill \/ NothingToFill
           \/ Link \/ Mark \/ Rezero \/ Close \/ Copy \/ FreeNext \/ RemoveEntry \/ Stop
  <2>1. op.pc # "idle"
    BY <1>3 DEF Seek, Empty, Claim, ZeroNew, Unclaim, Fill, NothingToFill, Link, Mark, Rezero,
                Close, Copy, FreeNext, RemoveEntry, Stop, At
  <2>2. ~ Fail
    BY <2>1, NotFail DEF VolumeInv
  <2>3. ~ Unclaim /\ ~ Stop
    BY <2>2 DEF Unclaim, Stop
  <2>4. QED
    BY <1>3, <2>2, <2>3, CarriesOn, ClaimKeeps, ZeroNewKeeps, LinkKeeps, CloseKeeps, CopyKeeps,
       FreeKeeps, RemoveKeeps
<1>4. QED
  BY <1>1, <1>2, <1>3 DEF Next

(* A call that does not give up loses no cluster, whatever failed before,  *)
(* and with at most one fault.                                             *)
THEOREM ClustersAreKept ==
  ASSUME CarefulUse, MaxFaults <= 1
  PROVE  Spec => NothingLost
<1>1. VolumeInv /\ [Next]_vars =>
        [(op' = NoOp /\ ~ At("idle") => contents'[op.name] # Unknown) => Lost' \subseteq Lost]_vars
  BY StepLosesNone DEF Keeps
<1>2. QED
  BY <1>1, VolumeHolds, PTL DEF Spec, NothingLost

-----------------------------------------------------------------------------
(* What the files hold.                                                    *)

ByteIn(d, s, i) == d[s[((i - 1) \div ClusterSize) + 1]][((i - 1) % ClusterSize) + 1]

(* The chain from first, in the table t with the clusters d, begins with   *)
(* the first n bytes of x; a file with the entry e holds the text x.       *)
HoldsIn(t, d, first, x, n) ==
  n > 0 => /\ first # 0 /\ n <= ClusterSize * Len(Chain_in(t, first))
           /\ \A i \in 1 .. n : ByteIn(d, Chain_in(t, first), i) = x[i]

HoldsText(t, d, e, x) ==
  x # Unknown =>
    IF x = Absent THEN e = Absent
    ELSE e # Absent /\ e.size = Len(x) /\ HoldsIn(t, d, e.first, x, e.size)

LEMMA FileHoldsIs ==
  ASSUME TRUE
  PROVE  /\ \A n : FileHolds(n) <=> HoldsText(fat, data, dir[n], contents[n])
         /\ \A n : FileHolds(n)' <=> HoldsText(fat', data', dir'[n], contents'[n])
         /\ \A first, x, n : Holds(first, x, n) <=> HoldsIn(fat, data, first, x, n)
BY DEF FileHolds, HoldsText, Holds, HoldsIn, ByteOf, ByteIn, Chain

LEMMA Place ==
  ASSUME NEW i \in Nat \ {0}
  PROVE  /\ (i - 1) \div ClusterSize \in Nat
         /\ (i - 1) % ClusterSize \in 0 .. ClusterSize - 1
         /\ ((i - 1) % ClusterSize) + 1 \in 1 .. ClusterSize
         /\ i - 1 = ClusterSize * ((i - 1) \div ClusterSize) + ((i - 1) % ClusterSize)
<1>1. i - 1 \in Nat /\ ClusterSize \in Nat \ {0}
  BY Constants
<1>2. /\ (i - 1) \div ClusterSize \in Nat
      /\ (i - 1) % ClusterSize \in 0 .. ClusterSize - 1
      /\ i - 1 = ClusterSize * ((i - 1) \div ClusterSize) + ((i - 1) % ClusterSize)
  BY <1>1, DivMod
<1>3. QED
  BY <1>1, <1>2

LEMMA TimesMore ==
  ASSUME NEW b \in Nat \ {0}, NEW p \in Nat, NEW q \in Nat, p < q
  PROVE  b * q >= b * p + b /\ b * p \in Nat /\ b * q \in Nat
<1>1. q - p - 1 \in Nat
  OBVIOUS
<1>2. \A x \in Nat : b * x \in Nat
  OBVIOUS
<1>3. b * (q - p - 1) \in Nat /\ b * p \in Nat /\ b * q \in Nat
  BY <1>1, <1>2
<1>4. b * q = b * p + b + b * (q - p - 1)
  OBVIOUS
<1>5. QED
  BY <1>3, <1>4

(* Division is what it is in one way only.                                 *)
LEMMA PlaceIs ==
  ASSUME NEW k \in Nat, NEW j \in 0 .. ClusterSize - 1
  PROVE  /\ ClusterSize * k + j \in Nat
         /\ (ClusterSize * k + j) \div ClusterSize = k
         /\ (ClusterSize * k + j) % ClusterSize = j
<1> DEFINE a == ClusterSize * k + j
           q == a \div ClusterSize
           r == a % ClusterSize
<1>1. ClusterSize \in Nat \ {0}
  BY Constants
<1>2. \A x \in Nat : ClusterSize * x \in Nat
  BY <1>1
<1>3. ClusterSize * k \in Nat /\ a \in Nat
  BY <1>1, <1>2
<1> HIDE DEF a
<1>4. q \in Nat /\ r \in 0 .. ClusterSize - 1 /\ a = ClusterSize * q + r
  BY <1>1, <1>3, DivMod
<1> HIDE DEF q, r
<1>5. ClusterSize * q \in Nat
  BY <1>2, <1>4
<1>6. ClusterSize * k + j = ClusterSize * q + r
  BY <1>4 DEF a
<1>7. CASE k < q
  <2>1. ClusterSize * q >= ClusterSize * k + ClusterSize
    BY <1>1, <1>4, <1>7, TimesMore
  <2>2. QED
    BY <1>1, <1>3, <1>4, <1>5, <1>6, <2>1
<1>8. CASE q < k
  <2>1. ClusterSize * k >= ClusterSize * q + ClusterSize
    BY <1>1, <1>4, <1>8, TimesMore
  <2>2. QED
    BY <1>1, <1>3, <1>4, <1>5, <1>6, <2>1
<1>9. CASE k = q
  <2>1. r = j
    BY <1>3, <1>4, <1>6, <1>9
  <2>2. QED
    BY <1>3, <1>9, <2>1 DEF a, q, r
<1>10. QED
  BY <1>4, <1>7, <1>8, <1>9

(* The cluster that byte i of a chain is in.                               *)
LEMMA PlaceWithin ==
  ASSUME NEW n \in Nat, NEW i \in Nat \ {0}, i <= ClusterSize * n
  PROVE  ((i - 1) \div ClusterSize) + 1 \in 1 .. n
<1> DEFINE q == (i - 1) \div ClusterSize
<1>1. q \in Nat /\ i - 1 >= ClusterSize * q /\ ClusterSize \in Nat \ {0} /\ ClusterSize * q \in Nat
  <2>1. q \in Nat /\ (i - 1) % ClusterSize \in 0 .. ClusterSize - 1
        /\ i - 1 = ClusterSize * q + ((i - 1) % ClusterSize) /\ ClusterSize \in Nat \ {0}
    BY Place, Constants
  <2> HIDE DEF q
  <2>2. ClusterSize * q \in Nat
    BY <2>1
  <2>3. QED
    BY <2>1, <2>2
<1> HIDE DEF q
<1>2. q < n
  <2>1. SUFFICES ASSUME ~ (q < n)  PROVE FALSE
    OBVIOUS
  <2>2. CASE q = n
    BY <1>1, <2>2
  <2>3. CASE n < q
    <3>1. ClusterSize * q >= ClusterSize * n + ClusterSize /\ ClusterSize * n \in Nat
      BY <1>1, <2>3, TimesMore
    <3>2. QED
      BY <1>1, <3>1
  <2>4. QED
    BY <1>1, <2>1, <2>2, <2>3
<1>3. QED
  BY <1>1, <1>2 DEF q

(* A chain keeps its bytes as far as its clusters keep theirs.             *)
LEMMA HoldsKept ==
  ASSUME NEW t, NEW u, NEW d, NEW e, NEW first, NEW x, NEW n \in Nat,
         HoldsIn(t, d, first, x, n),
         first # 0 => /\ Len(Chain_in(t, first)) \in Nat /\ Len(Chain_in(u, first)) \in Nat
                      /\ Len(Chain_in(t, first)) <= Len(Chain_in(u, first))
                      /\ \A k \in 1 .. Len(Chain_in(t, first)) :
                           /\ Chain_in(u, first)[k] = Chain_in(t, first)[k]
                           /\ e[Chain_in(t, first)[k]] = d[Chain_in(t, first)[k]]
  PROVE  HoldsIn(u, e, first, x, n)
<1>1. SUFFICES ASSUME n > 0  PROVE
        /\ first # 0 /\ n <= ClusterSize * Len(Chain_in(u, first))
        /\ \A i \in 1 .. n : ByteIn(e, Chain_in(u, first), i) = x[i]
  BY DEF HoldsIn
<1> DEFINE s == Chain_in(t, first)
           v == Chain_in(u, first)
<1>2. first # 0 /\ n <= ClusterSize * Len(s) /\ \A i \in 1 .. n : ByteIn(d, s, i) = x[i]
  BY <1>1 DEF HoldsIn
<1>3. /\ Len(s) \in Nat /\ Len(v) \in Nat /\ Len(s) <= Len(v)
      /\ \A k \in 1 .. Len(s) : v[k] = s[k] /\ e[s[k]] = d[s[k]]
  BY <1>2
<1> HIDE DEF s, v
<1>4. n <= ClusterSize * Len(v)
  <2>1. ClusterSize * Len(s) \in Nat /\ ClusterSize * Len(v) \in Nat
        /\ ClusterSize * Len(s) <= ClusterSize * Len(v)
    <3>1. CASE Len(s) = Len(v)
      BY <1>3, <3>1, Constants
    <3>2. CASE Len(s) < Len(v)
      BY <1>3, <3>2, TimesMore, Constants
    <3>3. QED
      BY <1>3, <3>1, <3>2
  <2>2. QED
    BY <1>2, <2>1
<1>5. ASSUME NEW i \in 1 .. n  PROVE ByteIn(e, v, i) = x[i]
  <2>1. i \in Nat \ {0} /\ i <= ClusterSize * Len(s)
    BY <1>2, <1>3, Constants
  <2>2. ((i - 1) \div ClusterSize) + 1 \in 1 .. Len(s)
    BY <1>3, <2>1, PlaceWithin
  <2>3. ByteIn(e, v, i) = ByteIn(d, s, i)
    BY <1>3, <2>2 DEF ByteIn
  <2>4. QED
    BY <1>2, <2>3
<1>6. QED
  BY <1>2, <1>4, <1>5 DEF v

-----------------------------------------------------------------------------
(* The files that the call is not about.                                   *)

LEMMA NotMine ==
  ASSUME VolumeInv, op.pc # "idle", NEW n \in Whole, n # op.name, dir[n].first # 0,
         NEW d \in ToSet(Chain_in(fat, dir[n].first))
  PROVE  /\ d \in InUse(fat) /\ d \in Clusters
         /\ Writing /\ op.first # 0 => d \notin ToSet(Chain(op.first)) /\ d # op.cur
         /\ op.pc \in {"zero", "unclaim", "link", "mark", "rezero"} => d # op.new
         /\ op.pc = "free" => d # op.cur
<1>1. fat \in Table /\ Sound(fat) /\ FilesSound
  BY DEF VolumeInv, TypeOK, Table
<1> DEFINE first == dir[n].first
<1>2. Starts(fat, first)
  BY <1>1 DEF FilesSound
<1>3. d \in InUse(fat) /\ d \in Clusters
  BY <1>1, <1>2, ChainSet DEF InUse
<1>4. ASSUME Writing, op.first # 0  PROVE d \notin ToSet(Chain(op.first)) /\ d # op.cur
  <2>1. Starts(fat, op.first) /\ op.cur \in ToSet(Chain(op.first)) /\ first # op.first
    BY <1>4, Writes DEF Writing
  <2>2. QED
    BY <1>1, <1>2, <2>1, ChainsApart DEF Chain
<1>5. ASSUME op.pc \in {"zero", "unclaim", "link"}  PROVE d # op.new
  <2>1. Starts(fat, op.new) /\ FirstOfNone(op.new)
    BY <1>5, Prepares
  <2>2. first # op.new /\ op.new \in ToSet(Chain_in(fat, op.new))
    BY <1>1, <2>1, ChainSet DEF FirstOfNone
  <2>3. QED
    BY <1>1, <1>2, <2>1, <2>2, ChainsApart
<1>6. ASSUME op.pc \in {"mark", "rezero"}  PROVE d # op.new
  <2>1. op.first # 0 /\ op.new \in ToSet(Chain(op.first)) /\ Writing
    BY <1>6, Prepares DEF Writing
  <2>2. QED
    BY <1>4, <2>1
<1>7. ASSUME op.pc = "free"  PROVE d # op.cur
  <2>1. Starts(fat, op.cur) /\ FirstOfNone(op.cur)
    BY <1>7 DEF VolumeInv, DeletionSound
  <2>2. first # op.cur /\ op.cur \in ToSet(Chain_in(fat, op.cur))
    BY <1>1, <2>1, ChainSet DEF FirstOfNone
  <2>3. QED
    BY <1>1, <1>2, <2>1, <2>2, ChainsApart
<1>8. QED
  BY <1>3, <1>4, <1>5, <1>6, <1>7

(* A step of a call.                                                       *)
CallStep ==
  \/ Seek \/ Empty \/ Claim \/ ZeroNew \/ Unclaim \/ Fill \/ NothingToFill
  \/ Link \/ Mark \/ Rezero \/ Close \/ Copy \/ FreeNext \/ RemoveEntry \/ Stop

LEMMA EntryElsewhere ==
  ASSUME TypeOK, NEW c, NEW value, Write_fat_entry(c, value) \/ UNCHANGED volume,
         NEW d \in Clusters, d # c
  PROVE  fat'[d] = fat[d] /\ data'[d] = data[d]
BY DEF Write_fat_entry, volume, TypeOK

LEMMA ClusterElsewhere ==
  ASSUME TypeOK, NEW c, NEW bytes, Write_cluster(c, bytes) \/ UNCHANGED volume,
         NEW d \in Clusters, d # c
  PROVE  fat'[d] = fat[d] /\ data'[d] = data[d]
BY Constants DEF Write_cluster, volume, TypeOK

LEMMA LeavesAlone ==
  ASSUME VolumeInv, CallStep, NEW n \in Whole, n # op.name, dir[n].first # 0,
         NEW d \in ToSet(Chain_in(fat, dir[n].first))
  PROVE  fat'[d] = fat[d] /\ data'[d] = data[d]
<1>1. op.pc # "idle" /\ TypeOK
  BY DEF CallStep, Seek, Empty, Claim, ZeroNew, Unclaim, Fill, NothingToFill, Link, Mark, Rezero,
         Close, Copy, FreeNext, RemoveEntry, Stop, At, VolumeInv
<1>2. /\ d \in InUse(fat) /\ d \in Clusters
      /\ Writing /\ op.first # 0 => d \notin ToSet(Chain(op.first)) /\ d # op.cur
      /\ op.pc \in {"zero", "unclaim", "link", "mark", "rezero"} => d # op.new
      /\ op.pc = "free" => d # op.cur
  BY <1>1, NotMine
<1>3. CASE Seek \/ Empty \/ NothingToFill \/ Close \/ Copy \/ RemoveEntry \/ Stop
  BY <1>3 DEF Seek, Empty, NothingToFill, Close, Copy, RemoveEntry, Stop, volume
<1>4. CASE Claim
  <2>1. FreeClusters \in SUBSET Clusters /\ \A c \in FreeClusters : d # c
    BY <1>2 DEF FreeClusters, InUse
  <2>2. FreeClusters # {} => First_free(FreeClusters) \in FreeClusters
    BY <2>1, FirstFree
  <2>3. UNCHANGED volume \/ (FreeClusters # {} /\ Write_fat_entry(First_free(FreeClusters), Eoc))
        \/ \E c \in FreeClusters : Write_fat_entry(c, Eoc)
    BY <1>4 DEF Claim, FailedWrite
  <2>4. UNCHANGED volume \/ \E c \in FreeClusters : Write_fat_entry(c, Eoc)
    BY <2>2, <2>3
  <2>5. CASE UNCHANGED volume
    BY <2>5 DEF volume
  <2>6. ASSUME NEW c \in FreeClusters, Write_fat_entry(c, Eoc)
        PROVE  fat'[d] = fat[d] /\ data'[d] = data[d]
    BY <1>1, <1>2, <2>1, <2>6, EntryElsewhere
  <2>7. QED
    BY <2>4, <2>5, <2>6
<1>5. CASE ZeroNew \/ Rezero
  <2>1. Write_cluster(op.new, Zeroed) \/ UNCHANGED volume
    BY <1>5 DEF ZeroNew, Rezero, FailedWrite
  <2>2. d # op.new
    BY <1>2, <1>5 DEF ZeroNew, Rezero, At
  <2>3. QED
    BY <1>1, <1>2, <2>1, <2>2, ClusterElsewhere
<1>6. CASE Unclaim \/ Mark
  <2>1. (\E value : Write_fat_entry(op.new, value)) \/ UNCHANGED volume
    BY <1>6 DEF Unclaim, Mark, FailedWrite
  <2>2. d # op.new
    BY <1>2, <1>6 DEF Unclaim, Mark, At
  <2>3. QED
    BY <1>1, <1>2, <2>1, <2>2, EntryElsewhere
<1>7. CASE Fill
  <2>1. op.pc = "fill" /\ op.pc \in Steps \ {"free", "remove"}
    BY <1>7 DEF Fill, At, Steps
  <2>2. d # op.cur
    BY <1>2, <2>1, Writes
  <2>3. Write_cluster(op.cur, Filled(op)) \/ UNCHANGED volume
    BY <1>7 DEF Fill, FailedWrite
  <2>4. QED
    BY <1>1, <1>2, <2>2, <2>3, ClusterElsewhere
<1>8. CASE Link
  <2>1. op.pc = "link" /\ op.pc \in Steps \ {"free", "remove"} /\ op.first # 0
    BY <1>8, Prepares DEF Link, At
  <2>2. /\ fat \in Table /\ Sound(fat) /\ Starts(fat, op.first)
        /\ op.cur \in ToSet(Chain(op.first)) /\ Writing
    BY <2>1, Writes
  <2>3. Last(Chain(op.cur)) \in ToSet(Chain(op.first))
        /\ ToSet(Chain(op.cur)) \subseteq ToSet(Chain(op.first))
    BY <2>2, RestOfChain DEF Chain
  <2>4. UNCHANGED volume \/ \E c \in ToSet(Chain(op.first)) : Write_fat_entry(c, op.new)
    BY <1>8, <2>3 DEF Link, FailedWrite, WalkToEnd
  <2>5. CASE UNCHANGED volume
    BY <2>5 DEF volume
  <2>6. ASSUME NEW c \in ToSet(Chain(op.first)), Write_fat_entry(c, op.new)
        PROVE  fat'[d] = fat[d] /\ data'[d] = data[d]
    <3>1. d # c
      BY <1>2, <2>1, <2>2, <2>6
    <3>2. QED
      BY <1>1, <1>2, <2>6, <3>1, EntryElsewhere
  <2>7. QED
    BY <2>4, <2>5, <2>6
<1>9. CASE FreeNext
  <2>1. Write_fat_entry(op.cur, Free) \/ UNCHANGED volume
    BY <1>9 DEF FreeNext, FailedWrite
  <2>2. d # op.cur
    BY <1>2, <1>9 DEF FreeNext, At
  <2>3. QED
    BY <1>1, <1>2, <2>1, <2>2, EntryElsewhere
<1>10. QED
  BY <1>3, <1>4, <1>5, <1>6, <1>7, <1>8, <1>9 DEF CallStep

LEMMA OthersDir ==
  ASSUME VolumeInv, CallStep, NEW n \in Name, n # op.name
  PROVE  dir'[n] = dir[n] /\ contents'[n] = contents[n]
<1>1. contents' = contents \/ \E x : contents' = [contents EXCEPT ![op.name] = x]
  BY DEF CallStep, Seek, Empty, Claim, ZeroNew, Unclaim, Fill, NothingToFill, Link, Mark, Rezero,
         Close, Copy, FreeNext, RemoveEntry, Stop, Fail, Succeed, Noted
<1>2. contents'[n] = contents[n]
  BY <1>1 DEF VolumeInv, TypeOK
<1>3. dir' = dir \/ \E x : dir' = [dir EXCEPT ![op.name] = x]
  BY DEF CallStep, Seek, Empty, Claim, ZeroNew, Unclaim, Fill, NothingToFill, Link, Mark, Rezero,
         Close, Copy, FreeNext, RemoveEntry, Stop, FailedWrite
<1>4. dir'[n] = dir[n]
  BY <1>3 DEF VolumeInv, TypeOK
<1>5. QED
  BY <1>2, <1>4

LEMMA ChainLength ==
  ASSUME NEW t \in Table, NEW c \in Nodes
  PROVE  /\ Len(Chain_in(t, c)) \in Nat \ {0} /\ Chain_in(t, c)[1] = c
         /\ Chain_in(t, c) \in Seq(Nodes)
         /\ \A k \in 1 .. Len(Chain_in(t, c)) : Chain_in(t, c)[k] \in ToSet(Chain_in(t, c))
<1> DEFINE s == Chain_in(t, c)
<1>1. IsTrace(t, c, s)
  BY ChainIsTrace
<1> HIDE DEF s
<1>2. Len(s) \in Nat \ {0} /\ s[1] = c /\ s \in Seq(Nodes)
  BY <1>1, Constants DEF IsTrace
<1>3. \A k \in 1 .. Len(s) : s[k] \in ToSet(s)
  BY <1>2 DEF ToSet
<1>4. QED
  BY <1>2, <1>3 DEF s

(* The files that the call is not about hold what they held.               *)
LEMMA OthersHold ==
  ASSUME VolumeInv, TypeOK', CallStep, ContentsHeld, NEW n \in Name, n # op.name
  PROVE  FileHolds(n)'
<1>1. op.pc # "idle" /\ fat \in Table /\ fat' \in Table /\ Sound(fat) /\ FilesSound
  BY DEF CallStep, Seek, Empty, Claim, ZeroNew, Unclaim, Fill, NothingToFill, Link, Mark, Rezero,
         Close, Copy, FreeNext, RemoveEntry, Stop, At, VolumeInv, TypeOK, Table
<1>2. dir'[n] = dir[n] /\ contents'[n] = contents[n]
  BY OthersDir
<1>3. HoldsText(fat, data, dir[n], contents[n])
  BY <1>1, FileHoldsIs DEF ContentsHeld, At
<1>4. SUFFICES HoldsText(fat', data', dir[n], contents[n])
  BY <1>2, FileHoldsIs
<1>5. CASE contents[n] = Unknown \/ contents[n] = Absent
  BY <1>3, <1>5 DEF HoldsText
<1>6. CASE contents[n] # Unknown /\ contents[n] # Absent
  <2>1. dir[n] # Absent /\ dir[n].size = Len(contents[n])
        /\ HoldsIn(fat, data, dir[n].first, contents[n], dir[n].size)
    BY <1>3, <1>6 DEF HoldsText
  <2>2. dir[n].size \in Nat /\ dir[n].first \in Nodes
    BY <2>1 DEF VolumeInv, TypeOK
  <2>3. n \in Whole
    BY <2>1 DEF Whole, Files, Deleting
  <2>4. ASSUME dir[n].first # 0
        PROVE  /\ Len(Chain_in(fat, dir[n].first)) \in Nat
               /\ Chain_in(fat', dir[n].first) = Chain_in(fat, dir[n].first)
               /\ \A k \in 1 .. Len(Chain_in(fat, dir[n].first)) :
                    data'[Chain_in(fat, dir[n].first)[k]] = data[Chain_in(fat, dir[n].first)[k]]
    <3>1. \A d \in ToSet(Chain_in(fat, dir[n].first)) : fat'[d] = fat[d] /\ data'[d] = data[d]
      BY <2>3, <2>4, LeavesAlone
    <3>2. Starts(fat, dir[n].first)
      BY <1>1, <2>3, <2>4 DEF FilesSound
    <3>3. Chain_in(fat', dir[n].first) = Chain_in(fat, dir[n].first)
      BY <1>1, <3>1, <3>2, ChainKept
    <3>4. QED
      BY <1>1, <2>2, <3>1, <3>3, ChainLength
  <2>5. HoldsIn(fat', data', dir[n].first, contents[n], dir[n].size)
    BY <2>1, <2>2, <2>4, HoldsKept
  <2>6. QED
    BY <1>6, <2>1, <2>5 DEF HoldsText
<1>7. QED
  BY <1>5, <1>6

-----------------------------------------------------------------------------
(* The call that returns, and the call that goes on.                       *)

LEMMA Returned ==
  ASSUME VolumeInv, TypeOK', CallStep, ContentsInv, op' = NoOp,
         NEW x \in {Absent, Unknown} \cup Seq(Bytes), Noted(op.name, x),
         HoldsText(fat', data', dir'[op.name], x)
  PROVE  ContentsInv'
<1>1. contents' \in [Name -> {Absent, Unknown} \cup Seq(Bytes)]
  BY DEF Noted, ContentsInv
<1>2. \A n \in Name : n # op.name => FileHolds(n)'
  BY OthersHold DEF ContentsInv
<1>3. op.name \in Name => contents'[op.name] = x
  BY DEF Noted, ContentsInv
<1>4. \A n \in Name : FileHolds(n)'
  BY <1>2, <1>3, FileHoldsIs
<1>5. ContentsHeld'
  BY <1>4 DEF ContentsHeld
<1>6. WritesGoal' /\ SeekSound' /\ CopySound'
  BY DEF WritesGoal, SeekSound, CopySound, Filling, Steps, Writing, NoOp
<1>7. QED
  BY <1>1, <1>5, <1>6 DEF ContentsInv

LEMMA GaveUp ==
  ASSUME VolumeInv, TypeOK', CallStep, ContentsInv, Fail
  PROVE  ContentsInv'
<1>1. op' = NoOp /\ Noted(op.name, Unknown)
  BY DEF Fail
<1>2. HoldsText(fat', data', dir'[op.name], Unknown)
  BY DEF HoldsText
<1>3. QED
  BY <1>1, <1>2, Returned

(* What a call carries with it while it goes on.                           *)
LEMMA WentOn ==
  ASSUME VolumeInv, TypeOK', CallStep, ContentsInv,
         op'.name = op.name, op'.pc \in Steps, contents' = contents,
         WritesGoal', SeekSound', CopySound'
  PROVE  ContentsInv'
<1>1. \A n \in Name : n # op.name => FileHolds(n)'
  BY OthersHold DEF ContentsInv
<1>2. ContentsHeld'
  BY <1>1 DEF ContentsHeld, At, Steps
<1>3. QED
  BY <1>2 DEF ContentsInv

-----------------------------------------------------------------------------
(* The text that the call puts into its file.                              *)

(* The call o has put the first bytes of the text g into its chain.        *)
GoalSound(t, d, o, g) ==
  LET chain == Chain_in(t, o.first) IN
  /\ o.pos <= Len(g) /\ o.size <= Len(g)
  /\ o.todo = SubSeq(g, o.pos + 1, Len(g))
  /\ HoldsIn(t, d, o.first, g, o.pos)
  /\ o.pc \in {"claim", "zero", "link", "unclaim"} /\ o.first # 0 =>
       o.cur = Last(chain) /\ o.pos = ClusterSize * Len(chain)
  /\ o.pc \in {"mark", "rezero"} =>
       o.new = Last(chain) /\ o.pos = ClusterSize * (Len(chain) - 1)
  /\ o.pc \in {"open", "fill"} /\ o.first # 0 /\ o.todo # <<>> =>
       (o.pos \div ClusterSize) < Len(chain) /\ o.cur = chain[(o.pos \div ClusterSize) + 1]
  /\ o.first = 0 => o.pos = 0
  /\ o.pc = "close" => o.todo = <<>>

LEMMA WritesGoalIs ==
  ASSUME TRUE
  PROVE  /\ WritesGoal <=>
              (Filling /\ ~ op.excused /\ Goal # Unknown => GoalSound(fat, data, op, Goal))
         /\ WritesGoal' <=>
              (Filling' /\ ~ op'.excused /\ Goal' # Unknown => GoalSound(fat', data', op', Goal'))
<1>1. WritesGoal <=>
        (Filling /\ ~ op.excused /\ Goal # Unknown => GoalSound(fat, data, op, Goal))
  <2> DEFINE g == Goal
  <2>1. Holds(op.first, Goal, op.pos) <=> HoldsIn(fat, data, op.first, Goal, op.pos)
    BY FileHoldsIs
  <2>2. QED
    BY <2>1 DEF WritesGoal, GoalSound, Chain
<1>2. Holds(op.first, Goal, op.pos)' <=> HoldsIn(fat', data', op'.first, Goal', op'.pos)
  BY DEF Holds, HoldsIn, ByteOf, ByteIn, Chain
<1>3. WritesGoal' <=>
        (Filling' /\ ~ op'.excused /\ Goal' # Unknown => GoalSound(fat', data', op', Goal'))
  BY <1>2 DEF WritesGoal, GoalSound, Chain
<1>4. QED
  BY <1>1, <1>3

LEMMA SameGoal ==
  ASSUME op'.kind = op.kind, op'.text = op.text, op'.name = op.name,
         op.kind = "copy" => op'.source.name = op.source.name, contents' = contents
  PROVE  Goal' = Goal
BY DEF Goal

LEMMA SourceIs ==
  ASSUME VolumeInv, ContentsInv, Writing, op.kind = "copy"
  PROVE  /\ op.source \in [name : Name, cur : Nodes, pos : Nat, size : Nat]
         /\ op.source.name \in Name /\ op.source.name # op.name /\ dir[op.source.name] # Absent
         /\ op.source.cur = dir[op.source.name].first /\ op.source.size = dir[op.source.name].size
         /\ HoldsText(fat, data, dir[op.source.name], contents[op.source.name])
         /\ contents[op.source.name] # Absent
<1>1. op \in Operation /\ op.source # <<>> /\ op.pc # "idle"
  BY Busy DEF Writing, Steps, VolumeInv, CallSound
<1>2. op.source \in [name : Name, cur : Nodes, pos : Nat, size : Nat]
  BY <1>1 DEF Operation
<1>3. /\ op.source.name # op.name /\ dir[op.source.name] # Absent
      /\ op.source.cur = dir[op.source.name].first /\ op.source.size = dir[op.source.name].size
  BY DEF ContentsInv, CopySound
<1>4. HoldsText(fat, data, dir[op.source.name], contents[op.source.name])
  BY <1>2, <1>3, FileHoldsIs DEF ContentsInv, ContentsHeld
<1>5. contents[op.source.name] # Absent
  BY <1>3, <1>4, TextAssumption DEF HoldsText
<1>6. QED
  BY <1>2, <1>3, <1>4, <1>5

LEMMA GoalType ==
  ASSUME VolumeInv, ContentsInv, Writing
  PROVE  Goal \in {Unknown} \cup Seq(Bytes)
<1>1. op \in Operation /\ op.kind # "delete"
  BY Busy DEF Writing, Steps, VolumeInv, CallSound
<1>2. op.kind \in {"write", "append", "copy"} /\ op.text \in Seq(Bytes) /\ op.name \in Name
  BY <1>1 DEF Operation
<1>3. CASE op.kind = "write"
  BY <1>2, <1>3 DEF Goal
<1>4. CASE op.kind = "append"
  <2>1. contents[op.name] \in {Unknown} \cup Seq(Bytes)
    BY <1>2, <1>4 DEF ContentsInv, SeekSound
  <2>2. CASE contents[op.name] = Unknown
    BY <1>4, <2>2 DEF Goal
  <2>3. CASE contents[op.name] # Unknown
    <3>1. contents[op.name] \o op.text \in Seq(Bytes)
      BY <1>2, <2>1, <2>3
    <3>2. QED
      BY <1>4, <2>3, <3>1 DEF Goal
  <2>4. QED
    BY <2>2, <2>3
<1>5. CASE op.kind = "copy"
  <2>1. contents[op.source.name] \in {Unknown} \cup Seq(Bytes)
    BY <1>5, SourceIs DEF ContentsInv
  <2>2. QED
    BY <1>5, <2>1 DEF Goal
<1>6. QED
  BY <1>2, <1>3, <1>4, <1>5

(* A call that goes on with its file.                                      *)
LEMMA Continues ==
  ASSUME VolumeInv, TypeOK', CallStep, ContentsInv,
         op.pc \in Steps \ {"copy", "free", "remove"}, op'.pc \in Steps \ {"seek", "copy"},
         op'.name = op.name, op'.kind = op.kind, op'.source = op.source, op'.text = op.text,
         contents' = contents, ~ op'.excused => ~ op.excused,
         Goal' = Goal /\ ~ op'.excused /\ ~ op.excused /\ Goal # Unknown =>
           GoalSound(fat', data', op', Goal)
  PROVE  ContentsInv'
<1>1. Writing
  BY DEF Writing
<1>2. Goal' = Goal
  BY SameGoal
<1>3. WritesGoal'
  BY <1>2, WritesGoalIs
<1>4. SeekSound'
  BY <1>1 DEF SeekSound, ContentsInv, Writing
<1>5. CopySound'
  <2>1. SUFFICES ASSUME op.kind = "copy"  PROVE CopySound'
    BY DEF CopySound
  <2>2. op.source.name \in Name /\ op.source.name # op.name
    BY <1>1, <2>1, SourceIs
  <2>3. dir'[op.source.name] = dir[op.source.name]
    BY <2>2, OthersDir
  <2>4. QED
    BY <2>1, <2>2, <2>3 DEF ContentsInv, CopySound
<1>6. QED
  BY <1>3, <1>4, <1>5, WentOn

(* Steps that write nothing into the chain of their file.                  *)
LEMMA SameChain ==
  ASSUME VolumeInv, TypeOK', op.pc \in Steps \ {"free", "remove"}, fat' \in Table,
         NEW g, NEW n \in Nat, HoldsIn(fat, data, op.first, g, n),
         op.first # 0 => /\ Chain_in(fat', op.first) = Chain_in(fat, op.first)
                         /\ \A d \in ToSet(Chain(op.first)) : data'[d] = data[d]
  PROVE  HoldsIn(fat', data', op.first, g, n)
<1>1. op.first \in Nodes /\ fat \in Table
  BY Writes DEF Operation
<1>2. \A k \in 1 .. Len(Chain_in(fat, op.first)) :
        Chain_in(fat, op.first)[k] \in ToSet(Chain_in(fat, op.first))
  BY <1>1, ChainLength
<1>3. Len(Chain_in(fat, op.first)) \in Nat
  BY <1>1, ChainLength
<1>4. QED
  BY <1>2, <1>3, HoldsKept DEF Chain

-----------------------------------------------------------------------------
(* The steps keep the contents.                                            *)

LEMMA StillHolds ==
  ASSUME VolumeInv, ContentsInv, op.pc = "idle", fat' = fat, data' = data,
         NEW n \in Name, dir'[n] = dir[n], contents'[n] = contents[n]
  PROVE  FileHolds(n)'
BY FileHoldsIs DEF ContentsInv, ContentsHeld, At

LEMMA EmptyFile ==
  ASSUME NEW t, NEW d
  PROVE  /\ HoldsText(t, d, Entry(0, 0), <<>>) /\ Entry(0, 0) # Absent
         /\ <<>> # Absent /\ <<>> # Unknown
<1>1. Entry(0, 0) \in [first : Clusters \cup {0}, size : Nat]
  BY DEF Entry
<1>2. <<>> \in Seq(Bytes) /\ Len(<<>>) = 0
  OBVIOUS
<1>3. Entry(0, 0) # Absent /\ <<>> # Absent /\ <<>> # Unknown
  BY <1>1, <1>2, TextAssumption
<1>4. Entry(0, 0).size = 0 /\ HoldsIn(t, d, Entry(0, 0).first, <<>>, 0)
  BY DEF Entry, HoldsIn
<1>5. QED
  BY <1>2, <1>3, <1>4 DEF HoldsText

LEMMA CreateContents ==
  ASSUME VolumeInv, ContentsInv, NEW n \in Name, Create(n)
  PROVE  ContentsInv'
<1>1. /\ op.pc = "idle" /\ op' = op /\ fat' = fat /\ data' = data
      /\ dir' = [dir EXCEPT ![n] = Entry(0, 0)] /\ contents' = [contents EXCEPT ![n] = <<>>]
  BY DEF Create, At, Noted, volume
<1>2. /\ dir'[n] = Entry(0, 0) /\ contents'[n] = <<>>
      /\ \A m \in Name : m # n => dir'[m] = dir[m] /\ contents'[m] = contents[m]
  BY <1>1 DEF VolumeInv, TypeOK
<1>3. FileHolds(n)'
  BY <1>2, EmptyFile, FileHoldsIs
<1>4. \A m \in Name : FileHolds(m)'
  BY <1>1, <1>2, <1>3, StillHolds
<1>5. contents' \in [Name -> {Absent, Unknown} \cup Seq(Bytes)]
  BY <1>1 DEF ContentsInv
<1>6. op' = NoOp
  BY <1>1, Quiet DEF VolumeInv
<1>7. WritesGoal' /\ SeekSound' /\ CopySound'
  BY <1>6 DEF WritesGoal, SeekSound, CopySound, Filling, Steps, Writing, NoOp
<1>8. QED
  BY <1>4, <1>5, <1>7 DEF ContentsInv, ContentsHeld

LEMMA OpenContents ==
  ASSUME VolumeInv, ContentsInv, NEW n \in Name,
         \/ StartDelete(n)
         \/ \E text \in Text : Write(n, text)
         \/ \E text \in Added : StartAppend(n, text)
  PROVE  ContentsInv'
<1>1. /\ op.pc = "idle" /\ dir[n] # Absent /\ fat' = fat /\ data' = data /\ dir' = dir
      /\ contents' = contents
  BY DEF StartDelete, Write, StartAppend, At, volume
<1>2. /\ \A m \in Name : FileHolds(m)'
      /\ contents' \in [Name -> {Absent, Unknown} \cup Seq(Bytes)]
  BY <1>1, StillHolds DEF ContentsInv
<1>3. ContentsHeld'
  BY <1>2 DEF ContentsHeld
<1>4. CASE StartDelete(n)
  <2>1. op'.pc \in {"free", "remove"} /\ op'.kind = "delete"
    BY <1>4 DEF StartDelete, Opened
  <2>2. WritesGoal' /\ SeekSound' /\ CopySound'
    BY <2>1 DEF WritesGoal, SeekSound, CopySound, Filling, Steps, Writing
  <2>3. QED
    BY <1>2, <1>3, <2>2 DEF ContentsInv
<1>5. ASSUME NEW text \in Text, Write(n, text)  PROVE ContentsInv'
  <2>1. /\ op'.pc = "open" /\ op'.kind = "write" /\ op'.name = n /\ op'.first = dir[n].first
        /\ op'.cur = dir[n].first /\ op'.size = 0 /\ op'.pos = 0 /\ op'.text = text
        /\ op'.todo = text
    BY <1>5 DEF Write, Opened
  <2>2. text \in Seq(Bytes) /\ Len(text) \in Nat
    BY TextAssumption
  <2>3. Goal' = text
    BY <2>1 DEF Goal
  <2>4. GoalSound(fat', data', op', text)
    <3>1. text = SubSeq(text, 1, Len(text))
      BY <2>2
    <3>2. 0 \div ClusterSize = 0
      <4>1. ClusterSize * 0 + 0 = 0 /\ 0 \in 0 .. ClusterSize - 1
        BY Constants
      <4>2. QED
        BY <4>1, PlaceIs
    <3>3. HoldsIn(fat', data', op'.first, text, 0)
      BY DEF HoldsIn
    <3>4. op'.first # 0 => 0 < Len(Chain_in(fat', op'.first)) /\ op'.cur = Chain_in(fat', op'.first)[1]
      <4>1. fat \in Table /\ dir[n].first \in Nodes
        BY <1>1 DEF VolumeInv, TypeOK, Table
      <4>2. QED
        BY <1>1, <2>1, <4>1, ChainLength
    <3>5. op'.pos + 1 = 1 /\ op'.pos \div ClusterSize = 0 /\ (op'.pos \div ClusterSize) + 1 = 1
      BY <2>1, <3>2
    <3>6. QED
      BY <2>1, <2>2, <3>1, <3>3, <3>4, <3>5 DEF GoalSound
  <2>5. WritesGoal' /\ SeekSound' /\ CopySound'
    BY <2>1, <2>3, <2>4, WritesGoalIs DEF SeekSound, CopySound
  <2>6. QED
    BY <1>2, <1>3, <2>5 DEF ContentsInv
<1>6. ASSUME NEW text \in Added, StartAppend(n, text)  PROVE ContentsInv'
  <2>1. /\ op'.pc = "seek" /\ op'.kind = "append" /\ op'.name = n /\ op'.first = dir[n].first
        /\ op'.size = dir[n].size
    BY <1>6 DEF StartAppend, Opened
  <2>2. contents[n] # Absent
    <3>1. HoldsText(fat, data, dir[n], contents[n])
      BY <1>1, FileHoldsIs DEF ContentsInv, ContentsHeld, At
    <3>2. QED
      BY <1>1, <3>1, TextAssumption DEF HoldsText
  <2>3. SeekSound'
    BY <1>1, <1>2, <2>1, <2>2 DEF SeekSound
  <2>4. WritesGoal' /\ CopySound'
    BY <2>1 DEF WritesGoal, CopySound, Filling
  <2>5. QED
    BY <1>2, <1>3, <2>3, <2>4 DEF ContentsInv
<1>7. QED
  BY <1>4, <1>5, <1>6

(* A copy of at most a cluster, or one that is not accountable.            *)
LEMMA StartCopyContents ==
  ASSUME VolumeInv, ContentsInv, ~ Accountable, NEW n \in Name, NEW m \in Name, StartCopy(n, m)
  PROVE  ContentsInv'
<1>1. /\ op.pc = "idle" /\ dir[n] # Absent /\ dir[m] = Absent /\ fat' = fat /\ data' = data
      /\ dir' = [dir EXCEPT ![m] = Entry(0, 0)] /\ contents' = contents
  BY DEF StartCopy, At, volume
<1>2. /\ op'.pc = "copy" /\ op'.kind = "copy" /\ op'.name = m /\ op'.first = 0 /\ op'.size = 0
      /\ op'.source = SourceFile(n) /\ op'.excused = (dir[n].size > ClusterSize)
  BY DEF StartCopy
<1>3. n # m /\ dir'[n] = dir[n] /\ dir'[m] = Entry(0, 0)
      /\ \A k \in Name : k # m => dir'[k] = dir[k]
  BY <1>1 DEF VolumeInv, TypeOK
<1>4. \A k \in Name : k # m => FileHolds(k)'
  BY <1>1, <1>3, StillHolds
<1>5. ContentsHeld'
  BY <1>2, <1>4 DEF ContentsHeld, At
<1>6. CopySound'
  <2>1. SourceFile(n).name = n /\ SourceFile(n).cur = dir[n].first
        /\ SourceFile(n).size = dir[n].size /\ SourceFile(n).pos = 0
    BY DEF SourceFile
  <2>2. dir[n].size \in Nat
    BY <1>1 DEF VolumeInv, TypeOK
  <2>3. ~ op'.excused => dir[n].size <= ClusterSize
    <3>1. SUFFICES ASSUME ~ op'.excused  PROVE dir[n].size <= ClusterSize
      OBVIOUS
    <3>2. ~ (dir[n].size > ClusterSize)
      BY <1>2, <3>1, Zenon
    <3>3. QED
      BY <2>2, <3>2, Constants
  <2>4. QED
    BY <1>1, <1>2, <1>3, <2>1, <2>3 DEF CopySound
<1>7. WritesGoal' /\ SeekSound'
  BY <1>2 DEF WritesGoal, SeekSound, Filling
<1>8. QED
  BY <1>1, <1>5, <1>6, <1>7 DEF ContentsInv

LEMMA GoalHeld ==
  ASSUME VolumeInv, ContentsInv, op.pc \in Steps \ {"seek", "copy", "free", "remove"},
         ~ op.excused, Goal # Unknown
  PROVE  GoalSound(fat, data, op, Goal) /\ Goal \in Seq(Bytes)
<1>1. Filling /\ Writing
  BY DEF Filling, Writing
<1>2. QED
  BY <1>1, WritesGoalIs, GoalType DEF ContentsInv

LEMMA EmptyContents ==
  ASSUME VolumeInv, TypeOK', ContentsInv, Empty
  PROVE  ContentsInv'
<1>1. CASE Fail
  BY <1>1, GaveUp DEF CallStep
<1>2. CASE ~ Fail
  <2>1. /\ op.pc = "open" /\ fat' = fat /\ data' = data /\ op' = Begin(op)
        /\ contents' = contents
    BY <1>2 DEF Empty, At, volume
  <2>2. op \in Operation
    BY <2>1, Writes DEF Steps
  <2>3. ASSUME ~ op.excused, Goal # Unknown  PROVE GoalSound(fat', data', op', Goal)
    <3>1. GoalSound(fat, data, op, Goal)
      BY <2>1, <2>3, GoalHeld DEF Steps
    <3>2. QED
      BY <2>1, <2>2, <3>1, BeginIs DEF GoalSound
  <2>4. QED
    BY <2>1, <2>2, <2>3, BeginIs, Continues DEF CallStep, Steps
<1>3. QED
  BY <1>1, <1>2

LEMMA NothingContents ==
  ASSUME VolumeInv, TypeOK', ContentsInv, NothingToFill
  PROVE  ContentsInv'
<1>1. /\ op.pc = "fill" /\ op.todo = <<>> /\ fat' = fat /\ data' = data
      /\ op' = [op EXCEPT !.pc = "close"] /\ contents' = contents
  BY DEF NothingToFill, At, Goto, volume
<1>2. op \in Operation
  BY <1>1, Writes DEF Steps
<1>3. /\ op'.pc = "close" /\ op'.kind = op.kind /\ op'.name = op.name /\ op'.first = op.first
      /\ op'.cur = op.cur /\ op'.size = op.size /\ op'.pos = op.pos /\ op'.text = op.text
      /\ op'.todo = op.todo /\ op'.source = op.source /\ op'.excused = op.excused
  BY <1>1, <1>2 DEF Operation
<1>4. ASSUME ~ op.excused, Goal # Unknown  PROVE GoalSound(fat', data', op', Goal)
  <2>1. GoalSound(fat, data, op, Goal)
    BY <1>1, <1>4, GoalHeld DEF Steps
  <2>2. QED
    BY <1>1, <1>3, <2>1 DEF GoalSound
<1>5. QED
  BY <1>1, <1>3, <1>4, Continues DEF CallStep, Steps

(* The tables of Claim and Mark leave the chain of the file as it was.     *)
LEMMA ClaimContents ==
  ASSUME VolumeInv, TypeOK', ContentsInv, Claim
  PROVE  ContentsInv'
<1>1. CASE Fail
  BY <1>1, GaveUp DEF CallStep
<1>2. CASE ~ Fail
  <2>1. PICK c \in FreeClusters : /\ Write_fat_entry(c, Eoc) /\ op.pc = "claim"
                                  /\ op' = [op EXCEPT !.pc = "zero", !.new = c]
                                  /\ contents' = contents
    BY <1>2 DEF Claim, At
  <2>2. op \in Operation /\ fat \in Table /\ Sound(fat)
    BY <2>1, Writes DEF Steps
  <2>3. /\ op'.pc = "zero" /\ op'.kind = op.kind /\ op'.name = op.name /\ op'.first = op.first
        /\ op'.cur = op.cur /\ op'.size = op.size /\ op'.pos = op.pos /\ op'.text = op.text
        /\ op'.todo = op.todo /\ op'.source = op.source /\ op'.excused = op.excused
    BY <2>1, <2>2 DEF Operation
  <2>4. data' = data /\ fat' \in Table /\ \A d \in InUse(fat) : fat'[d] = fat[d]
    <3>1. Writes_entry(fat, fat', c, Eoc) /\ data' = data
      BY <2>1, EntryWritten DEF VolumeInv
    <3>2. \A d \in InUse(fat) : d \in Clusters /\ d # c
      BY DEF InUse, FreeClusters
    <3>3. QED
      BY <3>1, <3>2 DEF Writes_entry
  <2>5. op.first # 0 => Chain_in(fat', op.first) = Chain_in(fat, op.first)
    <3>1. SUFFICES ASSUME op.first # 0  PROVE Chain_in(fat', op.first) = Chain_in(fat, op.first)
      OBVIOUS
    <3>2. Starts(fat, op.first)
      BY <2>1, <3>1, Writes DEF Steps
    <3>3. QED
      BY <2>2, <2>4, <3>2, ChainSet, ChainKept
  <2>6. ASSUME ~ op.excused, Goal # Unknown  PROVE GoalSound(fat', data', op', Goal)
    <3>1. GoalSound(fat, data, op, Goal)
      BY <2>1, <2>6, GoalHeld DEF Steps
    <3>2. op.pos \in Nat
      BY <2>2 DEF Operation
    <3>3. HoldsIn(fat', data', op.first, Goal, op.pos)
      BY <2>1, <2>4, <2>5, <3>1, <3>2, SameChain DEF GoalSound, Steps
    <3>4. QED
      BY <2>1, <2>3, <2>5, <3>1, <3>3 DEF GoalSound
  <2>7. QED
    BY <2>1, <2>3, <2>6, Continues DEF CallStep, Steps
<1>3. QED
  BY <1>1, <1>2

LEMMA MarkContents ==
  ASSUME VolumeInv, TypeOK', ContentsInv, Mark
  PROVE  ContentsInv'
<1>1. CASE Fail
  BY <1>1, GaveUp DEF CallStep
<1>2. CASE ~ Fail
  <2>1. /\ op.pc = "mark" /\ Write_fat_entry(op.new, Eoc)
        /\ op' = [op EXCEPT !.pc = "rezero"] /\ contents' = contents
    BY <1>2 DEF Mark, At, Goto
  <2>2. op \in Operation /\ fat[op.new] = Eoc /\ op.new \in Clusters
    BY <2>1, Writes, Prepares DEF Steps
  <2>3. /\ op'.pc = "rezero" /\ op'.kind = op.kind /\ op'.name = op.name /\ op'.first = op.first
        /\ op'.cur = op.cur /\ op'.size = op.size /\ op'.pos = op.pos /\ op'.text = op.text
        /\ op'.todo = op.todo /\ op'.source = op.source /\ op'.excused = op.excused
        /\ op'.new = op.new
    BY <2>1, <2>2 DEF Operation
  <2>4. data' = data /\ fat' = fat
    BY <2>1, <2>2 DEF Write_fat_entry, VolumeInv, TypeOK
  <2>5. ASSUME ~ op.excused, Goal # Unknown  PROVE GoalSound(fat', data', op', Goal)
    <3>1. GoalSound(fat, data, op, Goal)
      BY <2>1, <2>5, GoalHeld DEF Steps
    <3>2. QED
      BY <2>1, <2>3, <2>4, <3>1 DEF GoalSound
  <2>6. QED
    BY <2>1, <2>3, <2>5, Continues DEF CallStep, Steps
<1>3. QED
  BY <1>1, <1>2

(* A new cluster that gets its zeros is not yet one of the file's.         *)
LEMMA ZeroNewData ==
  ASSUME VolumeInv, TypeOK', ZeroNew
  PROVE  /\ op.pc = "zero" /\ op \in Operation /\ fat' = fat /\ fat' \in Table
         /\ op.first # 0 => \A d \in ToSet(Chain(op.first)) : data'[d] = data[d]
<1>1. op.pc = "zero" /\ (Write_cluster(op.new, Zeroed) \/ UNCHANGED volume)
  BY DEF ZeroNew, FailedWrite, At
<1>2. op \in Operation /\ fat \in Table /\ Sound(fat)
  BY <1>1, Writes DEF Steps
<1>3. fat' = fat
  BY <1>1 DEF Write_cluster, volume
<1>4. ASSUME op.first # 0, NEW d \in ToSet(Chain(op.first))  PROVE data'[d] = data[d]
  <2>1. Starts(fat, op.first) /\ Starts(fat, op.new) /\ op.new # op.first
    BY <1>1, <1>4, Writes, Prepares DEF Steps
  <2>2. op.new \in ToSet(Chain_in(fat, op.new))
    BY <1>2, <2>1, ChainSet
  <2>3. d # op.new
    BY <1>2, <1>4, <2>1, <2>2, ChainsApart DEF Chain
  <2>4. d \in Clusters
    BY <1>2, <1>4, <2>1, ChainSet DEF Chain, InUse
  <2>5. QED
    BY <1>1, <2>3, <2>4, ClusterElsewhere DEF VolumeInv
<1>5. QED
  BY <1>1, <1>2, <1>3, <1>4

LEMMA ZeroNewContents ==
  ASSUME VolumeInv, TypeOK', ContentsInv, ZeroNew
  PROVE  ContentsInv'
<1>1. /\ op.pc = "zero" /\ op \in Operation /\ fat' = fat /\ fat' \in Table
      /\ op.first # 0 => \A d \in ToSet(Chain(op.first)) : data'[d] = data[d]
  BY ZeroNewData
<1>2. contents' = contents
  BY DEF ZeroNew
<1>3. \/ op.first = 0 /\ op' = [op EXCEPT !.pc = "fill", !.first = op.new, !.cur = op.new]
      \/ op.first # 0 /\ op' = [op EXCEPT !.pc = "link"]
      \/ op' = [op EXCEPT !.pc = "unclaim"]
  BY DEF ZeroNew, Goto
<1>4. /\ op'.pc \in {"fill", "link", "unclaim"} /\ op'.kind = op.kind /\ op'.name = op.name
      /\ op'.size = op.size /\ op'.pos = op.pos /\ op'.text = op.text
      /\ op'.todo = op.todo /\ op'.source = op.source /\ op'.excused = op.excused
  <2>1. CASE op' = [op EXCEPT !.pc = "fill", !.first = op.new, !.cur = op.new]
    BY <1>1, <2>1 DEF Operation
  <2>2. CASE op' = [op EXCEPT !.pc = "link"]
    BY <1>1, <2>2 DEF Operation
  <2>3. CASE op' = [op EXCEPT !.pc = "unclaim"]
    BY <1>1, <2>3 DEF Operation
  <2>4. QED
    BY <1>3, <2>1, <2>2, <2>3
<1>5. ASSUME ~ op.excused, Goal # Unknown  PROVE GoalSound(fat', data', op', Goal)
  <2>1. GoalSound(fat, data, op, Goal)
    BY <1>1, <1>5, GoalHeld DEF Steps
  <2>2. op.pos \in Nat
    BY <1>1 DEF Operation
  <2>3. HoldsIn(fat', data', op.first, Goal, op.pos)
    BY <1>1, <2>1, <2>2, SameChain DEF GoalSound, Steps
  <2>4. CASE op.first = 0 /\ op' = [op EXCEPT !.pc = "fill", !.first = op.new, !.cur = op.new]
    <3>1. op'.pc = "fill" /\ op'.first = op.new /\ op'.cur = op.new
      BY <1>1, <2>4 DEF Operation
    <3>2. op.new \in Clusters
      BY <1>1, Prepares
    <3>3. op.pos = 0
      BY <2>1, <2>4 DEF GoalSound
    <3>4. Len(Chain_in(fat', op.new)) \in Nat \ {0} /\ Chain_in(fat', op.new)[1] = op.new
      BY <1>1, <3>2, ChainLength, Constants
    <3>5. 0 \div ClusterSize = 0 /\ (0 \div ClusterSize) + 1 = 1
      <4>1. ClusterSize * 0 + 0 = 0 /\ 0 \in 0 .. ClusterSize - 1
        BY Constants
      <4>2. QED
        BY <4>1, PlaceIs
    <3>6. HoldsIn(fat', data', op.new, Goal, 0)
      BY DEF HoldsIn
    <3>7. op.new # 0
      BY <3>2, Constants
    <3>8. QED
      BY <1>4, <2>1, <3>1, <3>3, <3>4, <3>5, <3>6, <3>7 DEF GoalSound
  <2>5. CASE \/ op.first # 0 /\ op' = [op EXCEPT !.pc = "link"]
             \/ op' = [op EXCEPT !.pc = "unclaim"]
    <3>1. op'.pc \in {"link", "unclaim"} /\ op'.first = op.first /\ op'.cur = op.cur
      BY <1>1, <2>5 DEF Operation
    <3>2. QED
      BY <1>1, <1>4, <2>1, <2>3, <3>1 DEF GoalSound
  <2>6. QED
    BY <1>3, <2>4, <2>5
<1>6. QED
  BY <1>1, <1>2, <1>4, <1>5, Continues DEF CallStep, Steps

(* The bytes before a cluster do not change with that cluster.             *)
LEMMA HoldsBefore ==
  ASSUME NEW t, NEW d, NEW e, NEW first, NEW x, NEW n \in Nat, NEW m \in Nat,
         HoldsIn(t, d, first, x, n), n <= ClusterSize * m,
         \A k \in 1 .. m : e[Chain_in(t, first)[k]] = d[Chain_in(t, first)[k]]
  PROVE  HoldsIn(t, e, first, x, n)
<1> DEFINE s == Chain_in(t, first)
<1>1. SUFFICES ASSUME n > 0, NEW i \in 1 .. n  PROVE ByteIn(e, s, i) = x[i]
  BY DEF HoldsIn
<1>2. ByteIn(d, s, i) = x[i]
  BY <1>1 DEF HoldsIn
<1>3. i \in Nat \ {0} /\ i <= ClusterSize * m
  BY <1>1, Constants
<1>4. ((i - 1) \div ClusterSize) + 1 \in 1 .. m
  BY <1>3, PlaceWithin
<1>5. ByteIn(e, s, i) = ByteIn(d, s, i)
  BY <1>4 DEF ByteIn
<1>6. QED
  BY <1>2, <1>5

LEMMA RezeroContents ==
  ASSUME VolumeInv, TypeOK', ContentsInv, Rezero
  PROVE  ContentsInv'
<1>1. CASE Fail
  BY <1>1, GaveUp DEF CallStep
<1>2. CASE ~ Fail
  <2>1. /\ op.pc = "rezero" /\ Write_cluster(op.new, Zeroed)
        /\ op' = [op EXCEPT !.pc = "fill", !.cur = op.new] /\ contents' = contents
    BY <1>2 DEF Rezero, At
  <2>2. /\ op \in Operation /\ op.first # 0 /\ fat \in Table /\ Sound(fat)
        /\ Starts(fat, op.first)
    BY <2>1, Writes, Prepares DEF Steps
  <2>3. /\ op'.pc = "fill" /\ op'.kind = op.kind /\ op'.name = op.name /\ op'.first = op.first
        /\ op'.cur = op.new /\ op'.size = op.size /\ op'.pos = op.pos /\ op'.text = op.text
        /\ op'.todo = op.todo /\ op'.source = op.source /\ op'.excused = op.excused
    BY <2>1, <2>2 DEF Operation
  <2>4. fat' = fat
    BY <2>1 DEF Write_cluster
  <2>5. ASSUME ~ op.excused, Goal # Unknown  PROVE GoalSound(fat', data', op', Goal)
    <3> DEFINE s == Chain_in(fat, op.first)
               m == Len(s) - 1
    <3>1. GoalSound(fat, data, op, Goal)
      BY <2>1, <2>5, GoalHeld DEF Steps
    <3>2. op.new = Last(s) /\ op.pos = ClusterSize * m
      BY <2>1, <3>1 DEF GoalSound
    <3>3. /\ Len(s) \in Nat \ {0} /\ s \in Seq(Nodes)
          /\ \A k \in 1 .. Len(s) : s[k] \in Clusters
          /\ \A i, j \in 1 .. Len(s) : s[i] = s[j] => i = j
      BY <2>2, ChainFromStart, ChainLength DEF InUse, Operation
    <3> HIDE DEF s
    <3>4. m \in Nat /\ m + 1 = Len(s) /\ Last(s) = s[Len(s)]
      BY <3>3 DEF Last
    <3>5. \A k \in 1 .. m : s[k] # op.new /\ s[k] \in Clusters
      BY <3>2, <3>3, <3>4
    <3>6. \A k \in 1 .. m : data'[s[k]] = data[s[k]]
      BY <2>1, <3>5, ClusterElsewhere DEF VolumeInv
    <3>7. op.pos \in Nat
      BY <2>2 DEF Operation
    <3>8. HoldsIn(fat', data', op.first, Goal, op.pos)
      <4>1. HoldsIn(fat, data, op.first, Goal, op.pos) /\ op.pos <= ClusterSize * m
        BY <3>1, <3>2, <3>7 DEF GoalSound
      <4>2. HoldsIn(fat, data', op.first, Goal, op.pos)
        BY <3>4, <3>6, <3>7, <4>1, HoldsBefore DEF s
      <4>3. QED
        BY <2>4, <4>2
    <3>9. op.pos \div ClusterSize = m
      <4>1. op.pos = ClusterSize * m + 0 /\ 0 \in 0 .. ClusterSize - 1
        BY <3>2, <3>7, Constants
      <4>2. QED
        BY <3>4, <4>1, PlaceIs
    <3>10. op'.pos \div ClusterSize < Len(s) /\ op'.cur = s[(op'.pos \div ClusterSize) + 1]
      BY <2>3, <3>2, <3>4, <3>9
    <3>11. QED
      BY <2>2, <2>3, <2>4, <3>1, <3>8, <3>10 DEF GoalSound, s
  <2>6. QED
    BY <2>1, <2>3, <2>5, Continues DEF CallStep, Steps
<1>3. QED
  BY <1>1, <1>2

(* The table of Link: the file's chain, with the new cluster behind it.    *)
LEMMA LinkContents ==
  ASSUME VolumeInv, TypeOK', ContentsInv, Link
  PROVE  ContentsInv'
<1>1. CASE Fail
  BY <1>1, GaveUp DEF CallStep
<1>2. CASE ~ Fail
  <2>1. PICK end \in Clusters :
          /\ op.pc = "link" /\ WalkToEnd(op.cur, end) /\ Write_fat_entry(end, op.new)
          /\ op' = [op EXCEPT !.pc = "mark", !.excused = @ \/ end # Last(Chain(op.cur))]
          /\ contents' = contents
    BY <1>2 DEF Link, At
  <2>2. /\ op \in Operation /\ op.first # 0 /\ fat \in Table /\ Sound(fat)
        /\ Starts(fat, op.first) /\ op.cur \in ToSet(Chain(op.first))
    BY <2>1, Writes, Prepares DEF Steps
  <2>3. /\ op'.pc = "mark" /\ op'.kind = op.kind /\ op'.name = op.name /\ op'.first = op.first
        /\ op'.cur = op.cur /\ op'.size = op.size /\ op'.pos = op.pos /\ op'.text = op.text
        /\ op'.todo = op.todo /\ op'.source = op.source /\ op'.new = op.new
        /\ op'.excused = (op.excused \/ end # Last(Chain(op.cur)))
    BY <2>1, <2>2 DEF Operation
  <2>4. ASSUME ~ op'.excused, ~ op.excused, Goal # Unknown
        PROVE  GoalSound(fat', data', op', Goal)
    <3> DEFINE s == Chain_in(fat, op.first)
               v == Chain_in(fat', op.first)
    <3>1. GoalSound(fat, data, op, Goal)
      BY <2>1, <2>4, GoalHeld DEF Steps
    <3>2. op.pos = ClusterSize * Len(s)
      BY <2>1, <2>2, <3>1 DEF GoalSound
    <3>3. Starts(fat, op.new) /\ op.new # op.first /\ fat[op.new] = Eoc /\ op.new \in Clusters
      BY <2>1, Prepares
    <3>4. Writes_entry(fat, fat', end, op.new) /\ data' = data
      BY <2>1, <3>3, EntryWritten DEF VolumeInv
    <3>5. end = Last(s)
      BY <2>2, <2>3, <2>4, RestOfChain DEF Chain
    <3>6. Len(s) \in Nat \ {0} /\ Last(s) = s[Len(s)]
      BY <2>2, ChainLength DEF Last, Operation
    <3>7. Len(v) = Len(s) + 1 /\ v[Len(s) + 1] = op.new /\ \A i \in 1 .. Len(s) : v[i] = s[i]
      <4>1. Len(s) \in 1 .. Len(s) /\ Writes_entry(fat, fat', s[Len(s)], op.new)
        BY <3>4, <3>5, <3>6
      <4> HIDE DEF v
      <4>2. QED
        BY <2>2, <3>3, <4>1, ChainLinked DEF v
    <3>8. op.pos \in Nat
      BY <2>2 DEF Operation
    <3>9. HoldsIn(fat', data', op.first, Goal, op.pos)
      <4>1. HoldsIn(fat, data, op.first, Goal, op.pos)
        BY <3>1 DEF GoalSound
      <4> HIDE DEF s, v
      <4>2. /\ Len(s) \in Nat /\ Len(v) \in Nat /\ Len(s) <= Len(v)
            /\ \A k \in 1 .. Len(s) : v[k] = s[k] /\ data'[s[k]] = data[s[k]]
        BY <3>4, <3>6, <3>7
      <4>3. QED
        BY <3>8, <4>1, <4>2, HoldsKept DEF s, v
    <3>10. op'.new = Last(v) /\ op'.pos = ClusterSize * (Len(v) - 1)
      <4> HIDE DEF s, v
      <4>1. Last(v) = v[Len(s) + 1] /\ Len(v) - 1 = Len(s)
        BY <3>6, <3>7 DEF Last
      <4>2. QED
        BY <2>3, <3>2, <3>7, <4>1
    <3>11. QED
      BY <2>2, <2>3, <3>1, <3>9, <3>10 DEF GoalSound
  <2>5. ~ op'.excused => ~ op.excused
    BY <2>3
  <2>6. QED
    BY <2>1, <2>3, <2>4, <2>5, Continues DEF CallStep, Steps
<1>3. QED
  BY <1>1, <1>2

(* The cluster that takes the next bytes, written.                         *)
LEMMA FilledIs ==
  ASSUME NEW o \in Operation, NEW j \in 0 .. ClusterSize - 1
  PROVE  LET r == o.pos % ClusterSize IN
         /\ j < r => Filled(o)[j + 1] = data[o.cur][j + 1]
         /\ r <= j /\ j < r + Fits(o) => Filled(o)[j + 1] = o.todo[(j + 1) - r]
<1> DEFINE r == o.pos % ClusterSize
           n == Fits(o)
<1>1. r \in 0 .. ClusterSize - 1 /\ n \in Nat
  BY FitsType
<1>2. j + 1 \in 1 .. ClusterSize /\ (j + 1 > r <=> r <= j) /\ (j + 1 <= r + n <=> j < r + n)
  BY <1>1, Constants
<1>3. Filled(o)[j + 1] = IF j + 1 > r /\ j + 1 <= r + n THEN o.todo[(j + 1) - r]
                                                       ELSE data[o.cur][j + 1]
  BY <1>2 DEF Filled
<1> HIDE DEF r, n
<1>4. QED
  BY <1>1, <1>2, <1>3, Constants DEF r, n

(* What is left of a text, and what is left of that.                       *)
LEMMA RestOfText ==
  ASSUME NEW g \in Seq(Bytes), NEW p \in Nat, p <= Len(g)
  PROVE  /\ SubSeq(g, p + 1, Len(g)) \in Seq(Bytes) /\ Len(SubSeq(g, p + 1, Len(g))) = Len(g) - p
         /\ \A j \in 1 .. Len(g) - p : SubSeq(g, p + 1, Len(g))[j] = g[p + j]
OBVIOUS

LEMMA RestOfRest ==
  ASSUME NEW g \in Seq(Bytes), NEW p \in Nat, NEW n \in Nat, p + n <= Len(g)
  PROVE  LET u == SubSeq(g, p + 1, Len(g))
         IN  SubSeq(u, n + 1, Len(u)) = SubSeq(g, p + n + 1, Len(g))
OBVIOUS

(* Fill puts Fits bytes of the text behind those that are in the chain.    *)
LEMMA FillHolds ==
  ASSUME VolumeInv, op.pc = "fill", op.todo # <<>>, op.first # 0, op \in Operation,
         NEW g \in Seq(Bytes), GoalSound(fat, data, op, g),
         Write_cluster(op.cur, Filled(op))
  PROVE  /\ HoldsIn(fat', data', op.first, g, op.pos + Fits(op))
         /\ op.pos + Fits(op) <= Len(g)
         /\ op.pos + Fits(op) <= ClusterSize * ((op.pos \div ClusterSize) + 1)
<1> DEFINE s == Chain_in(fat, op.first)
           q == op.pos \div ClusterSize
           r == op.pos % ClusterSize
           n == Fits(op)
           p == op.pos
<1>1. p \in Nat /\ op.todo \in Seq(Bytes) /\ Len(op.todo) \in Nat /\ Len(g) \in Nat
      /\ ClusterSize \in Nat \ {0}
  BY Constants DEF Operation
<1>2. /\ n \in Nat /\ n <= Len(op.todo) /\ r \in 0 .. ClusterSize - 1
      /\ r + n <= ClusterSize
  BY FitsType
<1>3. /\ p <= Len(g) /\ op.todo = SubSeq(g, p + 1, Len(g))
      /\ HoldsIn(fat, data, op.first, g, p)
      /\ q < Len(s) /\ op.cur = s[q + 1]
  BY DEF GoalSound
<1>4. /\ Len(op.todo) = Len(g) - p /\ \A j \in 1 .. Len(op.todo) : op.todo[j] = g[p + j]
  <2> HIDE DEF p
  <2>1. QED
    BY <1>1, <1>3, RestOfText
<1>5. q \in Nat /\ p = ClusterSize * q + r /\ ClusterSize * q \in Nat
  <2>1. q \in Nat /\ p = ClusterSize * q + r
    BY <1>1, DivMod
  <2> HIDE DEF q
  <2>2. \A x \in Nat : ClusterSize * x \in Nat
    BY <1>1
  <2>3. QED
    BY <2>1, <2>2
<1>6. /\ fat' = fat /\ Len(s) \in Nat
      /\ \A k \in 1 .. Len(s) : s[k] \in Clusters
      /\ \A i, j \in 1 .. Len(s) : s[i] = s[j] => i = j
  <2>1. Starts(fat, op.first) /\ fat \in Table /\ Sound(fat)
    BY Writes DEF Steps
  <2>2. QED
    BY <2>1, ChainFromStart, ChainLength DEF InUse, Write_cluster, Operation
<1>7. /\ data'[op.cur] = Filled(op)
      /\ \A k \in 1 .. Len(s) : k # q + 1 => data'[s[k]] = data[s[k]]
  <2> HIDE DEF s, q
  <2>1. q + 1 \in 1 .. Len(s)
    BY <1>3, <1>5, <1>6
  <2>2. op.cur \in Clusters
    BY <1>3, <1>6, <2>1
  <2>3. data'[op.cur] = Filled(op)
    BY <2>2, Constants DEF Write_cluster, VolumeInv, TypeOK
  <2>4. \A k \in 1 .. Len(s) : k # q + 1 => s[k] # op.cur /\ s[k] \in Clusters
    BY <1>3, <1>6, <2>1
  <2>5. QED
    BY <2>3, <2>4, ClusterElsewhere DEF VolumeInv
<1>8. /\ \A i \in 1 .. p : ByteIn(data, s, i) = g[i]
      /\ p > 0 => p <= ClusterSize * Len(s)
  <2> HIDE DEF s, q, r, n, p
  <2>1. CASE p > 0
    BY <1>3, <2>1 DEF HoldsIn, s
  <2>2. CASE p = 0
    BY <2>2
  <2>3. QED
    BY <1>1, <2>1, <2>2
<1> HIDE DEF s, q, r, n, p
<1>9. p + n <= Len(g)
  BY <1>1, <1>2, <1>3, <1>4
<1>10. p + n <= ClusterSize * (q + 1) /\ ClusterSize * (q + 1) = ClusterSize * q + ClusterSize
  <2>1. ClusterSize * (q + 1) = ClusterSize * q + ClusterSize
    BY <1>1, <1>5
  <2>2. QED
    BY <1>1, <1>2, <1>5, <2>1
<1>11. p + n <= ClusterSize * Len(s)
  <2>1. CASE q + 1 = Len(s)
    BY <1>10, <2>1
  <2>2. CASE q + 1 < Len(s)
    <3>1. ClusterSize * Len(s) \in Nat /\ ClusterSize * (q + 1) \in Nat
          /\ ClusterSize * Len(s) >= ClusterSize * (q + 1) + ClusterSize
      <4>1. q + 1 \in Nat /\ Len(s) \in Nat
        BY <1>5, <1>6
      <4>2. QED
        BY <1>1, <2>2, <4>1, TimesMore
    <3>2. QED
      BY <1>1, <1>2, <1>10, <3>1
  <2>3. QED
    BY <1>3, <1>5, <1>6, <2>1, <2>2
<1>12. ASSUME NEW i \in 1 .. p + n  PROVE ByteIn(data', s, i) = g[i]
  <2> DEFINE k == (i - 1) \div ClusterSize
             j == (i - 1) % ClusterSize
  <2>1. /\ i \in Nat \ {0} /\ k \in Nat /\ j \in 0 .. ClusterSize - 1
        /\ j + 1 \in 1 .. ClusterSize /\ i - 1 = ClusterSize * k + j
    BY <1>1, <1>2, Place
  <2>2. i <= ClusterSize * (q + 1) /\ k + 1 \in 1 .. q + 1
    <3>1. i <= ClusterSize * (q + 1)
      BY <1>1, <1>2, <1>5, <1>10, <2>1
    <3>2. k + 1 \in 1 .. q + 1
      BY <1>5, <2>1, <3>1, PlaceWithin
    <3>3. QED
      BY <3>1, <3>2
  <2>3. ByteIn(data', s, i) = data'[s[k + 1]][j + 1] /\ ByteIn(data, s, i) = data[s[k + 1]][j + 1]
    BY DEF ByteIn
  <2> HIDE DEF k, j
  <2>4. CASE k # q
    <3>1. i <= p
      <4>1. k < q
        BY <1>5, <2>1, <2>2, <2>4
      <4>2. ClusterSize * q >= ClusterSize * k + ClusterSize /\ ClusterSize * k \in Nat
        BY <1>1, <1>5, <2>1, <4>1, TimesMore
      <4>3. QED
        BY <1>1, <1>2, <1>5, <2>1, <4>2
    <3>2. data'[s[k + 1]] = data[s[k + 1]]
      BY <1>3, <1>5, <1>6, <1>7, <2>1, <2>2, <2>4
    <3>3. i \in 1 .. p
      BY <1>1, <2>1, <3>1
    <3>4. QED
      BY <1>8, <2>3, <3>2, <3>3
  <2>5. CASE k = q
    <3>1. data'[s[k + 1]] = Filled(op) /\ data[s[k + 1]] = data[op.cur]
      BY <1>3, <1>7, <2>5
    <3>2. /\ j < r => Filled(op)[j + 1] = data[op.cur][j + 1]
          /\ r <= j /\ j < r + n => Filled(op)[j + 1] = op.todo[(j + 1) - r]
      BY <2>1, FilledIs DEF r, n
    <3>3. CASE i <= p
      <4>1. j < r
        BY <1>1, <1>2, <1>5, <2>1, <2>5, <3>3
      <4>2. i \in 1 .. p
        BY <1>1, <2>1, <3>3
      <4>3. QED
        BY <1>8, <2>3, <3>1, <3>2, <4>1, <4>2
    <3>4. CASE i > p
      <4>1. r <= j /\ j < r + n /\ (j + 1) - r = i - p
        BY <1>1, <1>2, <1>5, <2>1, <2>5, <3>4
      <4>2. i - p \in 1 .. Len(op.todo) /\ p + (i - p) = i
        BY <1>1, <1>2, <2>1, <3>4
      <4>3. op.todo[i - p] = g[i]
        BY <1>4, <4>2
      <4>4. QED
        BY <2>3, <3>1, <3>2, <4>1, <4>3
    <3>5. QED
      BY <1>1, <2>1, <3>3, <3>4
  <2>6. QED
    BY <2>4, <2>5
<1>13. HoldsIn(fat', data', op.first, g, p + n)
  BY <1>6, <1>11, <1>12 DEF HoldsIn, s
<1>14. QED
  BY <1>9, <1>10, <1>13 DEF p, n, q

LEMMA FillContents ==
  ASSUME VolumeInv, TypeOK', ContentsInv, Fill
  PROVE  ContentsInv'
<1>1. CASE Fail
  BY <1>1, GaveUp DEF CallStep
<1>2. CASE ~ Fail
  <2> DEFINE o == Moved(op)
             n == Fits(op)
             q == op.pos \div ClusterSize
  <2>1. /\ op.pc = "fill" /\ op.todo # <<>> /\ Write_cluster(op.cur, Filled(op))
        /\ contents' = contents
        /\ IF o.todo = <<>>
             THEN op' = [o EXCEPT !.pc = "close"] /\ NoFault
             ELSE \E next \in Clusters \cup {Boot, Invalid} :
                    Follow(op.cur, next) /\ op' = Extend(o, next)
    BY <1>2 DEF Fill, At
  <2>2. /\ op \in Operation /\ fat \in Table /\ Sound(fat) /\ op.first # 0
        /\ Starts(fat, op.first)
    BY <2>1, Writes DEF Steps
  <2>3. /\ o \in Operation /\ o.kind = op.kind /\ o.name = op.name /\ o.first = op.first
        /\ o.cur = op.cur /\ o.size = op.size /\ o.pos = op.pos + n /\ o.text = op.text
        /\ o.todo = SubSeq(op.todo, n + 1, Len(op.todo))
        /\ o.source = op.source /\ o.excused = op.excused
    BY <2>2, MovedIs
  <2>4. n \in Nat /\ n <= Len(op.todo) /\ op.pos \in Nat /\ op.todo \in Seq(Bytes)
        /\ op.pos % ClusterSize \in 0 .. ClusterSize - 1
    BY <2>2, FitsType DEF Operation
  <2>5. fat' = fat
    BY <2>1 DEF Write_cluster
  <2>6. ASSUME ~ op.excused, Goal # Unknown
        PROVE  /\ GoalSound(fat, data, op, Goal) /\ Goal \in Seq(Bytes)
               /\ HoldsIn(fat', data', op.first, Goal, op.pos + n)
               /\ op.pos + n <= Len(Goal) /\ o.todo = SubSeq(Goal, op.pos + n + 1, Len(Goal))
    <3>1. GoalSound(fat, data, op, Goal) /\ Goal \in Seq(Bytes)
      BY <2>1, <2>6, GoalHeld DEF Steps
    <3>2. /\ HoldsIn(fat', data', op.first, Goal, op.pos + n) /\ op.pos + n <= Len(Goal)
      BY <2>1, <2>2, <3>1, FillHolds
    <3>3. o.todo = SubSeq(Goal, op.pos + n + 1, Len(Goal))
      <4>1. op.todo = SubSeq(Goal, op.pos + 1, Len(Goal))
        BY <3>1 DEF GoalSound
      <4> HIDE DEF o, n
      <4>2. QED
        BY <2>3, <2>4, <3>1, <3>2, <4>1, RestOfRest
    <3>4. QED
      BY <3>1, <3>2, <3>3
  <2> HIDE DEF o, n
  <2>7. CASE o.todo = <<>>
    <3>1. op' = [o EXCEPT !.pc = "close"]
      BY <2>1, <2>7
    <3>2. /\ op'.pc = "close" /\ op'.kind = op.kind /\ op'.name = op.name /\ op'.first = op.first
          /\ op'.size = op.size /\ op'.pos = op.pos + n /\ op'.text = op.text
          /\ op'.todo = o.todo /\ op'.source = op.source /\ op'.excused = op.excused
      BY <2>3, <3>1 DEF Operation
    <3>3. ASSUME ~ op.excused, Goal # Unknown  PROVE GoalSound(fat', data', op', Goal)
      BY <2>2, <2>6, <2>7, <3>2, <3>3 DEF GoalSound
    <3>4. QED
      BY <2>1, <3>2, <3>3, Continues DEF CallStep, Steps
  <2>8. CASE o.todo # <<>>
    <3>1. PICK next \in Clusters \cup {Boot, Invalid} :
            Follow(op.cur, next) /\ op' = Extend(o, next)
      BY <2>1, <2>8
    <3>2. next \in Nodes \cup {Invalid} /\ (next = Invalid \/ next = Next_in(fat, op.cur))
      BY <3>1 DEF Nodes, Follow, Next_cluster
    <3>3. /\ op'.pc = (IF next = Invalid THEN "claim" ELSE "fill")
          /\ op'.cur = (IF next = Invalid THEN op.cur ELSE next)
          /\ op'.excused = (op.excused \/ (next = Invalid /\ Next_in(fat, op.cur) # Invalid))
          /\ op'.kind = op.kind /\ op'.name = op.name /\ op'.first = op.first
          /\ op'.size = op.size /\ op'.pos = op.pos + n /\ op'.text = op.text
          /\ op'.todo = o.todo /\ op'.source = op.source
      BY <2>3, <3>1, <3>2, ExtendIs DEF Next_cluster
    <3>4. ASSUME ~ op'.excused, ~ op.excused, Goal # Unknown
          PROVE  GoalSound(fat', data', op', Goal)
      <4> DEFINE s == Chain_in(fat, op.first)
      <4>1. /\ IsChain(fat, op.first, s) /\ Len(s) \in Nat \ {0}
        BY <2>2, ChainFromStart, ChainLength DEF Operation
      <4>2. GoalSound(fat, data, op, Goal)
        BY <2>6, <3>4
      <4>3. q < Len(s) /\ op.cur = s[q + 1] /\ q \in Nat
            /\ op.pos = ClusterSize * q + (op.pos % ClusterSize) /\ ClusterSize * q \in Nat
        <5>1. q < Len(s) /\ op.cur = s[q + 1]
          BY <2>1, <2>2, <4>2 DEF GoalSound
        <5>2. q \in Nat /\ op.pos = ClusterSize * q + (op.pos % ClusterSize)
          BY <2>4, DivMod, Constants
        <5> HIDE DEF q
        <5>3. \A x \in Nat : ClusterSize * x \in Nat
          BY Constants
        <5>4. QED
          BY <5>1, <5>2, <5>3
      <4> HIDE DEF s, q
      <4>4. n = ClusterSize - (op.pos % ClusterSize)
        <5>1. n # Len(op.todo)
          BY <2>3, <2>4, <2>8
        <5>2. QED
          BY <5>1 DEF n, Fits
      <4>5. op.pos + n = ClusterSize * (q + 1)
        <5>1. ClusterSize * (q + 1) = ClusterSize * q + ClusterSize
          BY <4>3, Constants
        <5>2. QED
          BY <2>4, <4>3, <4>4, <5>1, Constants
      <4>6. \A i \in 1 .. Len(s) - 1 : s[i + 1] = Next_in(fat, s[i])
        BY <4>1 DEF IsChain, IsTrace, Follows
      <4>7. Next_in(fat, s[Len(s)]) = Invalid
            /\ \A i \in 1 .. Len(s) - 1 : Next_in(fat, s[i]) # Invalid
        BY <4>1, <4>6 DEF IsChain, IsTrace, Follows
      <4>8. HoldsIn(fat', data', op'.first, Goal, op'.pos) /\ op'.pos <= Len(Goal)
            /\ op'.todo = SubSeq(Goal, op'.pos + 1, Len(Goal)) /\ op'.size <= Len(Goal)
        BY <2>6, <3>3, <3>4, <4>2 DEF GoalSound
      <4>9. CASE next = Invalid
        <5>1. Next_in(fat, op.cur) = Invalid
          BY <3>3, <3>4, <4>9
        <5>2. q + 1 = Len(s)
          <6>1. SUFFICES ASSUME q + 1 \in 1 .. Len(s) - 1  PROVE FALSE
            BY <4>1, <4>3
          <6>2. QED
            BY <4>3, <4>7, <5>1, <6>1
        <5>3. op'.pc = "claim" /\ op'.cur = Last(s) /\ op'.pos = ClusterSize * Len(s)
          <6>1. Last(s) = s[Len(s)]
            BY DEF Last
          <6>2. QED
            BY <3>3, <4>3, <4>5, <4>9, <5>2, <6>1
        <5>4. QED
          BY <2>2, <2>5, <3>3, <4>8, <5>3 DEF GoalSound, s
      <4>10. CASE next # Invalid
        <5>1. next = Next_in(fat, op.cur)
          BY <3>2, <4>10
        <5>2. q + 1 \in 1 .. Len(s) - 1
          <6>1. q + 1 # Len(s)
            BY <4>3, <4>7, <4>10, <5>1
          <6>2. QED
            BY <4>1, <4>3, <6>1
        <5>3. s[(q + 1) + 1] = next
          BY <4>3, <4>6, <5>1, <5>2
        <5>4. op'.pos \div ClusterSize = q + 1
          <6>1. op'.pos = ClusterSize * (q + 1) + 0 /\ 0 \in 0 .. ClusterSize - 1 /\ q + 1 \in Nat
            BY <3>3, <4>3, <4>5, <2>4, Constants
          <6>2. QED
            BY <6>1, PlaceIs
        <5>5. op'.pc = "fill" /\ op'.cur = next
          BY <3>3, <4>10
        <5>6. op'.pos \div ClusterSize < Len(s) /\ op'.cur = s[(op'.pos \div ClusterSize) + 1]
          BY <4>1, <4>3, <5>2, <5>3, <5>4, <5>5
        <5>7. QED
          BY <2>2, <2>5, <3>3, <4>8, <5>5, <5>6 DEF GoalSound, s
      <4>11. QED
        BY <4>9, <4>10
    <3>5. ~ op'.excused => ~ op.excused
      BY <3>3
    <3>6. op'.pc \in Steps \ {"seek", "copy"}
      BY <3>3 DEF Steps
    <3>7. QED
      BY <2>1, <3>3, <3>4, <3>5, <3>6, Continues DEF CallStep, Steps
  <2>9. QED
    BY <2>7, <2>8
<1>3. QED
  BY <1>1, <1>2

LEMMA WholeText ==
  ASSUME NEW g \in Seq(Bytes), NEW p \in Nat, p <= Len(g), SubSeq(g, p + 1, Len(g)) = <<>>
  PROVE  p = Len(g)
<1>1. Len(SubSeq(g, p + 1, Len(g))) = Len(g) - p
  BY RestOfText
<1>2. Len(<<>>) = 0 /\ Len(g) \in Nat
  OBVIOUS
<1>3. Len(g) - p = 0
  BY <1>1, <1>2
<1>4. QED
  BY <1>2, <1>3

LEMMA EntryIs ==
  ASSUME NEW first \in Nodes, NEW size \in Nat
  PROVE  /\ Entry(first, size).first = first /\ Entry(first, size).size = size
         /\ Entry(first, size) # Absent
<1>1. Entry(first, size) \in [first : Clusters \cup {0}, size : Nat]
  BY Constants DEF Entry
<1>2. QED
  BY <1>1, TextAssumption DEF Entry

(* file_write_internal's last step: the text is in the file.               *)
LEMMA CloseContents ==
  ASSUME VolumeInv, TypeOK', ContentsInv, Close
  PROVE  ContentsInv'
<1>1. CASE Fail
  BY <1>1, GaveUp DEF CallStep
<1>2. CASE ~ Fail
  <2>1. /\ op.pc = "close" /\ dir' = [dir EXCEPT ![op.name] = Entry(op.first, NewSize(op))]
        /\ fat' = fat /\ data' = data
        /\ IF op.kind = "copy"
             THEN op' = [op EXCEPT !.pc = "copy", !.size = NewSize(op)] /\ contents' = contents
             ELSE Succeed(op.name, Expected(op))
    BY <1>2 DEF Close, At, volume
  <2>2. op \in Operation /\ op.name \in Name /\ op.kind # "delete" /\ Writing
    BY <2>1, Writes DEF Steps
  <2>3. op.pos \in Nat /\ op.size \in Nat /\ op.first \in Nodes /\ NewSize(op) \in Nat
        /\ op.kind \in {"write", "append", "copy"} /\ op.text \in Seq(Bytes)
    BY <2>2 DEF Operation, NewSize
  <2>4. dir'[op.name] = Entry(op.first, NewSize(op))
    BY <2>1, <2>2 DEF VolumeInv, TypeOK
  <2>5. ASSUME ~ op.excused, Goal # Unknown
        PROVE  /\ Goal \in Seq(Bytes) /\ NewSize(op) = Len(Goal)
               /\ HoldsIn(fat, data, op.first, Goal, Len(Goal))
    <3>1. GoalSound(fat, data, op, Goal) /\ Goal \in Seq(Bytes)
      BY <2>1, <2>5, GoalHeld DEF Steps
    <3>2. /\ op.pos <= Len(Goal) /\ op.size <= Len(Goal)
          /\ SubSeq(Goal, op.pos + 1, Len(Goal)) = <<>>
          /\ HoldsIn(fat, data, op.first, Goal, op.pos)
      BY <2>1, <3>1 DEF GoalSound
    <3>3. op.pos = Len(Goal)
      BY <2>3, <3>1, <3>2, WholeText
    <3>4. QED
      BY <2>3, <3>1, <3>2, <3>3 DEF NewSize
  <2>6. CASE op.kind = "copy"
    <3>1. op' = [op EXCEPT !.pc = "copy", !.size = NewSize(op)] /\ contents' = contents
      BY <2>1, <2>6
    <3>2. /\ op'.pc = "copy" /\ op'.kind = op.kind /\ op'.name = op.name /\ op'.first = op.first
          /\ op'.size = NewSize(op) /\ op'.text = op.text
          /\ op'.source = op.source /\ op'.excused = op.excused
      BY <2>2, <3>1 DEF Operation
    <3>3. WritesGoal' /\ SeekSound'
      BY <2>6, <3>2 DEF WritesGoal, SeekSound, Filling
    <3>4. Goal' = Goal
      BY <3>1, <3>2, SameGoal
    <3>5. op.source.name \in Name /\ op.source.name # op.name
      BY <2>2, <2>6, SourceIs
    <3>6. dir'[op.source.name] = dir[op.source.name]
      BY <3>5, OthersDir DEF CallStep
    <3>7. ASSUME ~ op'.excused, Goal' # Unknown
          PROVE  op'.size = Len(Goal') /\ Holds(op.first, Goal, op.size)'
      <4>1. /\ NewSize(op) = Len(Goal) /\ HoldsIn(fat, data, op.first, Goal, Len(Goal))
        BY <2>5, <3>2, <3>4, <3>7
      <4>2. HoldsIn(fat', data', op'.first, Goal', op'.size)
        BY <2>1, <3>2, <3>4, <4>1
      <4>3. Holds(op.first, Goal, op.size)' <=> HoldsIn(fat', data', op'.first, Goal', op'.size)
        BY DEF Holds, HoldsIn, ByteOf, ByteIn, Chain
      <4>4. QED
        BY <3>2, <3>4, <4>1, <4>2, <4>3
    <3>8. CopySound'
      <4>1. /\ op.source.name # op.name /\ dir[op.source.name] # Absent
            /\ op.source.cur = dir[op.source.name].first
            /\ op.source.size = dir[op.source.name].size
            /\ ~ op.excused => op.source.size <= ClusterSize
            /\ ~ op.excused => op.source.pos = op.source.size
        BY <2>1, <2>6 DEF ContentsInv, CopySound
      <4>2. QED
        BY <2>4, <3>2, <3>6, <3>7, <4>1 DEF CopySound
    <3>9. QED
      BY <3>1, <3>2, <3>3, <3>8, WentOn DEF CallStep, Steps
  <2>7. CASE op.kind # "copy"
    <3> DEFINE x == IF op.excused THEN Unknown ELSE Expected(op)
    <3>1. op' = NoOp /\ Noted(op.name, x)
      BY <2>1, <2>7 DEF Succeed
    <3>2. Expected(op) = Goal
      BY <2>3, <2>7 DEF Expected, Goal
    <3>3. x = Unknown \/ (~ op.excused /\ Goal # Unknown /\ x = Goal)
      BY <3>2
    <3> HIDE DEF x
    <3>4. x \in {Absent, Unknown} \cup Seq(Bytes)
      BY <2>5, <3>3
    <3>5. HoldsText(fat', data', dir'[op.name], x)
      <4>1. CASE x = Unknown
        BY <4>1 DEF HoldsText
      <4>2. CASE ~ op.excused /\ Goal # Unknown /\ x = Goal
        BY <2>1, <2>3, <2>4, <2>5, <4>2, EntryIs, TextAssumption DEF HoldsText
      <4>3. QED
        BY <3>3, <4>1, <4>2
    <3>6. QED
      BY <3>1, <3>4, <3>5, Returned DEF CallStep
  <2>8. QED
    BY <2>6, <2>7
<1>3. QED
  BY <1>1, <1>2

LEMMA RemoveContents ==
  ASSUME VolumeInv, TypeOK', ContentsInv, RemoveEntry
  PROVE  ContentsInv'
<1>1. CASE Fail
  BY <1>1, GaveUp DEF CallStep
<1>2. CASE ~ Fail
  <2>1. /\ op.pc = "remove" /\ dir' = [dir EXCEPT ![op.name] = Absent]
        /\ op' = NoOp /\ Noted(op.name, IF op.excused THEN Unknown ELSE Absent)
    BY <1>2 DEF RemoveEntry, At, Succeed
  <2>2. op.name \in Name
    BY <2>1, Busy DEF VolumeInv, Operation
  <2>3. dir'[op.name] = Absent
    BY <2>1, <2>2 DEF VolumeInv, TypeOK
  <2>4. HoldsText(fat', data', dir'[op.name], IF op.excused THEN Unknown ELSE Absent)
    BY <2>3, TextAssumption DEF HoldsText
  <2>5. QED
    BY <2>1, <2>4, Returned DEF CallStep
<1>3. QED
  BY <1>1, <1>2

LEMMA FreeContents ==
  ASSUME VolumeInv, TypeOK', ContentsInv, FreeNext
  PROVE  ContentsInv'
<1>1. CASE Fail
  BY <1>1, GaveUp DEF CallStep
<1>2. CASE ~ Fail
  <2>1. op.pc = "free" /\ contents' = contents
        /\ \/ op' = [op EXCEPT !.pc = "remove"]
           \/ op' = [op EXCEPT !.cur = fat[op.cur]]
    BY <1>2 DEF FreeNext, At, Goto
  <2>2. op \in Operation /\ op.kind = "delete"
    BY <2>1, Busy DEF VolumeInv, DeletionSound
  <2>3. op'.pc \in {"free", "remove"} /\ op'.kind = "delete" /\ op'.name = op.name
    <3>1. CASE op' = [op EXCEPT !.pc = "remove"]
      BY <2>2, <3>1 DEF Operation
    <3>2. CASE op' = [op EXCEPT !.cur = fat[op.cur]]
      BY <2>1, <2>2, <3>2 DEF Operation
    <3>3. QED
      BY <2>1, <3>1, <3>2
  <2>4. WritesGoal' /\ SeekSound' /\ CopySound'
    BY <2>3 DEF WritesGoal, SeekSound, CopySound, Filling, Steps, Writing
  <2>5. QED
    BY <2>1, <2>3, <2>4, WentOn DEF CallStep, Steps
<1>3. QED
  BY <1>1, <1>2

-----------------------------------------------------------------------------
(* Appending and copying.                                                  *)

(* What is behind the first text is the second.                            *)
LEMMA JoinedText ==
  ASSUME NEW c \in Seq(Bytes), NEW u \in Seq(Bytes)
  PROVE  /\ c \o u \in Seq(Bytes) /\ Len(c) \in Nat /\ Len(c) <= Len(c \o u)
         /\ SubSeq(c \o u, Len(c) + 1, Len(c \o u)) = u
         /\ \A i \in 1 .. Len(c) : (c \o u)[i] = c[i]
<1>1. /\ c \o u \in Seq(Bytes) /\ Len(c) \in Nat /\ Len(u) \in Nat /\ Len(c \o u) = Len(c) + Len(u)
      /\ \A i \in 1 .. Len(c) : (c \o u)[i] = c[i]
      /\ \A j \in 1 .. Len(u) : (c \o u)[Len(c) + j] = u[j]
  OBVIOUS
<1> DEFINE g == c \o u
           v == SubSeq(g, Len(c) + 1, Len(g))
<1>2. v \in Seq(Bytes) /\ Len(v) = Len(u) /\ \A j \in 1 .. Len(u) : v[j] = g[Len(c) + j]
  <2> HIDE DEF g
  <2>1. g \in Seq(Bytes) /\ Len(c) <= Len(g) /\ Len(g) - Len(c) = Len(u)
    BY <1>1 DEF g
  <2>2. QED
    BY <1>1, <2>1, RestOfText
<1>3. v = u
  BY <1>1, <1>2
<1>4. QED
  BY <1>1, <1>3

LEMMA SeekContents ==
  ASSUME VolumeInv, TypeOK', ContentsInv, ~ Accountable, Seek
  PROVE  ContentsInv'
<1>1. PICK end \in Clusters \cup {Boot} :
        /\ op.pc = "seek" /\ WalkToEnd(op.first, end) /\ op' = ToEnd(op, op.text, end)
        /\ fat' = fat /\ data' = data /\ dir' = dir /\ contents' = contents
  BY DEF Seek, At, volume
<1>2. op \in Operation /\ fat \in Table /\ Sound(fat) /\ op.text \in Seq(Bytes) /\ op.name \in Name
      /\ op.size \in Nat /\ op.first \in Nodes /\ end \in Nodes /\ Writing
  BY <1>1, Writes DEF Steps, Operation, Nodes
<1>3. /\ op'.pc = (IF op.first = 0 THEN "claim" ELSE "fill")
      /\ op'.kind = op.kind /\ op'.name = op.name /\ op'.first = op.first
      /\ op'.cur = end /\ op'.size = op.size /\ op'.pos = op.size
      /\ op'.text = op.text /\ op'.todo = op.text /\ op'.source = op.source
      /\ op'.excused = (op.excused \/ end # Last(Chain(op.first))
                          \/ ~ (Accountable \/ InOnePlace(op)))
  BY <1>1, <1>2, ToEndIs
<1>4. /\ op.kind = "append" /\ FileHolds(op.name) /\ op.first = dir[op.name].first
      /\ op.size = dir[op.name].size /\ contents[op.name] # Absent
  BY <1>1, <1>2 DEF ContentsInv, SeekSound
<1>5. ASSUME Goal' = Goal, ~ op'.excused, ~ op.excused, Goal # Unknown
      PROVE  GoalSound(fat', data', op', Goal)
  <2> DEFINE c == contents[op.name]
             s == Chain_in(fat, op.first)
             q == op.size \div ClusterSize
  <2>1. Goal = c \o op.text /\ c # Unknown
    BY <1>4, <1>5 DEF Goal
  <2>2. c \in Seq(Bytes)
    BY <1>2, <1>4, <2>1 DEF ContentsInv
  <2>3. op.size = Len(c) /\ HoldsIn(fat, data, op.first, c, Len(c))
    BY <1>4, <2>1, FileHoldsIs DEF HoldsText
  <2>4. end = Last(s) /\ (op.first # 0 => Len(s) = q + 1)
    <3>1. InOnePlace(op) /\ end = Last(Chain(op.first))
      BY <1>3, <1>5
    <3>2. QED
      BY <3>1 DEF InOnePlace, Chain
  <2>5. Len(s) \in Nat \ {0} /\ Last(s) = s[Len(s)]
    BY <1>2, ChainLength DEF Last
  <2> HIDE DEF c, s
  <2>6. /\ Goal \in Seq(Bytes) /\ Len(c) \in Nat /\ Len(c) <= Len(Goal)
        /\ SubSeq(Goal, Len(c) + 1, Len(Goal)) = op.text
        /\ \A i \in 1 .. Len(c) : Goal[i] = c[i]
    BY <1>2, <2>1, <2>2, JoinedText
  <2>7. HoldsIn(fat, data, op.first, Goal, Len(c))
    BY <2>3, <2>6 DEF HoldsIn
  <2>8. op.first = 0 => op.size = 0
    BY <2>3, <2>6 DEF HoldsIn
  <2>9. op.first # 0 => q < Len(s) /\ end = s[q + 1]
    <3>1. q \in Nat
      BY <1>2, DivMod, Constants
    <3> HIDE DEF q
    <3>2. QED
      BY <2>4, <2>5, <3>1
  <2>10. op'.pc = "claim" => op'.first = 0
    BY <1>3
  <2>11. op'.pc \in {"claim", "fill"}
    BY <1>3
  <2>12. op'.pos <= Len(Goal) /\ op'.size <= Len(Goal)
         /\ op'.todo = SubSeq(Goal, op'.pos + 1, Len(Goal))
         /\ HoldsIn(fat', data', op'.first, Goal, op'.pos)
    BY <1>1, <1>3, <2>3, <2>6, <2>7
  <2>13. op'.first # 0 => (op'.pos \div ClusterSize) < Len(Chain_in(fat', op'.first))
                          /\ op'.cur = Chain_in(fat', op'.first)[(op'.pos \div ClusterSize) + 1]
    BY <1>1, <1>3, <2>9 DEF s
  <2>14. op'.first = 0 => op'.pos = 0
    BY <1>3, <2>8
  <2>15. QED
    BY <2>10, <2>11, <2>12, <2>13, <2>14 DEF GoalSound
<1>6. ~ op'.excused => ~ op.excused
  BY <1>3
<1>7. op'.pc \in Steps \ {"seek", "copy"}
  BY <1>3 DEF Steps
<1>8. QED
  BY <1>1, <1>3, <1>5, <1>6, <1>7, Continues DEF CallStep, Steps

(* file_read of a source of at most one cluster gives its whole text.      *)
LEMMA ChunkIs ==
  ASSUME VolumeInv, NEW f \in [name : Name, cur : Nodes, pos : Nat, size : Nat],
         f.pos = 0, f.size > 0, f.size <= ClusterSize,
         NEW g \in Seq(Bytes), f.size = Len(g), HoldsIn(fat, data, f.cur, g, f.size)
  PROVE  ReadChunk(f).bytes = g
<1>1. f.size \in Nat /\ f.cur \in Nodes /\ fat \in Table /\ ClusterSize \in Nat
      /\ Len(g) \in Nat
  BY Constants DEF VolumeInv, TypeOK, Table
<1>2. ReadChunk(f).bytes = SubSeq(data[f.cur], 1, Len(g))
  <2>1. (IF f.size - f.pos < ClusterSize THEN f.size - f.pos ELSE ClusterSize) = Len(g)
    BY <1>1
  <2>2. QED
    BY <2>1 DEF ReadChunk
<1>3. \A i \in 1 .. Len(g) : data[f.cur][i] = g[i]
  <2> SUFFICES ASSUME NEW i \in 1 .. Len(g)  PROVE data[f.cur][i] = g[i]
    OBVIOUS
  <2>1. ByteIn(data, Chain_in(fat, f.cur), i) = g[i]
    BY DEF HoldsIn
  <2>2. i - 1 \in 0 .. ClusterSize - 1
    BY <1>1
  <2>3. (i - 1) \div ClusterSize = 0 /\ (i - 1) % ClusterSize = i - 1
    <3>1. ClusterSize * 0 + (i - 1) = i - 1
      BY <1>1
    <3>2. QED
      BY <2>2, <3>1, PlaceIs
  <2>4. Chain_in(fat, f.cur)[1] = f.cur
    BY <1>1, ChainLength
  <2>5. ((i - 1) \div ClusterSize) + 1 = 1 /\ ((i - 1) % ClusterSize) + 1 = i
    BY <1>1, <2>3
  <2>6. QED
    BY <2>1, <2>4, <2>5 DEF ByteIn
<1>4. SubSeq(data[f.cur], 1, Len(g)) = [i \in 1 .. Len(g) |-> data[f.cur][i]]
  <2>1. data[f.cur] \in [1 .. ClusterSize -> Bytes]
    BY <1>1 DEF VolumeInv, TypeOK
  <2>2. data[f.cur] \in Seq(Bytes) /\ Len(data[f.cur]) = ClusterSize
    BY <1>1, <2>1
  <2>3. QED
    BY <1>1, <2>2
<1>5. g = [i \in 1 .. Len(g) |-> g[i]]
  OBVIOUS
<1>6. [i \in 1 .. Len(g) |-> data[f.cur][i]] = [i \in 1 .. Len(g) |-> g[i]]
  BY <1>3
<1>7. QED
  BY <1>2, <1>4, <1>5, <1>6

(* file_copy has come to the end of its source.                            *)
LEMMA CopiedContents ==
  ASSUME VolumeInv, TypeOK', ContentsInv, Copy, op.source.pos >= op.source.size,
         Succeed(op.name, contents[op.source.name])
  PROVE  ContentsInv'
<1>1. op.pc = "copy" /\ fat' = fat /\ data' = data /\ dir' = dir
  BY DEF Copy, At, volume
<1>2. op.kind = "copy" /\ op \in Operation /\ Writing
  BY <1>1, Writes DEF VolumeInv, CallSound, Steps
<1>3. /\ op.source \in [name : Name, cur : Nodes, pos : Nat, size : Nat]
      /\ HoldsText(fat, data, dir[op.source.name], contents[op.source.name])
      /\ contents[op.source.name] # Absent /\ dir[op.source.name] # Absent
      /\ op.source.size = dir[op.source.name].size
  BY <1>2, SourceIs
<1> DEFINE g == contents[op.source.name]
           x == IF op.excused THEN Unknown ELSE g
<1>4. op' = NoOp /\ Noted(op.name, x)
  BY DEF Succeed
<1>5. g \in {Absent, Unknown} \cup Seq(Bytes)
  BY <1>3 DEF ContentsInv
<1>6. op.first \in Nodes /\ op.size \in Nat /\ dir[op.name] = Entry(op.first, op.size)
  BY <1>1, <1>2 DEF ContentsInv, CopySound, Operation
<1>7. ASSUME ~ op.excused, g # Unknown
      PROVE  op.size = Len(g) /\ HoldsIn(fat, data, op.first, g, op.size)
  <2>1. Goal = g
    BY <1>2 DEF Goal
  <2>2. CASE op.source.pos = 0 /\ op.size = 0 /\ op.first = 0
    <3>1. op.source.size = 0
      BY <1>3, <2>2
    <3>2. Len(g) = 0
      BY <1>3, <1>7, <3>1 DEF HoldsText
    <3>3. QED
      BY <2>2, <3>2 DEF HoldsIn
  <2>3. CASE Goal # Unknown => op.size = Len(Goal) /\ Holds(op.first, Goal, op.size)
    <3>1. op.size = Len(g) /\ Holds(op.first, g, op.size)
      BY <1>7, <2>1, <2>3
    <3>2. QED
      BY <3>1, FileHoldsIs
  <2>4. QED
    BY <1>1, <1>2, <1>7, <2>2, <2>3 DEF ContentsInv, CopySound
<1>8. HoldsText(fat', data', dir'[op.name], x)
  <2>1. CASE x = Unknown
    BY <2>1 DEF HoldsText
  <2>2. CASE ~ op.excused /\ g # Unknown
    <3>1. x = g /\ g # Absent
      BY <1>3, <2>2
    <3> HIDE DEF x
    <3>2. /\ dir'[op.name] = Entry(op.first, op.size)
          /\ op.size = Len(x) /\ HoldsIn(fat', data', op.first, x, op.size)
      BY <1>1, <1>6, <1>7, <2>2, <3>1
    <3>3. QED
      BY <1>6, <3>1, <3>2, EntryIs DEF HoldsText
  <2>3. QED
    BY <2>1, <2>2
<1>9. x \in {Absent, Unknown} \cup Seq(Bytes)
  BY <1>5
<1> HIDE DEF x
<1>10. QED
  BY <1>4, <1>8, <1>9, Returned DEF CallStep

(* ... and has read its source.                                            *)
LEMMA ChunkContents ==
  ASSUME VolumeInv, TypeOK', ContentsInv, ~ Accountable, Copy,
         op.source.pos < op.source.size, NEW end \in Nodes,
         op' = [ToEnd(op, ReadChunk(op.source).bytes, end) EXCEPT
                  !.source = ReadChunk(op.source).file],
         contents' = contents
  PROVE  ContentsInv'
<1> DEFINE f == op.source
           b == ReadChunk(f).bytes
           h == ReadChunk(f).file
<1>1. op.pc = "copy" /\ fat' = fat /\ data' = data /\ dir' = dir
  BY DEF Copy, At, volume
<1>2. op.kind = "copy" /\ op \in Operation /\ Writing
  BY <1>1, Writes DEF VolumeInv, CallSound, Steps
<1>3. /\ f \in [name : Name, cur : Nodes, pos : Nat, size : Nat]
      /\ f.name \in Name /\ f.name # op.name /\ dir[f.name] # Absent
      /\ f.cur = dir[f.name].first /\ f.size = dir[f.name].size
      /\ HoldsText(fat, data, dir[f.name], contents[f.name])
      /\ contents[f.name] # Absent
  BY <1>2, SourceIs
<1>4. /\ b \in Seq(Bytes) /\ h \in [name : Name, cur : Nodes, pos : Nat, size : Nat]
      /\ h.name = f.name /\ h.cur = f.cur /\ h.size = f.size
  BY <1>3, ChunkType DEF VolumeInv
<1>5. f.pos = 0 /\ f.size <= ClusterSize => h.pos = f.size
  <2>1. h.pos = f.pos + (IF f.size - f.pos < ClusterSize THEN f.size - f.pos ELSE ClusterSize)
    BY <1>3 DEF ReadChunk
  <2> HIDE DEF f, h
  <2>2. QED
    BY <1>3, <2>1, Constants
<1> HIDE DEF f, b, h
<1>6. /\ op'.pc = (IF op.first = 0 THEN "claim" ELSE "fill")
      /\ op'.kind = op.kind /\ op'.name = op.name /\ op'.first = op.first
      /\ op'.cur = end /\ op'.size = op.size /\ op'.pos = op.size
      /\ op'.todo = b /\ op'.source = h
      /\ op'.excused = (op.excused \/ end # Last(Chain(op.first))
                          \/ ~ (Accountable \/ InOnePlace(op)))
  <2> DEFINE e == ToEnd(op, b, end)
  <2>1. /\ e \in Operation
        /\ e.pc = (IF op.first = 0 THEN "claim" ELSE "fill")
        /\ e.kind = op.kind /\ e.name = op.name /\ e.first = op.first
        /\ e.cur = end /\ e.size = op.size /\ e.pos = op.size /\ e.todo = b
        /\ e.excused = (op.excused \/ end # Last(Chain(op.first))
                          \/ ~ (Accountable \/ InOnePlace(op)))
    BY <1>2, <1>4, ToEndIs
  <2>2. op' = [e EXCEPT !.source = h]
    BY DEF f, b, h
  <2> HIDE DEF e
  <2>3. /\ op'.pc = e.pc /\ op'.kind = e.kind /\ op'.name = e.name /\ op'.first = e.first
        /\ op'.cur = e.cur /\ op'.size = e.size /\ op'.pos = e.pos
        /\ op'.todo = e.todo /\ op'.source = h /\ op'.excused = e.excused
    BY <2>1, <2>2 DEF Operation
  <2>4. QED
    BY <2>1, <2>3
<1>7. Goal = contents[f.name] /\ Goal' = contents[f.name]
  BY <1>2, <1>4, <1>6 DEF Goal, f
<1>8. ~ op'.excused =>
        ~ op.excused /\ f.pos = 0 /\ op.size = 0 /\ op.first = 0 /\ f.size <= ClusterSize
  <2>1. SUFFICES ASSUME ~ op'.excused  PROVE
          ~ op.excused /\ f.pos = 0 /\ op.size = 0 /\ op.first = 0 /\ f.size <= ClusterSize
    OBVIOUS
  <2>2. ~ op.excused
    BY <1>6, <2>1
  <2>3. f.pos # f.size
    BY <1>3 DEF f
  <2>4. QED
    BY <1>1, <1>2, <2>2, <2>3 DEF ContentsInv, CopySound, f
<1>9. ASSUME ~ op'.excused, Goal' # Unknown  PROVE GoalSound(fat', data', op', Goal')
  <2> DEFINE g == contents[f.name]
  <2>1. g \in Seq(Bytes) /\ f.size = Len(g) /\ HoldsIn(fat, data, f.cur, g, f.size)
    BY <1>3, <1>7, <1>9 DEF ContentsInv, HoldsText
  <2>2. f.pos = 0 /\ op.size = 0 /\ op.first = 0 /\ f.size <= ClusterSize /\ f.size > 0
    BY <1>3, <1>8, <1>9 DEF f
  <2> HIDE DEF g
  <2>3. b = g
    BY <1>3, <2>1, <2>2, ChunkIs DEF b
  <2>4. SubSeq(g, 0 + 1, Len(g)) = g /\ Len(g) \in Nat
    BY <2>1
  <2>5. HoldsIn(fat', data', op'.first, g, 0)
    BY DEF HoldsIn
  <2>6. Goal' = g
    BY <1>7 DEF g
  <2>7. op'.pc = "claim" /\ op'.first = 0 /\ op'.pos = 0 /\ op'.size = 0 /\ op'.todo = g
    BY <1>6, <2>2, <2>3
  <2>8. QED
    BY <2>4, <2>5, <2>6, <2>7 DEF GoalSound
<1>10. WritesGoal'
  BY <1>9, WritesGoalIs
<1>11. SeekSound'
  BY <1>2, <1>6 DEF SeekSound
<1>12. op'.pc \in Steps /\ op'.pc # "copy"
  BY <1>6 DEF Steps
<1>13. CopySound'
  BY <1>1, <1>3, <1>4, <1>5, <1>6, <1>8, <1>12 DEF CopySound
<1>14. QED
  BY <1>6, <1>10, <1>11, <1>12, <1>13, WentOn DEF CallStep

LEMMA CopyContents ==
  ASSUME VolumeInv, TypeOK', ContentsInv, ~ Accountable, Copy
  PROVE  ContentsInv'
<1>1. CASE Fail
  BY <1>1, GaveUp DEF CallStep
<1>2. CASE ~ Fail
  <2>1. \/ /\ op.source.pos >= op.source.size
           /\ Succeed(op.name, contents[op.source.name])
        \/ /\ op.source.pos < op.source.size
           /\ \E end \in Nodes :
                op' = [ToEnd(op, ReadChunk(op.source).bytes, end) EXCEPT
                         !.source = ReadChunk(op.source).file]
           /\ contents' = contents
    BY <1>2 DEF Copy, Nodes
  <2>2. QED
    BY <2>1, CopiedContents, ChunkContents
<1>3. QED
  BY <1>1, <1>2

LEMMA ContentsInit ==
  ASSUME Init
  PROVE  ContentsInv
<1>1. /\ op = NoOp /\ op.pc = "idle" /\ op.kind = "none"
      /\ \A n \in Name : contents[n] = Absent /\ dir[n] = Absent
      /\ contents \in [Name -> {Absent, Unknown} \cup Seq(Bytes)]
  BY DEF Init, NoOp
<1>2. \A n \in Name : FileHolds(n)
  BY <1>1 DEF FileHolds
<1>3. ~ Filling /\ ~ Writing /\ op.pc # "seek" /\ op.kind # "copy"
  BY <1>1 DEF Filling, Writing, Steps
<1>4. WritesGoal
  BY <1>3 DEF WritesGoal
<1>5. SeekSound /\ CopySound
  BY <1>3 DEF SeekSound, CopySound
<1>6. ContentsHeld
  BY <1>2 DEF ContentsHeld
<1>7. contents \in [Name -> {Absent, Unknown} \cup Seq(Bytes)]
  BY <1>1
<1>8. QED
  BY <1>4, <1>5, <1>6, <1>7, Zenon DEF ContentsInv

LEMMA ContentsSame ==
  ASSUME ContentsInv, UNCHANGED vars
  PROVE  ContentsInv'
<1>1. fat' = fat /\ data' = data /\ dir' = dir /\ op' = op /\ contents' = contents
  BY DEF vars, volume
<1>2. \A n : FileHolds(n)' <=> FileHolds(n)
  BY <1>1, FileHoldsIs
<1>3. \A first, x, n : Holds(first, x, n) <=> HoldsIn(fat', data', first, x, n)
  BY <1>1, FileHoldsIs
<1>4. Goal' = Goal
  BY <1>1 DEF Goal
<1>5. ContentsHeld'
  BY <1>1, <1>2 DEF ContentsInv, ContentsHeld, At
<1>6. WritesGoal'
  BY <1>1, <1>4, WritesGoalIs DEF ContentsInv, Filling
<1>7. SeekSound'
  BY <1>1, <1>2 DEF ContentsInv, SeekSound, Writing
<1>8. Holds(op.first, Goal, op.size)' <=> Holds(op.first, Goal, op.size)
  <2>1. Holds(op.first, Goal, op.size)' <=> HoldsIn(fat', data', op'.first, Goal', op'.size)
    BY DEF Holds, HoldsIn, ByteOf, ByteIn, Chain
  <2>2. QED
    BY <1>1, <1>3, <1>4, <2>1
<1>9. CopySound'
  BY <1>1, <1>4, <1>8 DEF ContentsInv, CopySound
<1>10. QED
  BY <1>1, <1>5, <1>6, <1>7, <1>9 DEF ContentsInv

(* Every step keeps what the files hold.                                   *)
LEMMA ContentsStep ==
  ASSUME VolumeInv, VolumeInv', ContentsInv, ~ Accountable, [Next]_vars
  PROVE  ContentsInv'
<1>1. TypeOK'
  BY DEF VolumeInv
<1>2. CASE UNCHANGED vars
  BY <1>2, ContentsSame
<1>3. ASSUME NEW n \in Name, Create(n)  PROVE ContentsInv'
  BY <1>3, CreateContents
<1>4. ASSUME NEW n \in Name, StartDelete(n)  PROVE ContentsInv'
  BY <1>4, OpenContents
<1>5. ASSUME NEW n \in Name, NEW text \in Text, Write(n, text)  PROVE ContentsInv'
  BY <1>5, OpenContents
<1>6. ASSUME NEW n \in Name, NEW text \in Added, StartAppend(n, text)  PROVE ContentsInv'
  BY <1>6, OpenContents
<1>7. ASSUME NEW n \in Name, NEW m \in Name, StartCopy(n, m)  PROVE ContentsInv'
  BY <1>7, StartCopyContents
<1>8. CASE Seek
  BY <1>1, <1>8, SeekContents
<1>9. CASE Empty
  BY <1>1, <1>9, EmptyContents
<1>10. CASE Claim
  BY <1>1, <1>10, ClaimContents
<1>11. CASE ZeroNew
  BY <1>1, <1>11, ZeroNewContents
<1>12. CASE Unclaim \/ Stop
  BY <1>1, <1>12, GaveUp DEF CallStep, Unclaim, Stop
<1>13. CASE Fill
  BY <1>1, <1>13, FillContents
<1>14. CASE NothingToFill
  BY <1>1, <1>14, NothingContents
<1>15. CASE Link
  BY <1>1, <1>15, LinkContents
<1>16. CASE Mark
  BY <1>1, <1>16, MarkContents
<1>17. CASE Rezero
  BY <1>1, <1>17, RezeroContents
<1>18. CASE Close
  BY <1>1, <1>18, CloseContents
<1>19. CASE Copy
  BY <1>1, <1>19, CopyContents
<1>20. CASE FreeNext
  BY <1>1, <1>20, FreeContents
<1>21. CASE RemoveEntry
  BY <1>1, <1>21, RemoveContents
<1>22. QED
  BY <1>2, <1>3, <1>4, <1>5, <1>6, <1>7, <1>8, <1>9, <1>10, <1>11, <1>12, <1>13, <1>14, <1>15,
     <1>16, <1>17, <1>18, <1>19, <1>20, <1>21 DEF Next

(* What the files hold is what reading them gives.                         *)
LEMMA HeldIsRead ==
  ASSUME VolumeInv, ContentsInv
  PROVE  ReadsBack
<1>1. SUFFICES ASSUME op.pc = "idle", NEW n \in Name, contents[n] # Unknown, contents[n] # Absent
               PROVE  dir[n] # Absent /\ Stored(n) = contents[n]
  <2>1. SUFFICES ASSUME op.pc = "idle"  PROVE ReadsBack
    BY DEF ReadsBack, At
  <2>2. \A n \in Name : HoldsText(fat, data, dir[n], contents[n])
    BY <2>1, FileHoldsIs DEF ContentsInv, ContentsHeld, At
  <2>3. QED
    BY <2>1, <2>2 DEF ReadsBack, HoldsText
<1> DEFINE g == contents[n]
           s == Chain(dir[n].first)
<1>2. /\ dir[n] # Absent /\ dir[n].size = Len(g)
      /\ HoldsIn(fat, data, dir[n].first, g, Len(g))
  BY <1>1, FileHoldsIs DEF ContentsInv, ContentsHeld, At, HoldsText
<1>3. g \in Seq(Bytes) /\ Len(g) \in Nat
  BY <1>1 DEF ContentsInv
<1>4. \A i \in 1 .. Len(g) : i <= ClusterSize * Len(s) /\ ByteOf(s, i) = g[i]
  <2> SUFFICES ASSUME NEW i \in 1 .. Len(g)
               PROVE  i <= ClusterSize * Len(s) /\ ByteOf(s, i) = g[i]
    OBVIOUS
  <2>1. /\ Len(g) > 0 /\ Len(g) <= ClusterSize * Len(s) /\ ByteOf(s, i) = g[i]
    BY <1>2, <1>3 DEF HoldsIn, Chain, ByteOf, ByteIn
  <2>2. ClusterSize * Len(s) \in Int
    <3>1. dir[n].first \in Nodes /\ fat \in Table
      BY <1>2 DEF VolumeInv, TypeOK, Table
    <3>2. Len(s) \in Nat
      BY <3>1, ChainLength DEF Chain
    <3> HIDE DEF s
    <3>3. QED
      BY <3>2, Constants
  <2> HIDE DEF s, g
  <2>3. QED
    BY <1>3, <2>1, <2>2
<1>5. {j \in 1 .. dir[n].size : j <= ClusterSize * Len(s)} = 1 .. Len(g)
  BY <1>2, <1>4
<1>6. Stored(n) = [i \in 1 .. Len(g) |-> ByteOf(s, i)]
  BY <1>5 DEF Stored
<1> HIDE DEF s, g
<1>7. Stored(n) = [i \in 1 .. Len(g) |-> g[i]]
  BY <1>4, <1>6
<1>8. g = [i \in 1 .. Len(g) |-> g[i]]
  BY <1>3
<1>9. QED
  BY <1>2, <1>7, <1>8 DEF g

(* Whatever faults and stops have interrupted, a file that a call of       *)
(* file.c reported as done reads back as the bytes the calls gave it, when *)
(* no fault hits a deletion, and but for the appends and copies that store *)
(* their bytes past the file's last cluster (file_append's seek).          *)
THEOREM FilesReadBack ==
  ASSUME CarefulUse, ~ Accountable
  PROVE  Spec => []ReadsBack
<1>1. Init => VolumeInv /\ ContentsInv
  BY VolumeInit, ContentsInit
<1>2. VolumeInv /\ ContentsInv /\ [Next]_vars => (VolumeInv /\ ContentsInv)'
  <2> SUFFICES ASSUME VolumeInv, ContentsInv, [Next]_vars  PROVE VolumeInv' /\ ContentsInv'
    OBVIOUS
  <2>1. VolumeInv'
    BY VolumeStep
  <2>2. QED
    BY <2>1, ContentsStep
<1>3. VolumeInv /\ ContentsInv => ReadsBack
  BY HeldIsRead
<1>4. QED
  BY <1>1, <1>2, <1>3, PTL DEF Spec
=============================================================================
