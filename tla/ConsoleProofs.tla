---------------------------- MODULE ConsoleProofs ----------------------------
(***************************************************************************)
(* Proofs about Console and CommandLine, for any size of buffer, line and  *)
(* screen, keyboard tables, prompt and commands: the ring buffer           *)
(* implements a bounded FIFO queue, the screen shows the line that is      *)
(* typed, the words of a line become the names that are entered, and echo  *)
(* takes a line apart without loss.                                        *)
(***************************************************************************)
EXTENDS CommandLine, FiniteSetTheorems, WellFoundedInduction, SequenceTheorems, TLAPS

-----------------------------------------------------------------------------
(* Numbers.                                                                *)

(* Every set of numbers has a least element; hence induction.              *)
LEMMA Least ==
  ASSUME NEW T \in SUBSET Nat, T # {}
  PROVE  \E n \in T : \A m \in T : n <= m
<1> DEFINE Less == OpToRel(<, Nat)
<1>1. IsWellFoundedOn(Less, Nat)
  BY NatLessThanWellFounded, Zenon
<1>2. \A m, n \in Nat : <<m, n>> \in Less <=> m < n
  BY DEF OpToRel
<1> HIDE DEF Less
<1>3. PICK n \in T : \A m \in T : <<m, n>> \notin Less
  BY <1>1, WFMin
<1>4. \A m \in T : ~ (m < n)
  BY <1>2, <1>3
<1>5. \A m \in T : n <= m
  BY <1>4
<1>6. QED
  BY <1>5

LEMMA UpTo ==
  ASSUME NEW N \in Nat, NEW S, 0 \in S,
         \A n \in 0 .. N - 1 : n \in S => n + 1 \in S
  PROVE  0 .. N \subseteq S
<1> DEFINE T == {n \in 0 .. N : n \notin S}
<1>1. SUFFICES ASSUME T # {}  PROVE FALSE
  OBVIOUS
<1>2. PICK n \in T : \A m \in T : n <= m
  <2>1. T \in SUBSET Nat
    OBVIOUS
  <2> HIDE DEF T
  <2>2. QED
    BY <1>1, <2>1, Least
<1>3. n # 0 /\ n - 1 \in 0 .. N - 1 /\ n - 1 \notin T
  BY <1>2
<1>4. QED
  BY <1>3

(* A function may be defined by what it is at 0 and how it goes on.        *)
LEMMA Iterated ==
  ASSUME NEW N \in Nat, NEW X, NEW x \in X, NEW G \in [X -> X]
  PROVE  \E f \in [0 .. N -> X] : f[0] = x /\ \A n \in 1 .. N : f[n] = G[f[n - 1]]
<1> DEFINE Goes(k, f) == f[0] = x /\ \A n \in 1 .. k : f[n] = G[f[n - 1]]
           S == {k \in Nat : \E f \in [0 .. k -> X] : Goes(k, f)}
<1>1. 0 \in S
  <2>1. [n \in 0 .. 0 |-> x] \in [0 .. 0 -> X] /\ Goes(0, [n \in 0 .. 0 |-> x])
    OBVIOUS
  <2>2. QED
    BY <2>1
<1>2. ASSUME NEW k \in 0 .. N - 1, k \in S  PROVE k + 1 \in S
  <2>1. PICK f \in [0 .. k -> X] : Goes(k, f)
    BY <1>2
  <2> DEFINE g == [n \in 0 .. k + 1 |-> IF n = k + 1 THEN G[f[k]] ELSE f[n]]
  <2>2. f[k] \in X /\ G[f[k]] \in X
    OBVIOUS
  <2>3. g \in [0 .. k + 1 -> X]
    BY <2>2
  <2>4. g[0] = x
    BY <2>1
  <2>5. ASSUME NEW n \in 1 .. k + 1  PROVE g[n] = G[g[n - 1]]
    <3>1. CASE n = k + 1
      BY <3>1
    <3>2. CASE n # k + 1
      <4>1. n \in 1 .. k /\ g[n] = f[n] /\ g[n - 1] = f[n - 1]
        BY <3>2
      <4>2. QED
        BY <4>1, <2>1
    <3>3. QED
      BY <3>1, <3>2
  <2>6. QED
    BY <2>3, <2>4, <2>5
<1>3. N \in S
  <2> HIDE DEF S
  <2>1. 0 .. N \subseteq S
    BY <1>1, <1>2, UpTo
  <2>2. QED
    BY <2>1
<1>4. QED
  BY <1>3

(* The same functions as a set, which the provers find more easily.        *)
Traces(N, X, x, G) ==
  {f \in [0 .. N -> X] : f[0] = x /\ \A n \in 1 .. N : f[n] = G[f[n - 1]]}

LEMMA HasTrace ==
  ASSUME NEW N \in Nat, NEW X, NEW x \in X, NEW G \in [X -> X]
  PROVE  Traces(N, X, x, G) # {}
<1>1. \E f \in [0 .. N -> X] : f[0] = x /\ \A n \in 1 .. N : f[n] = G[f[n - 1]]
  BY Iterated, SMTT(60)
<1>2. QED
  BY <1>1 DEF Traces

-----------------------------------------------------------------------------
(* Head and tail are in the array, and every key in it is a character or   *)
(* the initial zero.                                                       *)
RingOK ==
  /\ keyboard_buffer \in [0 .. Size - 1 -> Char \cup {NoChar}]
  /\ buffer_head \in 0 .. Size - 1
  /\ buffer_tail \in 0 .. Size - 1

-----------------------------------------------------------------------------
(* Positions.                                                              *)

(* Adding to a position and the distance between two, when the array       *)
(* wraps at most once.                                                     *)
LEMMA Wraps ==
  ASSUME NEW a \in 0 .. Size - 1, NEW b \in 0 .. Size - 1
  PROVE  /\ (a + b) % Size = IF a + b < Size THEN a + b ELSE a + b - Size
         /\ (a - b) % Size = IF a >= b THEN a - b ELSE a - b + Size
<1>1. Size \in Nat /\ Size > 1
  BY ConsoleAssumption
<1>2. \A n \in 0 .. Size - 1 : n % Size = n
  BY <1>1
<1>3. \A n \in Size .. 2 * Size - 1 : n % Size = n - Size
  BY <1>1
<1>4. \A n \in -Size .. -1 : n % Size = n + Size
  BY <1>1
<1>5. QED
  BY <1>1, <1>2, <1>3, <1>4

(* The positions behind a tail t are told apart by their distance from it, *)
(* and the head h is one of them.                                          *)
LEMMA Positions ==
  ASSUME NEW h \in 0 .. Size - 1, NEW t \in 0 .. Size - 1
  PROVE  /\ Size \in Nat /\ Size > 1
         /\ (h - t) % Size \in 0 .. Size - 1
         /\ \A i \in 0 .. Size - 1 :
              /\ (t + i) % Size \in 0 .. Size - 1
              /\ (t + i) % Size = h <=> i = (h - t) % Size
<1>1. Size \in Nat /\ Size > 1
  BY ConsoleAssumption
<1>2. (h - t) % Size = IF h >= t THEN h - t ELSE h - t + Size
  BY Wraps
<1>3. \A i \in 0 .. Size - 1 : (t + i) % Size = IF t + i < Size THEN t + i ELSE t + i - Size
  BY Wraps
<1>4. QED
  BY <1>1, <1>2, <1>3

(* The keys between tail and head, oldest first.                           *)
Keys(buffer, h, t) == [i \in 1 .. (h - t) % Size |-> buffer[(t + i - 1) % Size]]

LEMMA KeysFacts ==
  ASSUME NEW S, NEW buffer \in [0 .. Size - 1 -> S],
         NEW h \in 0 .. Size - 1, NEW t \in 0 .. Size - 1
  PROVE  /\ Keys(buffer, h, t) \in Seq(S)
         /\ Len(Keys(buffer, h, t)) = (h - t) % Size
         /\ \A i \in 1 .. (h - t) % Size : Keys(buffer, h, t)[i] = buffer[(t + (i - 1)) % Size]
<1> DEFINE n == (h - t) % Size
<1>1. n \in Nat /\ Size \in Nat /\ \A i \in 1 .. n : i - 1 \in 0 .. Size - 1
  <2>1. n \in 0 .. Size - 1 /\ Size \in Nat
    BY Positions
  <2> HIDE DEF n
  <2>2. QED
    BY <2>1
<1>2. \A i \in 1 .. n : (t + (i - 1)) % Size \in 0 .. Size - 1
  BY <1>1, Positions
<1> HIDE DEF n
<1>3. \A i \in 1 .. n : t + i - 1 = t + (i - 1)
  BY <1>1
<1>4. Keys(buffer, h, t) = [i \in 1 .. n |-> buffer[(t + (i - 1)) % Size]]
  BY <1>3 DEF Keys, n
<1>5. QED
  BY <1>1, <1>2, <1>4 DEF n

-----------------------------------------------------------------------------
(* The two ends.                                                           *)

(* A key goes behind those that wait, unless Size - 1 do.                  *)
LEMMA PutStep ==
  ASSUME RingOK, NEW c \in Char, keyboard_buffer_put(c)
  PROVE  /\ RingOK'
         /\ Buffer!Put(c) \/ Waiting' = Waiting
         /\ Len(Waiting) < Size - 1 => Waiting' = Append(Waiting, c)
<1> DEFINE next == (buffer_head + 1) % Size
           count == (buffer_head - buffer_tail) % Size
<1>1. /\ Size \in Nat /\ Size > 1 /\ count \in 0 .. Size - 1
      /\ buffer_head \in 0 .. Size - 1 /\ buffer_tail \in 0 .. Size - 1
      /\ keyboard_buffer \in [0 .. Size - 1 -> Char \cup {NoChar}]
  BY Positions DEF RingOK
<1>2. next = IF buffer_head + 1 < Size THEN buffer_head + 1 ELSE buffer_head + 1 - Size
  BY <1>1, Wraps
<1>3. next \in 0 .. Size - 1
  BY <1>1, <1>2
<1>4. CASE next = buffer_tail
  <2>1. UNCHANGED ring
    BY <1>4 DEF keyboard_buffer_put
  <2>2. RingOK' /\ Waiting' = Waiting
    BY <2>1 DEF RingOK, ring, Waiting, Char
  <2>3. count = Size - 1
    <3>1. count = IF buffer_head >= buffer_tail THEN buffer_head - buffer_tail
                                               ELSE buffer_head - buffer_tail + Size
      BY <1>1, Wraps
    <3> HIDE DEF next, count
    <3>2. QED
      BY <1>1, <1>2, <1>4, <3>1
  <2>4. Len(Waiting) = count
    BY <1>1, KeysFacts DEF Waiting, Keys
  <2>5. QED
    BY <2>2, <2>3, <2>4
<1>5. CASE next # buffer_tail
  <2>1. /\ keyboard_buffer' = [keyboard_buffer EXCEPT ![buffer_head] = c]
        /\ buffer_head' = next /\ buffer_tail' = buffer_tail
    BY <1>5 DEF keyboard_buffer_put
  <2>2. /\ keyboard_buffer' \in [0 .. Size - 1 -> Char \cup {NoChar}]
        /\ keyboard_buffer'[buffer_head] = c
        /\ \A i \in 0 .. Size - 1 : i # buffer_head => keyboard_buffer'[i] = keyboard_buffer[i]
    BY <1>1, <2>1
  <2>3. /\ keyboard_buffer' \in [0 .. Size - 1 -> Char \cup {NoChar}]
        /\ buffer_tail \in 0 .. Size - 1
    BY <1>1, <2>2
  <2>4. RingOK'
    BY <1>1, <1>3, <2>1, <2>2 DEF RingOK, Char
  <2>5. count < Size - 1 /\ (next - buffer_tail) % Size = count + 1
    <3>1. count = IF buffer_head >= buffer_tail THEN buffer_head - buffer_tail
                                               ELSE buffer_head - buffer_tail + Size
      BY <1>1, Wraps
    <3>2. (next - buffer_tail) % Size =
            IF next >= buffer_tail THEN next - buffer_tail ELSE next - buffer_tail + Size
      BY <1>1, <1>3, Wraps
    <3> HIDE DEF next, count
    <3>3. QED
      BY <1>1, <1>2, <1>5, <3>1, <3>2
  <2>6. \A i \in 0 .. Size - 1 :
          /\ (buffer_tail + i) % Size \in 0 .. Size - 1
          /\ (buffer_tail + i) % Size = buffer_head <=> i = count
    BY <1>1, Positions
  <2>7. /\ Waiting \in Seq(Char \cup {NoChar}) /\ Len(Waiting) = count
        /\ \A i \in 1 .. count : Waiting[i] = keyboard_buffer[(buffer_tail + (i - 1)) % Size]
    BY <1>1, KeysFacts DEF Waiting, Keys
  <2> HIDE DEF next, count
  <2>8. Waiting' = Keys(keyboard_buffer', next, buffer_tail)
    BY <2>1 DEF Waiting, Keys
  <2>9. /\ Waiting' \in Seq(Char \cup {NoChar}) /\ Len(Waiting') = count + 1
        /\ \A i \in 1 .. count + 1 :
             Waiting'[i] = keyboard_buffer'[(buffer_tail + (i - 1)) % Size]
    <3>1. /\ Keys(keyboard_buffer', next, buffer_tail) \in Seq(Char \cup {NoChar})
          /\ Len(Keys(keyboard_buffer', next, buffer_tail)) = (next - buffer_tail) % Size
          /\ \A i \in 1 .. (next - buffer_tail) % Size :
               Keys(keyboard_buffer', next, buffer_tail)[i]
                 = keyboard_buffer'[(buffer_tail + (i - 1)) % Size]
      BY <1>3, <2>3, KeysFacts
    <3>2. QED
      BY <3>1, <2>5, <2>8
  <2>10. /\ Append(Waiting, c) \in Seq(Char \cup {NoChar}) /\ Len(Append(Waiting, c)) = count + 1
         /\ \A i \in 1 .. count : Append(Waiting, c)[i] = Waiting[i]
         /\ Append(Waiting, c)[count + 1] = c
    BY <2>7, AppendProperties
  <2>11. ASSUME NEW i \in 1 .. count + 1 PROVE Waiting'[i] = Append(Waiting, c)[i]
    <3>1. i - 1 \in 0 .. Size - 1 /\ (i = count + 1 <=> i - 1 = count)
      BY <1>1, <2>5
    <3>2. CASE i = count + 1
      BY <3>1, <3>2, <2>2, <2>6, <2>9, <2>10
    <3>3. CASE i # count + 1
      <4>1. i \in 1 .. count
        BY <1>1, <3>3
      <4>2. Waiting'[i] = Waiting[i]
        BY <3>1, <3>3, <4>1, <2>2, <2>6, <2>7, <2>9
      <4>3. QED
        BY <4>1, <4>2, <2>10
    <3>4. QED
      BY <3>2, <3>3
  <2>12. Waiting' = Append(Waiting, c)
    BY <2>9, <2>10, <2>11, SeqEqual
  <2>13. QED
    BY <2>4, <2>5, <2>7, <2>12 DEF Buffer!Put
<1>6. QED
  BY <1>4, <1>5

(* The key that is taken is the first of those that wait.                  *)
LEMMA GetStep ==
  ASSUME RingOK, NEW c, keyboard_getchar(c)
  PROVE  RingOK' /\ Buffer!Get
<1> DEFINE next == (buffer_tail + 1) % Size
           count == (buffer_head - buffer_tail) % Size
<1>1. /\ Size \in Nat /\ Size > 1 /\ buffer_head # buffer_tail /\ count \in 0 .. Size - 1
      /\ buffer_head \in 0 .. Size - 1 /\ buffer_tail \in 0 .. Size - 1
      /\ buffer_tail' = next
      /\ keyboard_buffer' = keyboard_buffer /\ buffer_head' = buffer_head
      /\ keyboard_buffer \in [0 .. Size - 1 -> Char \cup {NoChar}]
  BY Positions DEF RingOK, keyboard_getchar
<1>2. next = IF buffer_tail + 1 < Size THEN buffer_tail + 1 ELSE buffer_tail + 1 - Size
  BY <1>1, Wraps
<1>3. next \in 0 .. Size - 1
  BY <1>1, <1>2
<1>4. RingOK'
  BY <1>1, <1>3 DEF RingOK, Char
<1>5. count > 0 /\ (buffer_head - next) % Size = count - 1
  <2>1. count = IF buffer_head >= buffer_tail THEN buffer_head - buffer_tail
                                             ELSE buffer_head - buffer_tail + Size
    BY <1>1, Wraps
  <2>2. (buffer_head - next) % Size =
          IF buffer_head >= next THEN buffer_head - next ELSE buffer_head - next + Size
    BY <1>1, <1>3, Wraps
  <2> HIDE DEF next, count
  <2>3. QED
    BY <1>1, <1>2, <2>1, <2>2
<1>6. /\ keyboard_buffer \in [0 .. Size - 1 -> Char \cup {NoChar}]
      /\ buffer_head \in 0 .. Size - 1
  BY <1>1
<1>7. /\ Waiting \in Seq(Char \cup {NoChar}) /\ Len(Waiting) = count
      /\ \A i \in 1 .. count : Waiting[i] = keyboard_buffer[(buffer_tail + (i - 1)) % Size]
  BY <1>1, KeysFacts DEF Waiting, Keys
<1> HIDE DEF next, count
<1>8. Waiting' = Keys(keyboard_buffer, buffer_head, next)
  BY <1>1 DEF Waiting, Keys
<1>9. /\ Waiting' \in Seq(Char \cup {NoChar}) /\ Len(Waiting') = count - 1
      /\ \A i \in 1 .. count - 1 : Waiting'[i] = keyboard_buffer[(next + (i - 1)) % Size]
  <2>1. /\ Keys(keyboard_buffer, buffer_head, next) \in Seq(Char \cup {NoChar})
        /\ Len(Keys(keyboard_buffer, buffer_head, next)) = (buffer_head - next) % Size
        /\ \A i \in 1 .. (buffer_head - next) % Size :
             Keys(keyboard_buffer, buffer_head, next)[i] = keyboard_buffer[(next + (i - 1)) % Size]
    BY <1>3, <1>6, KeysFacts
  <2>2. QED
    BY <2>1, <1>5, <1>8
<1>10. Waiting # <<>>
  BY <1>1, <1>5, <1>7, EmptySeq
<1>11. /\ Tail(Waiting) \in Seq(Char \cup {NoChar}) /\ Len(Tail(Waiting)) = count - 1
       /\ \A i \in 1 .. count - 1 : Tail(Waiting)[i] = Waiting[i + 1]
  BY <1>7, <1>10, HeadTailProperties
<1>12. ASSUME NEW i \in 1 .. count - 1 PROVE Waiting'[i] = Tail(Waiting)[i]
  <2>1. i - 1 \in 0 .. Size - 1 /\ i \in 0 .. Size - 1 /\ i + 1 \in 1 .. count
    BY <1>1
  <2>2. (next + (i - 1)) % Size =
          IF next + (i - 1) < Size THEN next + (i - 1) ELSE next + (i - 1) - Size
    BY <1>3, <2>1, Wraps
  <2>3. (buffer_tail + i) % Size =
          IF buffer_tail + i < Size THEN buffer_tail + i ELSE buffer_tail + i - Size
    BY <1>1, <2>1, Wraps
  <2>4. (next + (i - 1)) % Size = (buffer_tail + i) % Size
    BY <1>1, <1>2, <2>1, <2>2, <2>3
  <2>5. (i + 1) - 1 = i
    BY <2>1
  <2>6. QED
    BY <1>7, <1>9, <1>11, <2>1, <2>4, <2>5
<1>13. Waiting' = Tail(Waiting)
  BY <1>9, <1>11, <1>12, SeqEqual
<1>14. QED
  BY <1>4, <1>10, <1>13 DEF Buffer!Get

-----------------------------------------------------------------------------
(* Together.                                                               *)

LEMMA InitRing ==
  ASSUME Init
  PROVE  RingOK /\ Buffer!Init
<1>1. /\ shift_pressed = FALSE
      /\ keyboard_buffer = [i \in 0 .. Size - 1 |-> NoChar]
      /\ buffer_head = 0 /\ buffer_tail = 0
  BY DEF Init
<1>2. Size \in Nat /\ Size > 1
  BY ConsoleAssumption
<1>3. RingOK
  BY <1>1, <1>2 DEF RingOK
<1>4. (buffer_head - buffer_tail) % Size = 0
  BY <1>1, <1>2, Positions
<1>5. Waiting = <<>>
  BY <1>4 DEF Waiting
<1>6. QED
  BY <1>3, <1>5 DEF Buffer!Init

LEMMA NextRing ==
  ASSUME RingOK, [Next]_vars
  PROVE  RingOK' /\ [Buffer!Next]_Waiting
<1>1. ASSUME NEW c, keyboard_getchar(c) PROVE RingOK' /\ [Buffer!Next]_Waiting
  BY <1>1, GetStep DEF Buffer!Next
<1>2. CASE ReadKey
  BY <1>1, <1>2 DEF ReadKey, Erase, Execute, Type
<1>3. ASSUME NEW pressed \in BOOLEAN, PressShift(pressed)
      PROVE  RingOK' /\ [Buffer!Next]_Waiting
  BY <1>3 DEF PressShift, ring, RingOK, Waiting
<1>4. ASSUME NEW k \in Key, Press(k) PROVE RingOK' /\ [Buffer!Next]_Waiting
  <2>1. CASE CharOf(k) = NoChar
    BY <1>4, <2>1 DEF Press, ring, RingOK, Waiting
  <2>2. CASE CharOf(k) # NoChar
    <3>1. CharOf(k) \in Char
      BY <2>2 DEF CharOf, Char
    <3>2. keyboard_buffer_put(CharOf(k)) /\ UNCHANGED shift_pressed
      BY <1>4, <2>2 DEF Press
    <3>3. QED
      BY <3>1, <3>2, PutStep DEF Buffer!Next
  <2>3. QED
    BY <2>1, <2>2
<1>5. CASE UNCHANGED vars
  BY <1>5 DEF vars, ring, RingOK, Waiting
<1>6. QED
  BY <1>2, <1>3, <1>4, <1>5 DEF Next

(* The keyboard buffer delivers keys in the order they were pressed, and   *)
(* neither overwrites nor repeats one, for every size and wherever head    *)
(* and tail wrap.                                                          *)
THEOREM RingIsFifo == Spec => BufferIsFifo
<1>1. Init => RingOK /\ Buffer!Init
  BY InitRing
<1>2. RingOK /\ [Next]_vars => RingOK' /\ [Buffer!Next]_Waiting
  BY NextRing
<1>3. QED
  BY <1>1, <1>2, PTL DEF Spec, BufferIsFifo, Buffer!Spec

(* Head and tail never leave the array.                                    *)
LEMMA RingHolds == Spec => []RingOK
<1>1. Init => RingOK
  BY InitRing
<1>2. RingOK /\ [Next]_vars => RingOK'
  BY NextRing
<1>3. QED
  BY <1>1, <1>2, PTL DEF Spec

(* keyboard_buffer_put: a key that is pressed while fewer than Size - 1    *)
(* keys wait is put behind them, wherever head and tail are in the array.  *)
(* That is KeyIsKept, but for the claim that the interrupt can be served.  *)
(* A step that drops a key changes nothing, so that this is said of the    *)
(* action and not of behaviours; by RingHolds, RingOK is always so.        *)
THEOREM KeysAreKept ==
  ASSUME RingOK, NEW k \in Key, Press(k), CharOf(k) # NoChar, Len(Waiting) < Size - 1
  PROVE  Waiting' = Append(Waiting, CharOf(k))
<1>1. CharOf(k) \in Char /\ keyboard_buffer_put(CharOf(k))
  BY ConsoleAssumption DEF Press, CharOf, Char
<1>2. QED
  BY <1>1, PutStep

-----------------------------------------------------------------------------
(* The screen.                                                             *)

(* What can be on it.                                                      *)
Inks == Char \cup Glyph \cup {Blank}

Screens ==
  [cell : [Cells -> Inks], row : 0 .. Height - 1, col : 0 .. Width - 1]

(* The text ends at the cursor, and nothing is behind the cursor.          *)
Shows(s, text) ==
  /\ s \in Screens
  /\ Place(s) > Len(text)
  /\ \A i \in 1 .. Len(text) : s.cell[(Place(s) - Len(text)) + (i - 1)] = text[i]
  /\ \A i \in Cells : i >= Place(s) => s.cell[i] = Blank

(* Texts without a newline that leave a row of the screen free.            *)
Texts == {text \in Seq(Inks \ {NewLine}) : Len(text) <= Width * (Height - 1)}

(* The sizes of the screen and the places of its rows.                     *)
LEMMA Rows ==
  /\ Width \in Nat /\ Width > 0
  /\ Height \in Nat /\ Height > 0
  /\ Width * Height \in Nat
  /\ Width * (Height - 1) \in Nat
  /\ Width * Height = Width * (Height - 1) + Width
  /\ \A r \in 0 .. Height - 1 :
       /\ r * Width \in Nat /\ r * Width <= Width * (Height - 1)
       /\ (r + 1) * Width = r * Width + Width
       /\ (r - 1) * Width = r * Width - Width
<1>1. Width \in Nat /\ Width > 0 /\ Height \in Nat /\ Height > 0
  BY ScreenAssumption
<1>2. Width * Height \in Nat /\ Width * (Height - 1) \in Nat
  BY <1>1
<1>3. Width * Height = Width * (Height - 1) + Width
  BY <1>1
<1>4. ASSUME NEW r \in 0 .. Height - 1
      PROVE  /\ r * Width \in Nat /\ r * Width <= Width * (Height - 1)
             /\ (r + 1) * Width = r * Width + Width
             /\ (r - 1) * Width = r * Width - Width
  <2>1. r * Width \in Nat
    BY <1>1
  <2>2. (Height - 1) - r \in Nat
    BY <1>1
  <2>3. ((Height - 1) - r) * Width \in Nat
    BY <1>1, <2>2
  <2>4. ((Height - 1) - r) * Width = Width * (Height - 1) - r * Width
    BY <1>1
  <2>5. r * Width <= Width * (Height - 1)
    BY <1>2, <2>1, <2>3, <2>4
  <2>6. (r + 1) * Width = r * Width + Width /\ (r - 1) * Width = r * Width - Width
    BY <1>1
  <2>7. QED
    BY <2>1, <2>5, <2>6
<1>5. QED
  BY <1>1, <1>2, <1>3, <1>4

(* The cursor is in the video memory; only one on the last row has no row  *)
(* below it.                                                               *)
LEMMA PlaceFacts ==
  ASSUME NEW s \in Screens
  PROVE  /\ s.row \in 0 .. Height - 1 /\ s.col \in 0 .. Width - 1
         /\ s.cell \in [Cells -> Inks]
         /\ Place(s) = (s.row * Width + s.col) + 1
         /\ Place(s) \in Cells
         /\ s.row < Height - 1 => Place(s) + (Width - s.col) \in Cells
         /\ s.row = Height - 1 => Place(s) = ((Width * (Height - 1)) + s.col) + 1
<1>1. /\ s.row \in 0 .. Height - 1 /\ s.col \in 0 .. Width - 1
      /\ s.cell \in [Cells -> Inks]
  BY DEF Screens
<1> DEFINE at == s.row * Width
           all == Width * (Height - 1)
           size == Width * Height
<1>2. at \in Nat /\ at <= all /\ all \in Nat /\ size = all + Width /\ size \in Nat
  BY <1>1, Rows
<1>3. Place(s) = (at + s.col) + 1 /\ Cells = 1 .. size
  BY <1>1, <1>2, Rows DEF Place, Cells
<1>4. Width \in Nat /\ Width > 0 /\ s.col \in 0 .. Width - 1
  BY <1>1, Rows
<1> HIDE DEF at, all, size
<1>5. Place(s) \in Cells
  BY <1>2, <1>3, <1>4
<1>6. ASSUME s.row < Height - 1  PROVE Place(s) + (Width - s.col) \in Cells
  <2>1. s.row + 1 \in 0 .. Height - 1
    BY <1>1, <1>6, Rows
  <2>2. (s.row + 1) * Width <= all /\ (s.row + 1) * Width = at + Width
    BY <1>1, <2>1, Rows DEF at, all
  <2>3. QED
    BY <1>2, <1>3, <1>4, <2>2
<1>7. ASSUME s.row = Height - 1  PROVE at = all
  BY <1>7, Rows DEF at, all
<1>8. QED
  BY <1>1, <1>3, <1>5, <1>6, <1>7 DEF at, all

(* A scroll takes every cell up by a row and blanks the last row.          *)
LEMMA ScrolledUp ==
  ASSUME NEW s, s \in [cell : [Cells -> Inks], row : 0 .. Height, col : 0 .. Width - 1],
         s.row = Height
  PROVE  /\ Scrolled(s) = [cell |-> Scrolled(s).cell, row |-> Height - 1, col |-> s.col]
         /\ Scrolled(s).cell \in [Cells -> Inks]
         /\ \A i \in Cells :
              Scrolled(s).cell[i] = IF i <= Width * (Height - 1) THEN s.cell[i + Width]
                                                                ELSE Blank
<1> DEFINE all == Width * (Height - 1)
           size == Width * Height
           up == SubSeq(s.cell, Width + 1, size)
           new == up \o Blanks(Width)
<1>1. /\ Width \in Nat /\ Height \in Nat /\ size \in Nat /\ all \in Nat /\ size = all + Width
      /\ Cells = 1 .. size
  BY Rows DEF Cells
<1>2. Scrolled(s) = [s EXCEPT !.cell = new, !.row = Height - 1]
  BY <1>1 DEF Scrolled
<1> HIDE DEF all, size
<1>3. s.cell \in [1 .. size -> Inks]
  BY <1>1
<1>4. /\ up \in Seq(Inks) /\ Len(up) = all
      /\ \A i \in 1 .. all : up[i] = s.cell[i + Width]
  <2>1. \A i \in Width + 1 .. size : s.cell[i] \in Inks
    BY <1>1, <1>3
  <2>2. /\ up \in Seq(Inks)
        /\ Len(up) = IF Width + 1 <= size THEN size - (Width + 1) + 1 ELSE 0
        /\ \A i \in 1 .. size - (Width + 1) + 1 : up[i] = s.cell[(Width + 1) + i - 1]
    BY <1>1, <2>1, SubSeqProperties
  <2> HIDE DEF up
  <2>3. QED
    BY <1>1, <2>2
<1> DEFINE blank == Blanks(Width)
<1>5. /\ blank \in Seq(Inks) /\ Len(blank) = Width
      /\ \A i \in 1 .. Width : blank[i] = Blank
  BY <1>1 DEF Blanks, Inks
<1> HIDE DEF blank
<1>6. /\ new \in Seq(Inks) /\ Len(new) = size
      /\ \A i \in 1 .. size : new[i] = IF i <= all THEN up[i] ELSE blank[i - all]
  <2>1. new = up \o blank
    BY DEF blank
  <2>2. /\ up \o blank \in Seq(Inks) /\ Len(up \o blank) = Len(up) + Len(blank)
        /\ \A i \in 1 .. Len(up) + Len(blank) :
             (up \o blank)[i] = IF i <= Len(up) THEN up[i] ELSE blank[i - Len(up)]
    BY <1>4, <1>5, ConcatProperties
  <2> HIDE DEF new
  <2>3. QED
    BY <1>1, <1>4, <1>5, <2>1, <2>2
<1> HIDE DEF new
<1>7. new \in [1 .. size -> Inks]
  BY <1>6
<1>8. \A i \in 1 .. size : new[i] = IF i <= all THEN s.cell[i + Width] ELSE Blank
  BY <1>1, <1>4, <1>5, <1>6
<1>9. Scrolled(s).cell = new /\ Scrolled(s).row = Height - 1 /\ Scrolled(s).col = s.col
  BY <1>2
<1>10. Scrolled(s) = [cell |-> new, row |-> Height - 1, col |-> s.col]
  BY <1>2
<1>11. QED
  BY <1>1, <1>7, <1>8, <1>9, <1>10 DEF all

(* A screen whose cursor has just gone to the start of a row.              *)
Fresh == [cell : [Cells -> Inks], row : 1 .. Height, col : {0}]

LEMMA GoesDown ==
  ASSUME NEW s \in Screens
  PROVE  /\ [s EXCEPT !.col = 0, !.row = @ + 1] \in Fresh
         /\ [s EXCEPT !.col = 0, !.row = @ + 1].cell = s.cell
         /\ [s EXCEPT !.col = 0, !.row = @ + 1].row = s.row + 1
<1>1. \A r \in 0 .. Height - 1 : r + 1 \in 1 .. Height
  BY Rows
<1>2. QED
  BY <1>1 DEF Screens, Fresh

(* What is before the place q of a fresh cursor stays whole, scrolled or   *)
(* not, and what is behind it is blank.                                    *)
LEMMA RowBelow ==
  ASSUME NEW t \in Fresh, NEW text \in Texts, NEW q, q = t.row * Width + 1,
         q > Len(text),
         \A i \in 1 .. Len(text) : t.cell[(q - Len(text)) + (i - 1)] = text[i],
         \A i \in Cells : i >= q => t.cell[i] = Blank
  PROVE  Shows(Scrolled(t), text)
<1> DEFINE all == Width * (Height - 1)
           size == Width * Height
           u == Scrolled(t)
           n == Len(text)
<1>1. /\ Width \in Nat /\ Width > 0 /\ Height \in Nat /\ Height > 0
      /\ size \in Nat /\ all \in Nat /\ size = all + Width /\ Cells = 1 .. size
  BY Rows DEF Cells
<1>2. t.row \in 1 .. Height /\ t.cell \in [Cells -> Inks] /\ t.col = 0
  BY DEF Fresh
<1>3. n \in Nat /\ n <= all
  BY DEF Texts
<1>4. CASE t.row # Height
  <2>1. t.row < Height
    BY <1>1, <1>2, <1>4
  <2>2. u = t
    BY <2>1 DEF Scrolled
  <2>3. t \in Screens
    <3>1. t.row \in 0 .. Height - 1 /\ t.col \in 0 .. Width - 1
      BY <1>1, <1>2, <2>1
    <3>2. QED
      BY <3>1 DEF Fresh, Screens
  <2>4. Place(t) = (t.row * Width + t.col) + 1 /\ t.row * Width \in Nat
    BY <2>3, PlaceFacts, Rows
  <2>5. Place(t) = q
    BY <1>2, <2>4
  <2>6. QED
    BY <2>2, <2>3, <2>5 DEF Shows
<1>5. CASE t.row = Height
  <2>1. t \in [cell : [Cells -> Inks], row : 0 .. Height, col : 0 .. Width - 1]
    <3>1. t.row \in 0 .. Height /\ t.col \in 0 .. Width - 1
      BY <1>1, <1>2
    <3>2. QED
      BY <3>1 DEF Fresh
  <2>2. Height * Width = size
    BY <1>1
  <2> HIDE DEF u
  <2>3. /\ u = [cell |-> u.cell, row |-> Height - 1, col |-> t.col]
        /\ u.cell \in [Cells -> Inks]
        /\ \A i \in Cells : u.cell[i] = IF i <= all THEN t.cell[i + Width] ELSE Blank
    BY <1>5, <2>1, ScrolledUp DEF u
  <2>4. u \in Screens /\ u.row = Height - 1 /\ u.col = 0
    BY <1>1, <1>2, <2>3 DEF Screens
  <2>5. Place(u) = all + 1 /\ q = size + 1
    <3>1. Place(u) = (all + 0) + 1
      BY <2>4, PlaceFacts
    <3>2. QED
      BY <3>1, <2>2, <1>1, <1>5
  <2> HIDE DEF all, size, n
  <2>6. ASSUME NEW i \in 1 .. n  PROVE u.cell[(Place(u) - n) + (i - 1)] = text[i]
    <3>1. /\ (Place(u) - n) + (i - 1) \in Cells /\ (Place(u) - n) + (i - 1) <= all
          /\ ((Place(u) - n) + (i - 1)) + Width = (q - n) + (i - 1)
      <4> DEFINE j == ((all + 1) - n) + (i - 1)
      <4>1. j \in Cells /\ j <= all
        BY <1>1, <1>3
      <4>2. j + Width = ((size + 1) - n) + (i - 1)
        BY <1>1, <1>3
      <4>3. QED
        BY <4>1, <4>2, <2>5
    <3>2. t.cell[(q - n) + (i - 1)] = text[i]
      BY DEF n
    <3>3. QED
      BY <3>1, <3>2, <2>3
  <2>7. \A i \in Cells : i >= Place(u) => u.cell[i] = Blank
    BY <1>1, <2>3, <2>5
  <2>8. Place(u) > n
    BY <1>1, <1>3, <2>5
  <2>9. QED
    BY <2>4, <2>6, <2>7, <2>8 DEF Shows, n, u
<1>6. QED
  BY <1>4, <1>5

LEMMA NoText == <<>> \in Texts /\ Len(<<>>) = 0
BY Rows DEF Texts

LEMMA ClearedShows == Shows(Cleared, <<>>)
<1> DEFINE size == Width * Height
<1>1. /\ Width \in Nat /\ Width > 0 /\ Height \in Nat /\ Height > 0
      /\ size \in Nat /\ Cells = 1 .. size
  BY Rows DEF Cells
<1>2. /\ Cleared.cell \in [Cells -> Inks] /\ Cleared.row = 0 /\ Cleared.col = 0
      /\ \A i \in Cells : Cleared.cell[i] = Blank
  BY <1>1 DEF Cleared, Blanks, Inks
<1>3. Cleared \in Screens
  BY <1>1, <1>2 DEF Cleared, Screens
<1>4. Place(Cleared) = 1
  BY <1>1, <1>2 DEF Place
<1>5. QED
  BY <1>2, <1>3, <1>4, NoText DEF Shows

LEMMA NewLineShows ==
  ASSUME NEW s, NEW text \in Seq(Inks), Shows(s, text)
  PROVE  Shows(Putc(s, NewLine), <<>>)
<1> DEFINE t == [s EXCEPT !.col = 0, !.row = @ + 1]
           q == t.row * Width + 1
           at == s.row * Width
<1>1. /\ s \in Screens /\ s.row \in 0 .. Height - 1 /\ s.col \in 0 .. Width - 1
      /\ Place(s) = (at + s.col) + 1 /\ Place(s) \in Cells
      /\ \A i \in Cells : i >= Place(s) => s.cell[i] = Blank
  BY PlaceFacts DEF Shows
<1>2. t \in Fresh /\ t.cell = s.cell /\ t.row = s.row + 1
  BY <1>1, GoesDown
<1> HIDE DEF t
<1>3. /\ Width \in Nat /\ Width > 0 /\ at \in Nat /\ q = (at + Width) + 1
      /\ Cells \subseteq Nat
  <2>1. Width \in Nat /\ Width > 0 /\ Cells \subseteq Nat
    BY Rows DEF Cells
  <2>2. at \in Nat /\ (s.row + 1) * Width = at + Width
    BY <1>1, Rows
  <2> HIDE DEF at
  <2>3. QED
    BY <1>2, <2>1, <2>2
<1> HIDE DEF q, at
<1>4. q > 0 /\ q >= Place(s) /\ q \in Nat /\ Place(s) \in Nat
  BY <1>1, <1>3
<1>5. \A i \in Cells : i >= q => t.cell[i] = Blank
  BY <1>1, <1>2, <1>3, <1>4
<1>6. \A i \in 1 .. Len(<<>>) : t.cell[(q - Len(<<>>)) + (i - 1)] = <<>>[i]
  BY NoText
<1>7. Shows(Scrolled(t), <<>>)
  BY <1>2, <1>4, <1>5, <1>6, NoText, RowBelow DEF q
<1>8. QED
  BY <1>7 DEF Putc, t

(* A character goes behind the text, also at the end of the last row.      *)
LEMMA CharShows ==
  ASSUME NEW s, NEW text \in Texts, Shows(s, text), NEW c \in Inks \ {NewLine},
         Append(text, c) \in Texts
  PROVE  Shows(Putc(s, c), Append(text, c))
<1> DEFINE p == Place(s)
           n == Len(text)
           line == Append(text, c)
           t == [s EXCEPT !.cell[p] = c]
<1>1. /\ s \in Screens /\ s.row \in 0 .. Height - 1 /\ s.col \in 0 .. Width - 1
      /\ s.cell \in [Cells -> Inks]
      /\ p \in Cells /\ p > n
      /\ \A i \in 1 .. n : s.cell[(p - n) + (i - 1)] = text[i]
      /\ \A i \in Cells : i >= p => s.cell[i] = Blank
  BY PlaceFacts DEF Shows
<1>2. Width \in Nat /\ Width > 0 /\ Height \in Nat /\ Height > 0 /\ Cells = 1 .. Width * Height
  BY Rows DEF Cells
<1>3. Width * Height \in Nat
  BY Rows
<1>4. /\ n \in Nat /\ Len(line) = n + 1 /\ line[n + 1] = c
      /\ \A i \in 1 .. n : line[i] = text[i]
  BY DEF Texts
<1>5. Clamped(s) = s
  <2>1. [s EXCEPT !.row = s.row] = s
    BY <1>1 DEF Screens
  <2>2. ~ (s.row >= Height) /\ ~ (s.col >= Width)
    BY <1>1, <1>2
  <2>3. QED
    BY <2>1, <2>2 DEF Clamped
<1>6. Putc(s, c) = Advanced(t)
  BY <1>5 DEF Putc
<1>7. /\ t \in Screens /\ t.row = s.row /\ t.col = s.col
      /\ t.cell = [s.cell EXCEPT ![p] = c]
  <2>1. [s.cell EXCEPT ![p] = c] \in [Cells -> Inks]
    BY <1>1
  <2>2. t = [s EXCEPT !.cell = [s.cell EXCEPT ![p] = c]]
    BY <1>1 DEF Screens
  <2>3. QED
    BY <1>1, <2>1, <2>2 DEF Screens
<1>8. /\ t.cell[p] = c
      /\ \A i \in Cells : i # p => t.cell[i] = s.cell[i]
  BY <1>1, <1>7
<1>9. Place(t) = p
  BY <1>7 DEF Place
<1> HIDE DEF t, p, n, line
<1>10. \A i \in 1 .. n + 1 : t.cell[((p + 1) - (n + 1)) + (i - 1)] = line[i]
  <2> DEFINE size == Width * Height
  <2>1. size \in Nat /\ Cells = 1 .. size
    BY <1>2, <1>3
  <2> HIDE DEF size
  <2>2. ASSUME NEW i \in 1 .. n + 1
        PROVE  t.cell[((p + 1) - (n + 1)) + (i - 1)] = line[i]
    <3>1. CASE i = n + 1
      <4>1. ((p + 1) - (n + 1)) + (i - 1) = p
        BY <1>1, <1>4, <2>1, <3>1
      <4>2. QED
        BY <3>1, <4>1, <1>4, <1>8
    <3>2. CASE i # n + 1
      <4> DEFINE j == (p - n) + (i - 1)
      <4>1. /\ i \in 1 .. n /\ j \in Cells /\ j # p
            /\ ((p + 1) - (n + 1)) + (i - 1) = j
        BY <1>1, <1>4, <2>1, <3>2
      <4> HIDE DEF j
      <4>2. t.cell[j] = text[i]
        BY <4>1, <1>1, <1>8 DEF j
      <4>3. QED
        BY <4>1, <4>2, <1>4
    <3>3. QED
      BY <3>1, <3>2
  <2>3. QED
    BY <2>2
<1>11. \A i \in Cells : i >= p + 1 => t.cell[i] = Blank
  <2> DEFINE size == Width * Height
  <2>1. size \in Nat /\ Cells = 1 .. size
    BY <1>2, <1>3
  <2> HIDE DEF size
  <2>2. p \in Cells
    BY <1>1
  <2>3. ASSUME NEW i \in Cells, i >= p + 1
        PROVE  t.cell[i] = Blank
    <3>1. i >= p /\ i # p
      BY <2>1, <2>2, <2>3
    <3>2. s.cell[i] = Blank
      BY <1>1, <3>1
    <3>3. QED
      BY <1>8, <3>1, <3>2
  <2>4. QED
    BY <2>3
<1>12. p + 1 > n + 1 /\ p \in Nat
  BY <1>1, <1>2, <1>4
<1>13. CASE s.col + 1 < Width
  <2> DEFINE u == [t EXCEPT !.col = @ + 1]
  <2>1. Advanced(t) = u
    BY <1>1, <1>2, <1>7, <1>13 DEF Advanced
  <2>2. u.row = t.row /\ u.col = t.col + 1 /\ u.cell = t.cell
    BY <1>7 DEF Screens
  <2>3. t.col + 1 \in 0 .. Width - 1
    BY <1>1, <1>2, <1>7, <1>13
  <2>4. u \in Screens
    BY <1>7, <2>3 DEF Screens
  <2> HIDE DEF u
  <2>5. Place(u) = p + 1
    <3> DEFINE at == s.row * Width
    <3>1. at \in Nat
      BY <1>1, Rows
    <3>2. Place(s) = (at + s.col) + 1
      BY <1>1, PlaceFacts
    <3>3. Place(u) = (u.row * Width + u.col) + 1
      BY <2>4, PlaceFacts
    <3>4. Place(u) = (at + (s.col + 1)) + 1
      BY <3>3, <2>2, <1>7
    <3> HIDE DEF at
    <3>5. QED
      BY <1>1, <1>2, <3>1, <3>2, <3>4 DEF p
  <2>6. Shows(u, line)
    BY <2>2, <2>4, <2>5, <1>4, <1>10, <1>11, <1>12 DEF Shows
  <2>7. QED
    BY <2>1, <2>6, <1>6 DEF line
<1>14. CASE ~ (s.col + 1 < Width)
  <2> DEFINE u == [t EXCEPT !.col = 0, !.row = @ + 1]
             q == u.row * Width + 1
  <2>1. Advanced(t) = Scrolled(u)
    BY <1>1, <1>2, <1>7, <1>14 DEF Advanced
  <2>2. u \in Fresh /\ u.cell = t.cell /\ u.row = t.row + 1
    BY <1>7, GoesDown
  <2> HIDE DEF u
  <2>3. q = p + 1
    <3> DEFINE at == s.row * Width
    <3>1. at \in Nat /\ (s.row + 1) * Width = at + Width
      BY <1>1, Rows
    <3>2. Place(s) = (at + s.col) + 1
      BY <1>1, PlaceFacts
    <3>3. q = (at + Width) + 1
      BY <2>2, <1>7, <3>1
    <3> HIDE DEF at, q
    <3>4. QED
      BY <1>1, <1>2, <1>14, <3>1, <3>2, <3>3 DEF p
  <2>4. line \in Texts
    BY DEF line
  <2>5. Shows(Scrolled(u), line)
    <3>1. q > Len(line)
      BY <2>3, <1>4, <1>12
    <3>2. \A i \in 1 .. Len(line) : u.cell[(q - Len(line)) + (i - 1)] = line[i]
      BY <2>2, <2>3, <1>4, <1>10
    <3>3. \A i \in Cells : i >= q => u.cell[i] = Blank
      BY <2>2, <2>3, <1>11
    <3> HIDE DEF q
    <3>4. QED
      BY <2>2, <2>4, <3>1, <3>2, <3>3, RowBelow DEF q
  <2>6. QED
    BY <2>1, <2>5, <1>6 DEF line
<1>15. QED
  BY <1>13, <1>14

(* Backspace takes the last character away and blanks its place, also at   *)
(* the start of a row.                                                     *)
LEMMA EraseShows ==
  ASSUME NEW s, NEW text \in Texts, Shows(s, text), Len(text) > 0
  PROVE  Shows(Backspaced(s), Front(text))
<1> DEFINE p == Place(s)
           n == Len(text)
           t == Back(s)
           u == [t EXCEPT !.cell[Place(t)] = Blank]
           size == Width * Height
           at == s.row * Width
<1>1. /\ s \in Screens /\ s.row \in 0 .. Height - 1 /\ s.col \in 0 .. Width - 1
      /\ s.cell \in [Cells -> Inks]
      /\ p \in Cells /\ p > n /\ p = (at + s.col) + 1
      /\ \A i \in 1 .. n : s.cell[(p - n) + (i - 1)] = text[i]
      /\ \A i \in Cells : i >= p => s.cell[i] = Blank
  BY PlaceFacts DEF Shows
<1>2. /\ Width \in Nat /\ Width > 0 /\ Height \in Nat /\ Height > 0
      /\ size \in Nat /\ Cells = 1 .. size
      /\ at \in Nat /\ (s.row - 1) * Width = at - Width
  BY <1>1, Rows DEF Cells
<1>3. /\ n \in Nat /\ n > 0 /\ Len(Front(text)) = n - 1
      /\ \A i \in 1 .. n - 1 : Front(text)[i] = text[i]
  <2>1. text \in Seq(Inks) /\ n \in Nat /\ n > 0
    BY DEF Texts
  <2>2. \A i \in 1 .. n - 1 : text[i] \in Inks
    BY <2>1
  <2>3. /\ Len(SubSeq(text, 1, n - 1)) = IF 1 <= n - 1 THEN (n - 1) - 1 + 1 ELSE 0
        /\ \A i \in 1 .. (n - 1) - 1 + 1 : SubSeq(text, 1, n - 1)[i] = text[1 + i - 1]
    BY <2>1, <2>2, SubSeqProperties
  <2>4. Front(text) = SubSeq(text, 1, n - 1)
    BY DEF Front
  <2> HIDE DEF n
  <2>5. QED
    BY <2>1, <2>3, <2>4
<1>4. s.row = 0 => at = 0
  BY <1>2
<1>5. ~ (s.row = 0 /\ s.col = 0)
  <2> HIDE DEF p, n, at
  <2>1. QED
    BY <1>1, <1>3, <1>4
<1>6. Backspaced(s) = u
  BY <1>5 DEF Backspaced
<1>7. /\ t.cell = s.cell /\ t \in Screens
      /\ t.row = IF s.col # 0 THEN s.row ELSE s.row - 1
      /\ t.col = IF s.col # 0 THEN s.col - 1 ELSE Width - 1
  <2>1. CASE s.col # 0
    <3>0. s.col \in 0 .. Width - 1 /\ Width \in Nat
      BY <1>1, <1>2
    <3>1. s.col - 1 \in 0 .. Width - 1
      BY ONLY <3>0, <2>1
    <3>2. t = [s EXCEPT !.col = @ - 1]
      BY <2>1 DEF Back
    <3>3. QED
      BY <1>1, <2>1, <3>1, <3>2 DEF Screens
  <2>2. CASE s.col = 0
    <3>1. s.row - 1 \in 0 .. Height - 1 /\ Width - 1 \in 0 .. Width - 1
      BY <1>1, <1>2, <1>5, <2>2
    <3>2. t = [s EXCEPT !.row = @ - 1, !.col = Width - 1]
      BY <2>2 DEF Back
    <3>3. QED
      BY <1>1, <2>2, <3>1, <3>2 DEF Screens
  <2>3. QED
    BY <2>1, <2>2
<1> HIDE DEF t
<1>8. Place(t) = p - 1
  <2>1. Place(t) = (t.row * Width + t.col) + 1
    BY <1>7, PlaceFacts
  <2>2. CASE s.col # 0
    <3>1. Place(t) = (at + (s.col - 1)) + 1
      BY <1>7, <2>1, <2>2
    <3> HIDE DEF at, p
    <3>2. QED
      BY <3>1, <1>1, <1>2
  <2>3. CASE s.col = 0
    <3>1. Place(t) = ((at - Width) + (Width - 1)) + 1
      BY <1>2, <1>7, <2>1, <2>3
    <3> HIDE DEF at, p
    <3>2. QED
      BY <3>1, <1>1, <1>2, <2>3
  <2>4. QED
    BY <2>2, <2>3
<1>9. Place(t) \in Cells
  BY <1>7, PlaceFacts
<1>10. /\ u \in Screens /\ u.row = t.row /\ u.col = t.col
       /\ u.cell = [t.cell EXCEPT ![Place(t)] = Blank]
  <2>1. [t.cell EXCEPT ![Place(t)] = Blank] \in [Cells -> Inks]
    BY <1>1, <1>7, <1>9 DEF Inks
  <2>2. u = [t EXCEPT !.cell = [t.cell EXCEPT ![Place(t)] = Blank]]
    BY <1>7 DEF Screens
  <2>3. QED
    BY <1>7, <2>1, <2>2 DEF Screens
<1> HIDE DEF u
<1>11. Place(u) = p - 1
  BY <1>8, <1>10 DEF Place
<1> HIDE DEF p, n, size, at
<1>12. /\ u.cell[p - 1] = Blank
       /\ \A i \in Cells : i # p - 1 => u.cell[i] = s.cell[i]
  BY <1>1, <1>7, <1>8, <1>9, <1>10
<1>13. p \in 1 .. size
  BY <1>1, <1>2
<1>14. ASSUME NEW i \in 1 .. n - 1
       PROVE  u.cell[((p - 1) - (n - 1)) + (i - 1)] = Front(text)[i]
  <2> DEFINE j == (p - n) + (i - 1)
  <2>1. /\ i \in 1 .. n /\ j \in Cells /\ j # p - 1
        /\ ((p - 1) - (n - 1)) + (i - 1) = j
    <3>1. /\ i \in 1 .. n /\ j \in 1 .. size /\ j # p - 1
          /\ ((p - 1) - (n - 1)) + (i - 1) = j
      <4>1. n \in Nat /\ p > n /\ p \in 1 .. size /\ size \in Nat
        BY <1>1, <1>2, <1>3, <1>13
      <4>2. QED
        BY <4>1
    <3>2. QED
      BY <3>1, <1>2
  <2> HIDE DEF j
  <2>2. u.cell[j] = text[i]
    BY <2>1, <1>1, <1>12 DEF j
  <2>3. QED
    BY <2>1, <2>2, <1>3
<1>15. ASSUME NEW i \in Cells, i >= p - 1  PROVE u.cell[i] = Blank
  <2>1. CASE i = p - 1
    BY <2>1, <1>12
  <2>2. CASE i # p - 1
    <3>1. i >= p
      BY <1>2, <1>13, <1>15, <2>2
    <3>2. QED
      BY <3>1, <2>2, <1>1, <1>12
  <2>3. QED
    BY <2>1, <2>2
<1>16. p - 1 > n - 1
  BY <1>1, <1>3, <1>13
<1>17. Shows(u, Front(text))
  BY <1>3, <1>10, <1>11, <1>14, <1>15, <1>16 DEF Shows
<1>18. QED
  BY <1>6, <1>17

(* No character leads out of the set X of screens.                         *)
Closed(X) == \A s \in X, c \in Inks : Putc(s, c) \in X

(* The recursive definition of Written has a solution.                     *)
LEMMA WrittenStep ==
  ASSUME NEW X, NEW text \in Seq(Inks), NEW s \in X, Closed(X)
  PROVE  \E after \in [0 .. Len(text) -> X] :
           /\ after[0] = s
           /\ \A n \in 1 .. Len(text) : after[n] = Putc(after[n - 1], text[n])
           /\ Written(s, text) = after[Len(text)]
<1> DEFINE N == Len(text)
           Y == (0 .. N) \X X
           G == [y \in Y |-> IF y[1] = N THEN y ELSE <<y[1] + 1, Putc(y[2], text[y[1] + 1])>>]
           start == <<0, s>>
<1>1. N \in Nat /\ \A n \in 1 .. N : text[n] \in Inks
  OBVIOUS
<1>2. start \in Y /\ G \in [Y -> Y]
  <2>1. start \in Y
    BY <1>1
  <2>2. ASSUME NEW y \in Y, y[1] # N
        PROVE  <<y[1] + 1, Putc(y[2], text[y[1] + 1])>> \in Y
    <3>1. y[1] \in 0 .. N /\ y[2] \in X
      OBVIOUS
    <3> HIDE DEF N
    <3>2. y[1] + 1 \in 1 .. N /\ y[1] + 1 \in 0 .. N
      BY <3>1, <2>2, <1>1
    <3>3. text[y[1] + 1] \in Inks
      BY <3>2, <1>1
    <3>4. Putc(y[2], text[y[1] + 1]) \in X
      BY <3>1, <3>3 DEF Closed
    <3>5. QED
      BY <3>2, <3>4
  <2>3. QED
    BY <2>1, <2>2
<1>3. PICK f \in [0 .. N -> Y] : f[0] = start /\ \A n \in 1 .. N : f[n] = G[f[n - 1]]
  <2>1. N \in Nat
    BY <1>1
  <2> HIDE DEF N, Y, G, start
  <2>2. Traces(N, Y, start, G) # {}
    BY <2>1, <1>2, HasTrace
  <2>3. QED
    BY <2>2 DEF Traces
<1> DEFINE S == {n \in 0 .. N : f[n][1] = n}
<1>4. 0 .. N \subseteq S
  <2>1. 0 \in S
    BY <1>1, <1>3
  <2>2. ASSUME NEW n \in 0 .. N - 1, n \in S  PROVE n + 1 \in S
    <3>1. n + 1 \in 1 .. N /\ n + 1 \in 0 .. N /\ (n + 1) - 1 = n /\ n # N /\ n \in 0 .. N
      BY <1>1
    <3>2. f[n + 1] = G[f[n]]
      BY <3>1, <1>3
    <3>3. f[n] \in Y /\ f[n][1] = n
      BY <3>1, <2>2
    <3>4. G[f[n]] = <<n + 1, Putc(f[n][2], text[n + 1])>>
      BY <3>1, <3>3
    <3>5. QED
      BY <3>1, <3>2, <3>4
  <2> HIDE DEF S, N
  <2>3. QED
    BY <1>1, <2>1, <2>2, UpTo
<1> DEFINE after == [n \in 0 .. N |-> f[n][2]]
<1>5. after \in [0 .. N -> X]
  <2>1. \A n \in 0 .. N : f[n] \in Y
    BY <1>3
  <2>2. QED
    BY <2>1
<1>6. after[0] = s
  <2>1. 0 \in 0 .. N
    BY <1>1
  <2>2. QED
    BY <2>1, <1>3
<1>7. ASSUME NEW n \in 1 .. N  PROVE after[n] = Putc(after[n - 1], text[n])
  <2>1. n \in 0 .. N /\ n - 1 \in 0 .. N /\ (n - 1) + 1 = n /\ n - 1 # N
    BY <1>1
  <2>2. f[n] = G[f[n - 1]] /\ f[n - 1] \in Y /\ f[n - 1][1] = n - 1
    BY <2>1, <1>3, <1>4
  <2>3. G[f[n - 1]] = <<(n - 1) + 1, Putc(f[n - 1][2], text[(n - 1) + 1])>>
    BY <2>1, <2>2
  <2>4. f[n][2] = Putc(f[n - 1][2], text[n])
    BY <2>1, <2>2, <2>3
  <2> HIDE DEF N, Y, G
  <2>5. QED
    BY <2>1, <2>4
<1>8. Written(s, text) = after[N]
  <2> DEFINE w == CHOOSE g : g = [n \in 0 .. N |-> IF n = 0 THEN s ELSE Putc(g[n - 1], text[n])]
  <2>1. Written(s, text) = w[N]
    BY DEF Written
  <2> HIDE DEF N
  <2>2. \A n \in 0 .. N : n # 0 => n \in 1 .. N
    BY <1>1
  <2>3. after = [n \in 0 .. N |-> after[n]]
    OBVIOUS
  <2> HIDE DEF after
  <2>4. after = [n \in 0 .. N |-> IF n = 0 THEN s ELSE Putc(after[n - 1], text[n])]
    BY <2>2, <2>3, <1>6, <1>7
  <2>5. w = [n \in 0 .. N |-> IF n = 0 THEN s ELSE Putc(w[n - 1], text[n])]
    BY <2>4
  <2> HIDE DEF w
  <2>6. 0 \in 0 .. N /\ \A n \in 1 .. N : n \in 0 .. N /\ n # 0
    BY <1>1
  <2>7. w[0] = s /\ \A n \in 1 .. N : w[n] = Putc(w[n - 1], text[n])
    BY <2>5, <2>6
  <2> DEFINE R == {n \in 0 .. N : w[n] = after[n]}
  <2>8. 0 \in R
    BY <2>6, <2>7, <1>6
  <2>9. ASSUME NEW n \in 0 .. N - 1, n \in R  PROVE n + 1 \in R
    <3>1. n + 1 \in 1 .. N /\ n + 1 \in 0 .. N /\ (n + 1) - 1 = n
      BY <1>1
    <3>2. w[n + 1] = Putc(w[n], text[n + 1]) /\ after[n + 1] = Putc(after[n], text[n + 1])
      BY <3>1, <2>7, <1>7
    <3>3. QED
      BY <3>1, <3>2, <2>9
  <2> HIDE DEF R
  <2>10. 0 .. N \subseteq R
    BY <1>1, <2>8, <2>9, UpTo
  <2>11. w[N] = after[N]
    <3>1. N \in 0 .. N
      BY <1>1
    <3>2. QED
      BY <3>1, <2>10 DEF R
  <2>12. QED
    BY <2>1, <2>11
<1>9. QED
  BY <1>5, <1>6, <1>7, <1>8

LEMMA LineType ==
  ASSUME NEW text \in Texts, NEW n \in 0 .. Len(text)
  PROVE  /\ SubSeq(text, 1, n) \in Texts /\ Len(SubSeq(text, 1, n)) = n
         /\ \A i \in 1 .. n : SubSeq(text, 1, n)[i] = text[i]
<1>1. text \in Seq(Inks \ {NewLine}) /\ Len(text) \in Nat /\ Len(text) <= Width * (Height - 1)
  BY DEF Texts
<1>2. Width * (Height - 1) \in Nat
  BY Rows
<1>3. \A i \in 1 .. n : text[i] \in Inks \ {NewLine}
  BY <1>1
<1>4. /\ SubSeq(text, 1, n) \in Seq(Inks \ {NewLine})
      /\ Len(SubSeq(text, 1, n)) = IF 1 <= n THEN n - 1 + 1 ELSE 0
      /\ \A i \in 1 .. n - 1 + 1 : SubSeq(text, 1, n)[i] = text[1 + i - 1]
  BY <1>3, SubSeqProperties
<1>5. QED
  BY <1>1, <1>2, <1>4 DEF Texts

(* A screen on which something can be written.                             *)
Ready == {s \in Screens : Shows(s, <<>>)}

LEMMA ReadyClosed == Closed(Ready)
<1>1. SUFFICES ASSUME NEW s \in Ready, NEW c \in Inks  PROVE Putc(s, c) \in Ready
  BY DEF Closed
<1>2. Shows(s, <<>>)
  BY DEF Ready
<1>3. ASSUME NEW u, Shows(u, <<>>)  PROVE u \in Ready
  BY <1>3 DEF Ready, Shows
<1>4. CASE c = NewLine
  <2>1. <<>> \in Seq(Inks)
    OBVIOUS
  <2>2. Shows(Putc(s, NewLine), <<>>)
    BY <1>2, <2>1, NewLineShows
  <2>3. QED
    BY <1>3, <1>4, <2>2
<1>5. CASE c # NewLine
  <2> DEFINE line == Append(<<>>, c)
  <2>1. line \in Seq(Inks \ {NewLine}) /\ Len(line) = 1
    BY <1>5
  <2>2. Width * (Height - 1) >= 1
    BY ScreenAssumption
  <2>3. line \in Texts
    BY <2>1, <2>2 DEF Texts
  <2>4. Shows(Putc(s, c), line)
    BY <1>2, <1>5, <2>3, NoText, CharShows
  <2> HIDE DEF line
  <2>5. Putc(s, c) \in Screens /\ Place(Putc(s, c)) > 1
    BY <2>1, <2>4 DEF Shows
  <2>6. Place(Putc(s, c)) > 0
    <3>1. Place(Putc(s, c)) \in Cells
      BY <2>5, PlaceFacts
    <3>2. QED
      BY <3>1, Rows DEF Cells
  <2>7. Shows(Putc(s, c), <<>>)
    BY <2>4, <2>6, NoText DEF Shows
  <2>8. QED
    BY <1>3, <2>7
<1>6. QED
  BY <1>4, <1>5

(* Whatever is written, the cells behind the cursor are blank.             *)
LEMMA WrittenReady ==
  ASSUME NEW s, NEW text \in Seq(Inks), Shows(s, <<>>)
  PROVE  Shows(Written(s, text), <<>>)
<1>1. s \in Ready
  BY DEF Ready, Shows
<1>2. PICK after \in [0 .. Len(text) -> Ready] : Written(s, text) = after[Len(text)]
  BY <1>1, ReadyClosed, WrittenStep
<1>3. Len(text) \in 0 .. Len(text)
  OBVIOUS
<1>4. after[Len(text)] \in Ready
  BY <1>2, <1>3
<1>5. QED
  BY <1>2, <1>4 DEF Ready

(* What is written on a line of its own is shown.                          *)
LEMMA WrittenShows ==
  ASSUME NEW s, NEW text \in Texts, Shows(s, <<>>)
  PROVE  Shows(Written(s, text), text)
<1> DEFINE N == Len(text)
           done(n) == SubSeq(text, 1, n)
<1>1. s \in Ready
  BY DEF Ready, Shows
<1>2. text \in Seq(Inks) /\ N \in Nat /\ \A n \in 1 .. N : text[n] \in Inks \ {NewLine}
  BY DEF Texts
<1>3. PICK after \in [0 .. N -> Ready] :
        /\ after[0] = s
        /\ \A n \in 1 .. N : after[n] = Putc(after[n - 1], text[n])
        /\ Written(s, text) = after[N]
  BY <1>1, <1>2, ReadyClosed, WrittenStep
<1> HIDE DEF N
<1>4. \A n \in 0 .. N : done(n) \in Texts /\ Len(done(n)) = n /\ \A i \in 1 .. n : done(n)[i] = text[i]
  BY LineType DEF N
<1> DEFINE S == {n \in 0 .. N : Shows(after[n], done(n))}
<1>5. 0 \in S
  <2>1. 0 \in 0 .. N
    BY <1>2
  <2>2. done(0) = <<>>
    BY SubSeqEmpty
  <2>3. QED
    BY <2>1, <2>2, <1>3
<1>6. ASSUME NEW n \in 0 .. N - 1, n \in S  PROVE n + 1 \in S
  <2> DEFINE c == text[n + 1]
  <2>1. n \in 0 .. N /\ n + 1 \in 0 .. N /\ n + 1 \in 1 .. N /\ (n + 1) - 1 = n
    BY <1>2
  <2>2. c \in Inks \ {NewLine} /\ after[n + 1] = Putc(after[n], c)
    BY <2>1, <1>2, <1>3
  <2>3. /\ done(n) \in Texts /\ Len(done(n)) = n /\ \A i \in 1 .. n : done(n)[i] = text[i]
        /\ done(n + 1) \in Texts /\ Len(done(n + 1)) = n + 1
        /\ \A i \in 1 .. n + 1 : done(n + 1)[i] = text[i]
    BY <2>1, <1>4
  <2>4. done(n) \in Seq(Inks) /\ done(n + 1) \in Seq(Inks)
    BY <2>3 DEF Texts
  <2> HIDE DEF done, c
  <2>5. /\ Append(done(n), c) \in Seq(Inks) /\ Len(Append(done(n), c)) = n + 1
        /\ \A i \in 1 .. n : Append(done(n), c)[i] = text[i]
        /\ Append(done(n), c)[n + 1] = c
    BY <2>2, <2>3, <2>4, AppendProperties
  <2>6. \A i \in 1 .. n + 1 : Append(done(n), c)[i] = done(n + 1)[i]
    <3>1. \A i \in 1 .. n + 1 : i = n + 1 \/ i \in 1 .. n
      BY <2>1
    <3>2. QED
      BY <3>1, <2>3, <2>5 DEF c
  <2>7. Append(done(n), c) = done(n + 1)
    BY <2>3, <2>4, <2>5, <2>6, SeqEqual
  <2>8. Shows(after[n], done(n))
    BY <1>6
  <2>9. Shows(Putc(after[n], c), Append(done(n), c))
    BY <2>2, <2>3, <2>7, <2>8, CharShows
  <2>10. QED
    BY <2>1, <2>2, <2>7, <2>9
<1>7. 0 .. N \subseteq S
  <2> HIDE DEF S
  <2>1. QED
    BY <1>2, <1>5, <1>6, UpTo
<1>8. N \in 0 .. N
  BY <1>2
<1>9. done(N) = text
  <2> HIDE DEF done
  <2>1. /\ done(N) \in Seq(Inks) /\ text \in Seq(Inks) /\ Len(done(N)) = Len(text)
        /\ \A i \in 1 .. Len(done(N)) : done(N)[i] = text[i]
    BY <1>2, <1>4, <1>8 DEF Texts, N
  <2>2. QED
    BY <2>1, SeqEqual
<1>10. QED
  BY <1>3, <1>7, <1>8, <1>9

-----------------------------------------------------------------------------
(* The line on the screen.                                                 *)

(* The line is short enough, and the screen shows the prompt and the line. *)
LineOK ==
  /\ input \in Seq(Char \ {Backspace, NewLine})
  /\ Len(input) <= LineMax
  /\ Shows(screen, Prompt \o input)

LEMMA PromptType ==
  /\ Prompt \in Seq(Inks \ {NewLine}) /\ Prompt \in Texts
  /\ \A reply \in Replies : reply \in Seq(Inks)
<1>1. Prompt \in Seq(Glyph) /\ \A i \in 1 .. Len(Prompt) : Prompt[i] # NewLine
  BY TextAssumption DEF ToSet
<1>2. Prompt \in Seq(Inks \ {NewLine})
  BY <1>1 DEF Inks
<1>3. Len(Prompt) <= Width * (Height - 1)
  <2> DEFINE all == Width * (Height - 1)
  <2>1. all \in Nat /\ LineMax \in Nat /\ LineMax + Len(Prompt) <= all /\ Len(Prompt) \in Nat
    BY <1>2, Rows, ConsoleAssumption, ScreenHoldsLine
  <2> HIDE DEF all
  <2>2. Len(Prompt) <= all
    BY <2>1
  <2>3. QED
    BY <2>2 DEF all
<1>4. ASSUME NEW reply \in Replies  PROVE reply \in Seq(Inks)
  <2>1. reply \in Seq(Glyph)
    BY TextAssumption
  <2>2. QED
    BY <2>1 DEF Inks
<1>5. QED
  BY <1>2, <1>3, <1>4 DEF Texts

(* The prompt and a line that is not too long.                             *)
LEMMA LineFacts ==
  ASSUME NEW line \in Seq(Char \ {Backspace, NewLine}), Len(line) <= LineMax
  PROVE  /\ Prompt \o line \in Texts
         /\ Prompt \o line \in Seq(Inks)
         /\ Len(Prompt) \in Nat /\ Len(line) \in Nat
         /\ Len(Prompt \o line) = Len(Prompt) + Len(line)
         /\ \A i \in 1 .. Len(Prompt) + Len(line) :
              (Prompt \o line)[i] = IF i <= Len(Prompt) THEN Prompt[i] ELSE line[i - Len(Prompt)]
<1>1. line \in Seq(Inks \ {NewLine}) /\ Prompt \in Seq(Inks \ {NewLine})
  BY PromptType DEF Inks
<1>2. /\ Prompt \o line \in Seq(Inks \ {NewLine})
      /\ Len(Prompt \o line) = Len(Prompt) + Len(line)
      /\ \A i \in 1 .. Len(Prompt) + Len(line) :
           (Prompt \o line)[i] = IF i <= Len(Prompt) THEN Prompt[i] ELSE line[i - Len(Prompt)]
  BY <1>1, ConcatProperties
<1>3. Len(Prompt) + Len(line) <= Width * (Height - 1)
  <2> DEFINE all == Width * (Height - 1)
  <2>1. /\ all \in Nat /\ LineMax \in Nat /\ LineMax + Len(Prompt) <= all
        /\ Len(Prompt) \in Nat /\ Len(line) \in Nat
    BY <1>1, Rows, ConsoleAssumption, ScreenHoldsLine
  <2> HIDE DEF all
  <2>2. Len(Prompt) + Len(line) <= all
    BY <2>1
  <2>3. QED
    BY <2>2 DEF all
<1>4. Prompt \o line \in Texts
  BY <1>2, <1>3 DEF Texts
<1>5. Prompt \o line \in Seq(Inks) /\ Len(Prompt) \in Nat /\ Len(line) \in Nat
  BY <1>1, <1>2
<1>6. QED
  BY <1>2, <1>4, <1>5

LEMMA PromptShows ==
  ASSUME NEW s, Shows(s, <<>>)
  PROVE  Shows(Written(s, Prompt), Prompt \o <<>>)
<1>1. Prompt \o <<>> = Prompt
  BY PromptType, ConcatEmptySeq
<1>2. QED
  BY <1>1, PromptType, WrittenShows

LEMMA NoInput == <<>> \in Seq(Char \ {Backspace, NewLine}) /\ Len(<<>>) <= LineMax
BY ConsoleAssumption

LEMMA EraseStep ==
  ASSUME LineOK, Erase  PROVE LineOK'
<1>1. CASE Len(input) > 0
  <2> DEFINE n == Len(input)
             line == Front(input)
             text == Prompt \o input
  <2>1. input' = line /\ screen' = Backspaced(screen)
    BY <1>1 DEF Erase
  <2>2. input \in Seq(Char \ {Backspace, NewLine}) /\ n \in Nat /\ n > 0 /\ n <= LineMax
    BY <1>1 DEF LineOK
  <2>3. /\ line \in Seq(Char \ {Backspace, NewLine}) /\ Len(line) = n - 1
        /\ \A i \in 1 .. n - 1 : line[i] = input[i]
    <3>1. \A i \in 1 .. n - 1 : input[i] \in Char \ {Backspace, NewLine}
      BY <2>2
    <3>2. /\ SubSeq(input, 1, n - 1) \in Seq(Char \ {Backspace, NewLine})
          /\ Len(SubSeq(input, 1, n - 1)) = IF 1 <= n - 1 THEN (n - 1) - 1 + 1 ELSE 0
          /\ \A i \in 1 .. (n - 1) - 1 + 1 : SubSeq(input, 1, n - 1)[i] = input[1 + i - 1]
      BY <2>2, <3>1, SubSeqProperties
    <3>3. line = SubSeq(input, 1, n - 1)
      BY DEF Front
    <3> HIDE DEF line, n
    <3>4. QED
      BY <2>2, <3>2, <3>3
  <2>4. Len(line) <= LineMax
    BY <2>2, <2>3, ConsoleAssumption
  <2>5. /\ text \in Texts /\ text \in Seq(Inks) /\ Len(Prompt) \in Nat
        /\ Len(text) = Len(Prompt) + n
        /\ \A i \in 1 .. Len(Prompt) + n :
             text[i] = IF i <= Len(Prompt) THEN Prompt[i] ELSE input[i - Len(Prompt)]
    BY <2>2, LineFacts
  <2> HIDE DEF line, text
  <2>6. /\ Prompt \o line \in Seq(Inks)
        /\ Len(Prompt \o line) = Len(Prompt) + (n - 1)
        /\ \A i \in 1 .. Len(Prompt) + (n - 1) :
             (Prompt \o line)[i] = IF i <= Len(Prompt) THEN Prompt[i] ELSE line[i - Len(Prompt)]
    BY <2>3, <2>4, LineFacts
  <2> HIDE DEF n
  <2>7. /\ Front(text) \in Seq(Inks) /\ Len(Front(text)) = Len(Prompt) + (n - 1)
        /\ \A i \in 1 .. Len(Prompt) + (n - 1) : Front(text)[i] = text[i]
    <3> DEFINE m == Len(text)
    <3>1. m \in Nat /\ m > 0 /\ m = Len(Prompt) + n
      BY <2>2, <2>5
    <3>2. \A i \in 1 .. m - 1 : text[i] \in Inks
      BY <2>5
    <3>3. /\ SubSeq(text, 1, m - 1) \in Seq(Inks)
          /\ Len(SubSeq(text, 1, m - 1)) = IF 1 <= m - 1 THEN (m - 1) - 1 + 1 ELSE 0
          /\ \A i \in 1 .. (m - 1) - 1 + 1 : SubSeq(text, 1, m - 1)[i] = text[1 + i - 1]
      BY <3>1, <3>2, SubSeqProperties
    <3>4. Front(text) = SubSeq(text, 1, m - 1)
      BY DEF Front
    <3> HIDE DEF m
    <3>5. QED
      BY <3>1, <3>3, <3>4, <2>2, <2>5
  <2>8. \A i \in 1 .. Len(Prompt) + (n - 1) : Front(text)[i] = (Prompt \o line)[i]
    <3>1. ASSUME NEW i \in 1 .. Len(Prompt) + (n - 1)  PROVE Front(text)[i] = (Prompt \o line)[i]
      <4>1. i \in 1 .. Len(Prompt) + n /\ (i > Len(Prompt) => i - Len(Prompt) \in 1 .. n - 1)
        BY <2>2, <2>5
      <4>2. CASE i <= Len(Prompt)
        BY <4>1, <4>2, <2>5, <2>6, <2>7
      <4>3. CASE ~ (i <= Len(Prompt))
        <5>1. i - Len(Prompt) \in 1 .. n - 1
          BY <4>1, <4>3, <2>5
        <5>2. line[i - Len(Prompt)] = input[i - Len(Prompt)]
          BY <5>1, <2>3
        <5>3. QED
          BY <4>1, <4>3, <5>2, <2>5, <2>6, <2>7
      <4>4. QED
        BY <4>2, <4>3
    <3>2. QED
      BY <3>1
  <2>9. Front(text) = Prompt \o line
    BY <2>6, <2>7, <2>8, SeqEqual
  <2>10. Shows(screen, text) /\ Len(text) > 0
    BY <2>2, <2>5 DEF LineOK, text
  <2>11. Shows(Backspaced(screen), Prompt \o line)
    BY <2>5, <2>9, <2>10, EraseShows
  <2>12. Shows(screen', Prompt \o input')
    BY <2>1, <2>11
  <2>13. QED
    BY <2>1, <2>3, <2>4, <2>12 DEF LineOK, Char
<1>2. CASE ~ (Len(input) > 0)
  <2>1. input' = input /\ screen' = screen
    BY <1>2 DEF Erase
  <2>2. QED
    BY <2>1 DEF LineOK, Char, Shows, Place, Screens, Cells, Inks, Glyph
<1>3. QED
  BY <1>1, <1>2

LEMMA ExecuteStep ==
  ASSUME LineOK, Execute  PROVE LineOK'
<1>1. input' = <<>> /\ \E s \in Shell(screen) : screen' = Written(s, Prompt)
  BY DEF Execute
<1>2. PICK s \in Shell(screen) : screen' = Written(s, Prompt)
  BY <1>1
<1>3. Shows(s, <<>>)
  <2>1. Prompt \o input \in Seq(Inks) /\ Shows(screen, Prompt \o input)
    BY LineFacts DEF LineOK
  <2>2. Shows(Putc(screen, NewLine), <<>>)
    BY <2>1, NewLineShows
  <2>3. ASSUME NEW reply \in Replies  PROVE Shows(Written(Putc(screen, NewLine), reply), <<>>)
    BY <2>2, PromptType, WrittenReady
  <2>4. QED
    BY <2>3, ClearedShows DEF Shell
<1>4. Shows(screen', Prompt \o input')
  BY <1>1, <1>2, <1>3, PromptShows
<1>5. QED
  BY <1>1, <1>4, NoInput DEF LineOK, Char

LEMMA TypeStep ==
  ASSUME LineOK, Type  PROVE LineOK'
<1>1. PICK c \in Char \ {Backspace, NewLine} :
        IF Len(input) < LineMax
          THEN input' = Append(input, c) /\ screen' = Putc(screen, c)
          ELSE UNCHANGED <<input, screen>>
  BY DEF Type
<1>2. CASE Len(input) < LineMax
  <2> DEFINE n == Len(input)
             line == Append(input, c)
             text == Prompt \o input
  <2>1. input' = line /\ screen' = Putc(screen, c)
    BY <1>1, <1>2
  <2>2. input \in Seq(Char \ {Backspace, NewLine}) /\ n \in Nat /\ n <= LineMax
    BY DEF LineOK
  <2>3. /\ line \in Seq(Char \ {Backspace, NewLine}) /\ Len(line) = n + 1
        /\ Len(line) <= LineMax
        /\ \A i \in 1 .. n : line[i] = input[i]
        /\ line[n + 1] = c
    BY <2>2, <1>2, ConsoleAssumption, AppendProperties
  <2>4. /\ text \in Texts /\ text \in Seq(Inks) /\ Len(Prompt) \in Nat
        /\ Len(text) = Len(Prompt) + n
        /\ \A i \in 1 .. Len(Prompt) + n :
             text[i] = IF i <= Len(Prompt) THEN Prompt[i] ELSE input[i - Len(Prompt)]
    BY <2>2, LineFacts
  <2> HIDE DEF line, text
  <2>5. /\ Prompt \o line \in Seq(Inks) /\ Prompt \o line \in Texts
        /\ Len(Prompt \o line) = Len(Prompt) + (n + 1)
        /\ \A i \in 1 .. Len(Prompt) + (n + 1) :
             (Prompt \o line)[i] = IF i <= Len(Prompt) THEN Prompt[i] ELSE line[i - Len(Prompt)]
    BY <2>3, LineFacts
  <2>6. c \in Inks \ {NewLine}
    BY DEF Inks
  <2> HIDE DEF n
  <2>7. /\ Append(text, c) \in Seq(Inks) /\ Len(Append(text, c)) = Len(Prompt) + (n + 1)
        /\ \A i \in 1 .. Len(Prompt) + n : Append(text, c)[i] = text[i]
        /\ Append(text, c)[Len(Prompt) + (n + 1)] = c
    <3>1. (Len(Prompt) + n) + 1 = Len(Prompt) + (n + 1)
      BY <2>2, <2>4
    <3>2. /\ Append(text, c) \in Seq(Inks) /\ Len(Append(text, c)) = Len(text) + 1
          /\ \A i \in 1 .. Len(text) : Append(text, c)[i] = text[i]
          /\ Append(text, c)[Len(text) + 1] = c
      BY <2>4, <2>6, AppendProperties
    <3>3. QED
      BY <3>1, <3>2, <2>4
  <2>8. \A i \in 1 .. Len(Prompt) + (n + 1) : Append(text, c)[i] = (Prompt \o line)[i]
    <3>1. ASSUME NEW i \in 1 .. Len(Prompt) + (n + 1)
          PROVE  Append(text, c)[i] = (Prompt \o line)[i]
      <4>1. CASE i = Len(Prompt) + (n + 1)
        <5>1. i - Len(Prompt) = n + 1 /\ ~ (i <= Len(Prompt))
          BY <2>2, <2>4, <4>1
        <5>2. QED
          BY <5>1, <4>1, <2>3, <2>5, <2>7
      <4>2. CASE i <= Len(Prompt)
        <5>1. i \in 1 .. Len(Prompt) + n
          BY <2>2, <2>4, <4>2
        <5>2. QED
          BY <5>1, <4>2, <2>4, <2>5, <2>7
      <4>3. CASE i # Len(Prompt) + (n + 1) /\ ~ (i <= Len(Prompt))
        <5>1. i \in 1 .. Len(Prompt) + n /\ i - Len(Prompt) \in 1 .. n
          BY <2>2, <2>4, <4>3
        <5>2. line[i - Len(Prompt)] = input[i - Len(Prompt)]
          BY <5>1, <2>3
        <5>3. QED
          BY <5>1, <5>2, <4>3, <2>4, <2>5, <2>7
      <4>4. QED
        BY <4>1, <4>2, <4>3
    <3>2. QED
      BY <3>1
  <2>9. Append(text, c) = Prompt \o line
    BY <2>5, <2>7, <2>8, SeqEqual
  <2>10. Shows(screen, text)
    BY DEF LineOK, text
  <2>11. Shows(Putc(screen, c), Prompt \o line)
    BY <2>4, <2>5, <2>6, <2>9, <2>10, CharShows
  <2>12. Shows(screen', Prompt \o input')
    BY <2>1, <2>11
  <2>13. QED
    BY <2>1, <2>3, <2>12 DEF LineOK, Char
<1>3. CASE ~ (Len(input) < LineMax)
  <2>1. input' = input /\ screen' = screen
    BY <1>1, <1>3
  <2>2. QED
    BY <2>1 DEF LineOK, Char, Shows, Place, Screens, Cells, Inks, Glyph
<1>4. QED
  BY <1>2, <1>3

LEMMA InitLine == ASSUME Init PROVE LineOK
<1>1. input = <<>> /\ screen = Written(Cleared, Prompt)
  BY DEF Init
<1>2. Shows(screen, Prompt \o input)
  BY <1>1, ClearedShows, PromptShows
<1>3. QED
  BY <1>1, <1>2, NoInput DEF LineOK

LEMMA NextLine == ASSUME LineOK, [Next]_vars PROVE LineOK'
<1>1. ASSUME UNCHANGED <<input, screen>>  PROVE LineOK'
  BY <1>1 DEF LineOK, Char, Shows, Place, Screens, Cells, Inks, Glyph
<1>2. CASE ReadKey
  BY <1>2, EraseStep, ExecuteStep, TypeStep DEF ReadKey
<1>3. ASSUME NEW pressed \in BOOLEAN, PressShift(pressed)  PROVE LineOK'
  BY <1>1, <1>3 DEF PressShift
<1>4. ASSUME NEW k \in Key, Press(k)  PROVE LineOK'
  BY <1>1, <1>4 DEF Press
<1>5. CASE UNCHANGED vars
  BY <1>1, <1>5 DEF vars
<1>6. QED
  BY <1>2, <1>3, <1>4, <1>5 DEF Next

LEMMA LineShown == ASSUME LineOK PROVE ScreenShowsLine
<1> DEFINE n == Len(Prompt) + Len(input)
           text == Prompt \o input
           p == Place(screen)
<1>1. /\ text \in Seq(Inks) /\ Len(text) = n /\ n \in Nat
  BY LineFacts DEF LineOK
<1>2. /\ screen \in Screens /\ p > n /\ p \in Cells /\ screen.cell \in [Cells -> Inks]
      /\ \A i \in 1 .. n : screen.cell[(p - n) + (i - 1)] = text[i]
      /\ \A i \in Cells : i >= p => screen.cell[i] = Blank
  BY <1>1, PlaceFacts DEF LineOK, Shows
<1>3. /\ \A i \in Cells : i \in Nat
      /\ \A i \in 1 .. p : i \in Cells
  BY <1>2, Rows DEF Cells
<1> HIDE DEF n, text, p
<1>4. \A i \in p - n .. p - 1 : screen.cell[i] \in Inks
  <2>1. \A i \in p - n .. p - 1 : i \in 1 .. p
    BY <1>1, <1>2, <1>3
  <2>2. QED
    BY <2>1, <1>2, <1>3
<1>5. /\ BeforeCursor(n) \in Seq(Inks) /\ Len(BeforeCursor(n)) = n
      /\ \A i \in 1 .. n : BeforeCursor(n)[i] = screen.cell[(p - n) + (i - 1)]
  <2>1. p \in Nat /\ p - n \in Int /\ p - 1 \in Int
    BY <1>1, <1>2, <1>3
  <2> DEFINE cell == screen.cell
             b == SubSeq(cell, p - n, p - 1)
  <2>2. \A i \in p - n .. p - 1 : cell[i] \in Inks
    BY <1>4
  <2> HIDE DEF cell
  <2>3. /\ b \in Seq(Inks)
        /\ Len(b) = IF p - n <= p - 1 THEN (p - 1) - (p - n) + 1 ELSE 0
        /\ \A i \in 1 .. (p - 1) - (p - n) + 1 : b[i] = cell[(p - n) + i - 1]
    BY <2>1, <2>2, SubSeqProperties
  <2> HIDE DEF b
  <2>4. /\ b \in Seq(Inks) /\ Len(b) = n
        /\ \A i \in 1 .. n : b[i] = cell[(p - n) + (i - 1)]
    BY <2>1, <2>3, <1>1
  <2>5. BeforeCursor(n) = b
    BY DEF BeforeCursor, b, cell, p
  <2>6. QED
    BY <2>4, <2>5 DEF cell
<1>6. BeforeCursor(n) = text
  <2>1. \A i \in 1 .. n : BeforeCursor(n)[i] = text[i]
    BY <1>2, <1>5
  <2>2. QED
    BY <2>1, <1>1, <1>5, SeqEqual
<1>7. QED
  BY <1>2, <1>6 DEF ScreenShowsLine, n, text, p

(* The prompt and the typed characters end at the cursor and nothing is    *)
(* left over behind it: the user sees the line that the next newline       *)
(* executes, across the ends of rows, scrolls, backspaces and whatever the *)
(* commands before it wrote.                                               *)
THEOREM LineIsShown == Spec => []ScreenShowsLine
<1>1. Init => LineOK
  BY InitLine
<1>2. LineOK /\ [Next]_vars => LineOK'
  BY NextLine
<1>3. LineOK => ScreenShowsLine
  BY LineShown
<1>4. QED
  BY <1>1, <1>2, <1>3, PTL DEF Spec

-----------------------------------------------------------------------------
(* The line that echo takes apart.                                         *)

LEMMA UptoFacts ==
  ASSUME NEW S, NEW s \in Seq(S), NEW n \in Nat
  PROVE  /\ Upto(s, n) \in Seq(S)
         /\ Len(Upto(s, n)) = IF n < Len(s) THEN n ELSE Len(s)
         /\ \A i \in 1 .. Len(Upto(s, n)) : Upto(s, n)[i] = s[i]
<1> DEFINE k == IF n < Len(s) THEN n ELSE Len(s)
<1>1. k \in Nat /\ k <= Len(s) /\ Len(s) \in Nat
  OBVIOUS
<1>2. \A i \in 1 .. k : s[i] \in S
  BY <1>1
<1> HIDE DEF k
<1>3. /\ SubSeq(s, 1, k) \in Seq(S)
      /\ Len(SubSeq(s, 1, k)) = IF 1 <= k THEN k - 1 + 1 ELSE 0
      /\ \A i \in 1 .. k - 1 + 1 : SubSeq(s, 1, k)[i] = s[1 + i - 1]
  BY <1>1, <1>2, SubSeqProperties
<1>4. Upto(s, n) = SubSeq(s, 1, k)
  BY DEF Upto, k
<1>5. QED
  BY <1>1, <1>3, <1>4 DEF k

LEMMA FromFacts ==
  ASSUME NEW S, NEW s \in Seq(S), NEW n \in Nat, n <= Len(s)
  PROVE  /\ From(s, n) \in Seq(S)
         /\ Len(From(s, n)) = Len(s) - n
         /\ \A i \in 1 .. Len(s) - n : From(s, n)[i] = s[n + i]
<1>1. \A i \in n + 1 .. Len(s) : s[i] \in S
  OBVIOUS
<1>2. /\ SubSeq(s, n + 1, Len(s)) \in Seq(S)
      /\ Len(SubSeq(s, n + 1, Len(s))) = IF n + 1 <= Len(s) THEN Len(s) - (n + 1) + 1 ELSE 0
      /\ \A i \in 1 .. Len(s) - (n + 1) + 1 : SubSeq(s, n + 1, Len(s))[i] = s[(n + 1) + i - 1]
  BY <1>1, SubSeqProperties
<1>3. QED
  BY <1>2 DEF From

(* Where a loop ends that looks for a place in stops.                      *)
Passed(N, stops) ==
  IF stops = {} THEN N ELSE (CHOOSE i \in stops : \A j \in stops : i <= j) - 1

LEMMA PassedFacts ==
  ASSUME NEW N \in Nat, NEW stops \in SUBSET (1 .. N)
  PROVE  /\ Passed(N, stops) \in 0 .. N
         /\ \A i \in 1 .. Passed(N, stops) : i \in 1 .. N /\ i \notin stops
         /\ Passed(N, stops) < N => Passed(N, stops) + 1 \in stops
<1>1. CASE stops = {}
  <2>1. Passed(N, stops) = N
    BY <1>1 DEF Passed
  <2>2. QED
    BY <1>1, <2>1
<1>2. CASE stops # {}
  <2> DEFINE c == CHOOSE i \in stops : \A j \in stops : i <= j
  <2>1. \E i \in stops : \A j \in stops : i <= j
    BY <1>2, Least
  <2>2. c \in stops /\ \A j \in stops : c <= j
    BY <2>1
  <2>3. Passed(N, stops) = c - 1
    BY <1>2 DEF Passed
  <2> HIDE DEF c
  <2>4. c \in 1 .. N
    BY <2>2
  <2>5. Passed(N, stops) \in 0 .. N /\ Passed(N, stops) + 1 = c
    BY <2>3, <2>4
  <2>6. ASSUME NEW i \in 1 .. c - 1  PROVE i \in 1 .. N /\ i \notin stops
    <3>1. i \in Nat /\ i < c /\ i \in 1 .. N
      BY <2>4
    <3>2. i \in stops => c <= i
      BY <2>2
    <3>3. QED
      BY <3>1, <3>2, <2>4
  <2>7. QED
    BY <2>2, <2>3, <2>5, <2>6
<1>3. QED
  BY <1>1, <1>2

LEMMA BeforeMark ==
  ASSUME NEW S, NEW s \in Seq(S)
  PROVE  \E b \in 0 .. Len(s) :
           /\ Before(s, LAMBDA c : c = Redirect) = b
           /\ \A i \in 1 .. b : s[i] # Redirect
           /\ b < Len(s) => s[b + 1] = Redirect
<1> DEFINE N == Len(s)
           stops == {i \in 1 .. N : s[i] = Redirect}
           b == Passed(N, stops)
<1>1. Before(s, LAMBDA c : c = Redirect) = b
  <2>1. DOMAIN s = 1 .. N
    OBVIOUS
  <2>2. QED
    BY <2>1 DEF Before, Passed
<1>2. stops \in SUBSET (1 .. N) /\ N \in Nat
  OBVIOUS
<1>3. \A i \in 1 .. N : i \in stops <=> s[i] = Redirect
  OBVIOUS
<1> HIDE DEF stops, N
<1>4. /\ b \in 0 .. N
      /\ \A i \in 1 .. b : i \in 1 .. N /\ i \notin stops
      /\ b < N => b + 1 \in stops
  BY <1>2, PassedFacts
<1> HIDE DEF b
<1>5. \A i \in 1 .. b : s[i] # Redirect
  BY <1>3, <1>4
<1>6. b < N => s[b + 1] = Redirect
  BY <1>2, <1>3, <1>4
<1>7. QED
  BY <1>1, <1>4, <1>5, <1>6 DEF N

LEMMA WordType ==
  ASSUME NEW S, NEW s \in Seq(S)
  PROVE  WordOf(s) \in Seq(S) /\ Len(WordOf(s)) <= Len(s)
<1> DEFINE N == Len(s)
           stops == {i \in 1 .. N : s[i] = Space}
           b == Passed(N, stops)
<1>1. WordOf(s) = Upto(s, b)
  <2>1. DOMAIN s = 1 .. N
    OBVIOUS
  <2>2. QED
    BY <2>1 DEF WordOf, Before, Passed
<1>2. stops \in SUBSET (1 .. N) /\ N \in Nat
  OBVIOUS
<1> HIDE DEF stops
<1>3. b \in 0 .. N
  BY <1>2, PassedFacts
<1> HIDE DEF b
<1>4. /\ Upto(s, b) \in Seq(S)
      /\ Len(Upto(s, b)) = IF b < Len(s) THEN b ELSE Len(s)
  BY <1>2, <1>3, UptoFacts
<1>5. QED
  BY <1>1, <1>2, <1>3, <1>4

LEMMA TrimmedFacts ==
  ASSUME NEW S, NEW s \in Seq(S)
  PROVE  \E b \in 0 .. Len(s) :
           /\ Trimmed(s) = From(s, b)
           /\ \A i \in 1 .. b : s[i] = Space
           /\ b < Len(s) => s[b + 1] # Space
<1> DEFINE N == Len(s)
           stops == {i \in 1 .. N : s[i] # Space}
           b == Passed(N, stops)
<1>1. Trimmed(s) = From(s, b)
  <2>1. DOMAIN s = 1 .. N
    OBVIOUS
  <2>2. QED
    BY <2>1 DEF Trimmed, Before, Passed
<1>2. stops \in SUBSET (1 .. N) /\ N \in Nat
  OBVIOUS
<1>3. \A i \in 1 .. N : i \in stops <=> s[i] # Space
  OBVIOUS
<1> HIDE DEF stops, N
<1>4. /\ b \in 0 .. N
      /\ \A i \in 1 .. b : i \in 1 .. N /\ i \notin stops
      /\ b < N => b + 1 \in stops
  BY <1>2, PassedFacts
<1> HIDE DEF b
<1>5. \A i \in 1 .. b : s[i] = Space
  BY <1>3, <1>4
<1>6. b < N => s[b + 1] # Space
  BY <1>2, <1>3, <1>4
<1>7. QED
  BY <1>1, <1>4, <1>5, <1>6 DEF N

LEMMA TrimmedType ==
  ASSUME NEW S, NEW s \in Seq(S)
  PROVE  /\ Trimmed(s) \in Seq(S)
         /\ Trimmed(s) = <<>> \/ Trimmed(s)[1] # Space
<1>1. PICK b \in 0 .. Len(s) :
        /\ Trimmed(s) = From(s, b)
        /\ \A i \in 1 .. b : s[i] = Space
        /\ b < Len(s) => s[b + 1] # Space
  BY TrimmedFacts
<1>2. b \in Nat /\ b <= Len(s) /\ Len(s) \in Nat
  OBVIOUS
<1>3. /\ From(s, b) \in Seq(S) /\ Len(From(s, b)) = Len(s) - b
      /\ \A i \in 1 .. Len(s) - b : From(s, b)[i] = s[b + i]
  BY <1>2, FromFacts
<1>4. CASE b = Len(s)
  <2>1. From(s, b) = <<>>
    BY <1>2, <1>3, <1>4, EmptySeq
  <2>2. QED
    BY <2>1, <1>1, <1>3
<1>5. CASE b # Len(s)
  <2>1. 1 \in 1 .. Len(s) - b /\ b < Len(s)
    BY <1>2, <1>5
  <2>2. QED
    BY <2>1, <1>1, <1>3
<1>6. QED
  BY <1>4, <1>5

(* The arguments of a line are a sequence of characters of the line.       *)
LEMMA ArgsType ==
  ASSUME NEW line \in Lines
  PROVE  split_command(line).args \in Seq(DOMAIN Upper)
<1> DEFINE S == DOMAIN Upper
           t == Trimmed(line)
           command == Upto(WordOf(t), CommandSize)
<1>1. line \in Seq(S)
  BY CommandLineAssumption DEF Lines
<1>2. t \in Seq(S)
  BY <1>1, TrimmedType
<1>3. split_command(line).args = Upto(Trimmed(From(t, Len(command))), ArgsSize)
  BY DEF split_command
<1> HIDE DEF S, t
<1>4. Len(command) \in Nat /\ Len(command) <= Len(t)
  <2> DEFINE word == WordOf(t)
  <2>1. word \in Seq(S) /\ Len(word) <= Len(t) /\ Len(t) \in Nat
    BY <1>2, WordType
  <2>2. CommandSize \in Nat
    BY CommandLineAssumption
  <2> HIDE DEF word
  <2>3. /\ Upto(word, CommandSize) \in Seq(S)
        /\ Len(Upto(word, CommandSize)) = IF CommandSize < Len(word) THEN CommandSize ELSE Len(word)
    BY <2>1, <2>2, UptoFacts
  <2>4. command = Upto(word, CommandSize) /\ Len(word) \in Nat
    BY <2>1 DEF word
  <2> HIDE DEF command
  <2>5. QED
    BY <2>1, <2>2, <2>3, <2>4
<1> HIDE DEF command
<1>5. From(t, Len(command)) \in Seq(S)
  BY <1>2, <1>4, FromFacts
<1>6. Trimmed(From(t, Len(command))) \in Seq(S)
  BY <1>5, TrimmedType
<1>7. ArgsSize \in Nat
  BY CommandLineAssumption
<1>8. QED
  BY <1>3, <1>6, <1>7, UptoFacts DEF S

(* The end of the text before a mark behind b characters: there are only   *)
(* blanks between them, and the text does not end with one.                *)
TextEnd(s, b) ==
  LET blanks == {k \in 0 .. b : \A i \in k + 1 .. b : s[i] = Space}
  IN  CHOOSE k \in blanks : \A j \in blanks : k <= j

LEMMA TextFacts ==
  ASSUME NEW S, NEW s \in Seq(S), NEW b \in 0 .. Len(s)
  PROVE  /\ TextEnd(s, b) \in 0 .. b
         /\ \A i \in TextEnd(s, b) + 1 .. b : s[i] = Space
         /\ TextEnd(s, b) > 0 => s[TextEnd(s, b)] # Space
<1> DEFINE blanks == {k \in 0 .. b : \A i \in k + 1 .. b : s[i] = Space}
           n == TextEnd(s, b)
<1>1. b \in Nat /\ b \in blanks /\ blanks \in SUBSET Nat
  OBVIOUS
<1>2. \E k \in blanks : \A j \in blanks : k <= j
  BY <1>1, Least
<1>3. n \in blanks /\ \A j \in blanks : n <= j
  BY <1>2 DEF TextEnd
<1> HIDE DEF n
<1>4. n \in 0 .. b /\ \A i \in n + 1 .. b : s[i] = Space
  BY <1>3
<1>5. ASSUME n > 0, s[n] = Space  PROVE FALSE
  <2>1. n - 1 \in 0 .. b /\ n \in Nat
    BY <1>1, <1>4, <1>5
  <2>2. ASSUME NEW i \in (n - 1) + 1 .. b  PROVE s[i] = Space
    <3>1. i = n \/ i \in n + 1 .. b
      BY <1>1, <2>1
    <3>2. QED
      BY <3>1, <1>4, <1>5
  <2>3. n - 1 \in blanks
    BY <2>1, <2>2
  <2>4. n <= n - 1
    BY <1>3, <2>3
  <2>5. QED
    BY <2>1, <2>4
<1>6. QED
  BY <1>4, <1>5 DEF n

(* The text p is in s, behind the first a characters.                      *)
Agrees(p, s, a) == Len(p) + a <= Len(s) /\ \A i \in 1 .. Len(p) : p[i] = s[a + i]

LEMMA JoinedAgrees ==
  ASSUME NEW S, NEW s \in Seq(S), NEW p \in Seq(S), NEW q \in Seq(S),
         Agrees(p, s, 0), Agrees(q, s, Len(p))
  PROVE  /\ p \o q \in Seq(S) /\ Len(p \o q) = Len(p) + Len(q)
         /\ Agrees(p \o q, s, 0)
<1> DEFINE m == Len(p)
           n == Len(q)
           r == p \o q
<1>1. /\ r \in Seq(S) /\ Len(r) = m + n
      /\ \A i \in 1 .. m + n : r[i] = IF i <= m THEN p[i] ELSE q[i - m]
  BY ConcatProperties
<1>2. m \in Nat /\ n \in Nat /\ Len(s) \in Nat
  OBVIOUS
<1>3. /\ m <= Len(s) /\ \A i \in 1 .. m : p[i] = s[0 + i]
      /\ n + m <= Len(s) /\ \A i \in 1 .. n : q[i] = s[m + i]
  <2>1. Len(p) + 0 <= Len(s) /\ \A i \in 1 .. Len(p) : p[i] = s[0 + i]
    BY DEF Agrees
  <2>2. Len(q) + Len(p) <= Len(s) /\ \A i \in 1 .. Len(q) : q[i] = s[Len(p) + i]
    BY DEF Agrees
  <2>3. m + 0 = m
    BY <1>2
  <2>4. QED
    BY <2>1, <2>2, <2>3
<1> HIDE DEF m, n, r
<1>4. ASSUME NEW i \in 1 .. m + n  PROVE r[i] = s[0 + i]
  <2>1. CASE i <= m
    <3>1. i \in 1 .. m
      BY <1>2, <2>1
    <3>2. QED
      BY <3>1, <2>1, <1>1, <1>3
  <2>2. CASE ~ (i <= m)
    <3>1. i - m \in 1 .. n /\ m + (i - m) = 0 + i
      BY <1>2, <2>2
    <3>2. q[i - m] = s[m + (i - m)]
      BY <3>1, <1>3
    <3>3. QED
      BY <3>1, <3>2, <2>2, <1>1
  <2>3. QED
    BY <2>1, <2>2
<1>5. (m + n) + 0 <= Len(s)
  BY <1>2, <1>3
<1>6. Agrees(r, s, 0)
  BY <1>1, <1>4, <1>5 DEF Agrees
<1>7. QED
  BY <1>1, <1>6 DEF m, n, r

LEMMA AgreesPrefix ==
  ASSUME NEW S, NEW s \in Seq(S), NEW p \in Seq(S), Agrees(p, s, 0)
  PROVE  IsPrefix(p, s)
<1> DEFINE n == Len(p)
<1>1. n \in Nat /\ n <= Len(s) /\ Len(s) \in Nat
  BY DEF Agrees
<1>2. \A i \in 1 .. n : p[i] = s[i] /\ p[i] \in S /\ s[i] \in S
  <2>1. \A i \in 1 .. n : p[i] = s[0 + i]
    BY DEF Agrees
  <2>2. QED
    BY <1>1, <2>1
<1> HIDE DEF n
<1>3. \A i \in 1 .. n : p[i] \in S
  BY <1>2
<1>4. /\ SubSeq(p, 1, n) \in Seq(S)
      /\ Len(SubSeq(p, 1, n)) = IF 1 <= n THEN n - 1 + 1 ELSE 0
      /\ \A i \in 1 .. n - 1 + 1 : SubSeq(p, 1, n)[i] = p[1 + i - 1]
  BY <1>1, <1>3, SubSeqProperties
<1>5. \A i \in 1 .. n : s[i] \in S
  BY <1>2
<1>6. /\ SubSeq(s, 1, n) \in Seq(S)
      /\ Len(SubSeq(s, 1, n)) = IF 1 <= n THEN n - 1 + 1 ELSE 0
      /\ \A i \in 1 .. n - 1 + 1 : SubSeq(s, 1, n)[i] = s[1 + i - 1]
  BY <1>1, <1>5, SubSeqProperties
<1>7. \A i \in 1 .. n : SubSeq(p, 1, n)[i] = SubSeq(s, 1, n)[i]
  BY <1>1, <1>2, <1>4, <1>6
<1>8. SubSeq(p, 1, n) = SubSeq(s, 1, n)
  <2>1. Len(SubSeq(p, 1, n)) = n /\ Len(SubSeq(s, 1, n)) = n
    BY <1>1, <1>4, <1>6
  <2>2. QED
    BY <2>1, <1>4, <1>6, <1>7, SeqEqual
<1>9. QED
  BY <1>1, <1>8 DEF IsPrefix, n

LEMMA SpacesAgree ==
  ASSUME NEW S, Space \in S, NEW s \in Seq(S), NEW a \in Nat, NEW n \in Nat, a + n <= Len(s),
         \A i \in a + 1 .. a + n : s[i] = Space
  PROVE  /\ Spaces(n) \in Seq(S) /\ Len(Spaces(n)) = n
         /\ Agrees(Spaces(n), s, a)
<1>1. /\ Spaces(n) \in Seq(S) /\ Len(Spaces(n)) = n
      /\ \A i \in 1 .. n : Spaces(n)[i] = Space
  BY DEF Spaces
<1>2. \A i \in 1 .. n : a + i \in a + 1 .. a + n
  OBVIOUS
<1>3. n + a <= Len(s)
  OBVIOUS
<1>4. QED
  BY <1>1, <1>2, <1>3 DEF Agrees

(* Text, blanks, mark, blanks and name make up the arguments.              *)
LEMMA EchoedSplits ==
  ASSUME NEW S, {Space, Redirect} \subseteq S, NEW args \in Seq(S), Contains(args, Redirect),
         NEW echo, echo = Echoed(args),
         NEW mark, mark = IF echo.append THEN <<Redirect, Redirect>> ELSE <<Redirect>>
  PROVE  /\ \A i \in DOMAIN echo.text : echo.text[i] # Redirect
         /\ \E m, n \in 0 .. Len(args) :
              IsPrefix(echo.text \o Spaces(m) \o mark \o Spaces(n) \o echo.name, args)
         /\ echo.name = <<>> \/ echo.name[1] # Space
         /\ echo.text = <<>> \/ Last(echo.text) # Space
<1> DEFINE N == Len(args)
<1>1. PICK b \in 0 .. N :
        /\ Before(args, LAMBDA c : c = Redirect) = b
        /\ \A i \in 1 .. b : args[i] # Redirect
        /\ b < N => args[b + 1] = Redirect
  BY BeforeMark
<1>2. N \in Nat /\ b \in Nat /\ b < N /\ args[b + 1] = Redirect
  <2>1. PICK i \in 1 .. N : args[i] = Redirect
    BY DEF Contains
  <2>2. N \in Nat /\ b \in Nat
    OBVIOUS
  <2> HIDE DEF N
  <2>3. ~ (i \in 1 .. b)
    BY <1>1, <2>1
  <2>4. b < N
    BY <2>2, <2>3
  <2>5. QED
    BY <2>2, <2>4, <1>1
<1> DEFINE n0 == TextEnd(args, b)
           append == b + 2 <= N /\ args[b + 2] = Redirect
           w == IF append THEN 2 ELSE 1
           k0 == b + w
           rest == From(args, k0)
<1>3. /\ echo.text = Upto(args, n0)
      /\ echo.append = append
      /\ echo.name = Upto(Trimmed(rest), EchoNameSize)
  BY <1>1 DEF Echoed, TextEnd
<1>4. n0 \in 0 .. b /\ (\A i \in n0 + 1 .. b : args[i] = Space) /\ (n0 > 0 => args[n0] # Space)
  BY TextFacts
<1> HIDE DEF n0, rest
<1>5. /\ k0 \in Nat /\ b < k0 /\ k0 <= N
      /\ mark \in Seq(S) /\ b + Len(mark) = k0 /\ Agrees(mark, args, b)
  <2>1. /\ Redirect \in S /\ N \in Nat /\ b \in Nat /\ b < N
        /\ args[b + 1] = Redirect
    BY <1>2
  <2>2. CASE append
    <3>1. mark = <<Redirect, Redirect>> /\ w = 2 /\ b + 2 <= N /\ args[b + 2] = Redirect
      BY <1>3, <2>2
    <3> HIDE DEF append, w
    <3>2. mark \in Seq(S) /\ Len(mark) = 2 /\ mark[1] = Redirect /\ mark[2] = Redirect
      BY <2>1, <3>1
    <3>3. \A i \in 1 .. 2 : mark[i] = args[b + i]
      <4>1. \A i \in 1 .. 2 : i = 1 \/ i = 2
        OBVIOUS
      <4>2. QED
        BY <4>1, <2>1, <3>1, <3>2
    <3>4. Agrees(mark, args, b)
      BY <2>1, <3>1, <3>2, <3>3 DEF Agrees
    <3>5. k0 = b + 2
      BY <3>1
    <3> HIDE DEF k0
    <3>6. QED
      BY <2>1, <3>1, <3>2, <3>4, <3>5
  <2>3. CASE ~ append
    <3>1. mark = <<Redirect>> /\ w = 1
      BY <1>3, <2>3
    <3> HIDE DEF append, w
    <3>2. mark \in Seq(S) /\ Len(mark) = 1 /\ mark[1] = Redirect
      BY <2>1, <3>1
    <3>3. \A i \in 1 .. 1 : mark[i] = args[b + i]
      <4>1. \A i \in 1 .. 1 : i = 1
        OBVIOUS
      <4>2. QED
        BY <4>1, <2>1, <3>2
    <3>4. Agrees(mark, args, b)
      BY <2>1, <3>2, <3>3 DEF Agrees
    <3>5. k0 = b + 1
      BY <3>1
    <3> HIDE DEF k0
    <3>6. QED
      BY <2>1, <3>2, <3>4, <3>5
  <2>4. QED
    BY <2>2, <2>3
<1> HIDE DEF append, w, k0
<1>6. /\ rest \in Seq(S) /\ Len(rest) = N - k0
      /\ \A i \in 1 .. N - k0 : rest[i] = args[k0 + i]
  <2>1. k0 <= Len(args)
    BY <1>5 DEF N
  <2>2. /\ From(args, k0) \in Seq(S) /\ Len(From(args, k0)) = Len(args) - k0
        /\ \A i \in 1 .. Len(args) - k0 : From(args, k0)[i] = args[k0 + i]
    BY <2>1, <1>5, FromFacts
  <2>3. QED
    BY <2>2 DEF rest, N
<1>7. PICK t \in 0 .. Len(rest) :
        /\ Trimmed(rest) = From(rest, t)
        /\ \A i \in 1 .. t : rest[i] = Space
        /\ t < Len(rest) => rest[t + 1] # Space
  BY <1>6, TrimmedFacts
<1>8. t \in Nat /\ t <= Len(rest) /\ n0 \in Nat /\ n0 <= b
  BY <1>2, <1>4, <1>6, <1>7
<1>9. /\ Trimmed(rest) \in Seq(S) /\ Len(Trimmed(rest)) = Len(rest) - t
       /\ \A i \in 1 .. Len(rest) - t : Trimmed(rest)[i] = rest[t + i]
  <2>1. /\ From(rest, t) \in Seq(S) /\ Len(From(rest, t)) = Len(rest) - t
        /\ \A i \in 1 .. Len(rest) - t : From(rest, t)[i] = rest[t + i]
    <3>1. rest \in Seq(S)
      BY <1>6
    <3>2. t \in Nat /\ t <= Len(rest)
      BY <1>8
    <3>3. QED
      BY <3>1, <3>2, FromFacts
  <2>2. QED
    BY <2>1, <1>7
<1> DEFINE name == Upto(Trimmed(rest), EchoNameSize)
           text == Upto(args, n0)
<1>10. /\ name \in Seq(S) /\ Len(name) \in Nat /\ Len(name) <= Len(rest) - t
       /\ \A i \in 1 .. Len(name) : name[i] = rest[t + i]
  <2>1. EchoNameSize \in Nat
    BY CommandLineAssumption
  <2>2. /\ name \in Seq(S)
        /\ Len(name) = IF EchoNameSize < Len(Trimmed(rest)) THEN EchoNameSize ELSE Len(Trimmed(rest))
        /\ \A i \in 1 .. Len(name) : name[i] = Trimmed(rest)[i]
    BY <2>1, <1>9, UptoFacts
  <2> HIDE DEF name
  <2>3. Len(name) \in Nat /\ Len(name) <= Len(rest) - t
    BY <2>1, <2>2, <1>6, <1>8, <1>9
  <2>4. \A i \in 1 .. Len(name) : i \in 1 .. Len(rest) - t
    BY <2>3, <1>6, <1>8
  <2>5. QED
    BY <2>2, <2>3, <2>4, <1>9
<1>11. /\ text \in Seq(S) /\ Len(text) = n0
       /\ \A i \in 1 .. n0 : text[i] = args[i]
  <2>1. /\ text \in Seq(S)
        /\ Len(text) = IF n0 < N THEN n0 ELSE N
        /\ \A i \in 1 .. Len(text) : text[i] = args[i]
    BY <1>8, UptoFacts
  <2> HIDE DEF text
  <2>2. QED
    BY <2>1, <1>2, <1>8
<1> HIDE DEF name, text
<1>12. Agrees(text, args, 0)
  <2>1. \A i \in 1 .. n0 : args[0 + i] = args[i]
    BY <1>8
  <2>2. n0 + 0 <= Len(args)
    BY <1>2, <1>8 DEF N
  <2>3. QED
    BY <2>1, <2>2, <1>11 DEF Agrees
<1> DEFINE m == b - n0
<1>13. /\ Spaces(m) \in Seq(S) /\ Len(Spaces(m)) = m
       /\ Agrees(Spaces(m), args, Len(text))
  <2>1. m \in Nat /\ n0 + m = b /\ n0 + m <= Len(args) /\ Len(text) = n0
    BY <1>2, <1>8, <1>11 DEF N
  <2> HIDE DEF m
  <2>2. \A i \in n0 + 1 .. n0 + m : args[i] = Space
    BY <2>1, <1>4
  <2>3. QED
    BY <2>1, <2>2, <1>8, SpacesAgree
<1>14. /\ Spaces(t) \in Seq(S) /\ Len(Spaces(t)) = t
       /\ Agrees(Spaces(t), args, k0)
  <2>1. k0 \in Nat /\ k0 + t <= Len(args)
    BY <1>2, <1>5, <1>6, <1>8 DEF N
  <2>2. \A i \in k0 + 1 .. k0 + t : args[i] = Space
    <3>1. ASSUME NEW i \in k0 + 1 .. k0 + t  PROVE args[i] = Space
      <4>1. /\ i - k0 \in 1 .. t /\ i - k0 \in 1 .. N - k0
            /\ k0 + (i - k0) = i
        BY <1>2, <1>5, <1>6, <1>8
      <4>2. QED
        BY <4>1, <1>6, <1>7
    <3>2. QED
      BY <3>1
  <2>3. QED
    BY <2>1, <2>2, <1>8, SpacesAgree
<1>15. Agrees(name, args, k0 + t)
  <2>1. Len(name) + (k0 + t) <= Len(args)
    BY <1>2, <1>5, <1>6, <1>8, <1>10 DEF N
  <2>2. ASSUME NEW i \in 1 .. Len(name)  PROVE name[i] = args[(k0 + t) + i]
    <3>1. t + i \in 1 .. N - k0 /\ k0 + (t + i) = (k0 + t) + i
      BY <1>2, <1>5, <1>6, <1>8, <1>10
    <3>2. QED
      BY <3>1, <1>6, <1>10
  <2>3. QED
    BY <2>1, <2>2 DEF Agrees
<1> HIDE DEF m
<1> DEFINE p1 == text \o Spaces(m)
           p2 == p1 \o mark
           p3 == p2 \o Spaces(t)
           p4 == p3 \o name
<1>16. n0 + m = b /\ m \in 0 .. Len(args) /\ m \in Nat /\ t \in 0 .. Len(args)
  BY <1>2, <1>5, <1>6, <1>8 DEF m, N
<1>17. p1 \in Seq(S) /\ Len(p1) = b /\ Agrees(p1, args, 0)
  <2>1. p1 \in Seq(S) /\ Len(p1) = n0 + m /\ Agrees(p1, args, 0)
    <3>1. Len(p1) = Len(text) + Len(Spaces(m)) /\ p1 \in Seq(S) /\ Agrees(p1, args, 0)
      BY <1>11, <1>12, <1>13, JoinedAgrees
    <3>2. QED
      BY <3>1, <1>11, <1>13
  <2>2. QED
    BY <2>1, <1>16
<1> HIDE DEF p1
<1>18. p2 \in Seq(S) /\ Len(p2) = k0 /\ Agrees(p2, args, 0)
  <2>1. Agrees(mark, args, Len(p1))
    BY <1>5, <1>17
  <2>2. p2 \in Seq(S) /\ Len(p2) = Len(p1) + Len(mark) /\ Agrees(p2, args, 0)
    BY <2>1, <1>5, <1>17, JoinedAgrees
  <2>3. QED
    BY <2>2, <1>5, <1>17
<1> HIDE DEF p2
<1>19. p3 \in Seq(S) /\ Len(p3) = k0 + t /\ Agrees(p3, args, 0)
  <2>1. Agrees(Spaces(t), args, Len(p2))
    BY <1>14, <1>18
  <2>2. p3 \in Seq(S) /\ Len(p3) = Len(p2) + Len(Spaces(t)) /\ Agrees(p3, args, 0)
    BY <2>1, <1>14, <1>18, JoinedAgrees
  <2>3. QED
    BY <2>2, <1>14, <1>18
<1> HIDE DEF p3
<1>20. p4 \in Seq(S) /\ Agrees(p4, args, 0)
  <2>1. Agrees(name, args, Len(p3))
    BY <1>15, <1>19
  <2>2. QED
    BY <2>1, <1>10, <1>15, <1>19, JoinedAgrees
<1>21. IsPrefix(p4, args)
  BY <1>20, AgreesPrefix
<1>22. echo.text = text /\ echo.name = name
  BY <1>3 DEF text, name
<1>23. \A i \in DOMAIN text : text[i] # Redirect
  <2>1. DOMAIN text = 1 .. n0
    BY <1>11
  <2>2. \A i \in 1 .. n0 : i \in 1 .. b
    BY <1>2, <1>8
  <2>3. QED
    BY <2>1, <2>2, <1>1, <1>11
<1>24. \E k, n \in 0 .. Len(args) :
         IsPrefix(text \o Spaces(k) \o mark \o Spaces(n) \o name, args)
  BY <1>16, <1>21 DEF p1, p2, p3
<1>25. name = <<>> \/ name[1] # Space
  <2>1. CASE Len(name) = 0
    BY <2>1, <1>10, EmptySeq
  <2>2. CASE Len(name) # 0
    <3>1. 1 \in 1 .. Len(name) /\ t < Len(rest)
      BY <2>2, <1>2, <1>5, <1>6, <1>8, <1>10
    <3>2. QED
      BY <3>1, <1>7, <1>10
  <2>3. QED
    BY <2>1, <2>2
<1>26. text = <<>> \/ Last(text) # Space
  <2>1. CASE n0 = 0
    BY <2>1, <1>11, EmptySeq
  <2>2. CASE n0 # 0
    <3>1. n0 > 0 /\ n0 \in 1 .. n0
      BY <2>2, <1>8
    <3>2. QED
      BY <3>1, <1>4, <1>11 DEF Last
  <2>3. QED
    BY <2>1, <2>2
<1>27. QED
  BY <1>22, <1>23, <1>24, <1>25, <1>26

(* Of every line, echo writes the text, leaves out the mark, and takes the *)
(* rest for the name: no character but blanks is lost or counted twice,    *)
(* for all sizes of its buffers and lines of any length.                   *)
THEOREM EchoSplitsLine == Spec => []EchoLosesNothing
<1>1. ASSUME NEW line \in Lines, Contains(split_command(line).args, Redirect)
      PROVE  LET args == split_command(line).args
                 echo == Echoed(args)
                 mark == IF echo.append THEN <<Redirect, Redirect>> ELSE <<Redirect>>
             IN  /\ \A i \in DOMAIN echo.text : echo.text[i] # Redirect
                 /\ \E m, n \in 0 .. Len(args) :
                      IsPrefix(echo.text \o Spaces(m) \o mark \o Spaces(n) \o echo.name, args)
                 /\ echo.name = <<>> \/ echo.name[1] # Space
                 /\ echo.text = <<>> \/ Last(echo.text) # Space
  <2> DEFINE args == split_command(line).args
             echo == Echoed(args)
             mark == IF echo.append THEN <<Redirect, Redirect>> ELSE <<Redirect>>
  <2>1. args \in Seq(DOMAIN Upper) /\ {Space, Redirect} \subseteq DOMAIN Upper
    BY ArgsType, CommandLineAssumption
  <2>2. Contains(args, Redirect)
    BY <1>1
  <2> HIDE DEF args
  <2>3. /\ \A i \in DOMAIN echo.text : echo.text[i] # Redirect
        /\ \E m, n \in 0 .. Len(args) :
             IsPrefix(echo.text \o Spaces(m) \o mark \o Spaces(n) \o echo.name, args)
        /\ echo.name = <<>> \/ echo.name[1] # Space
        /\ echo.text = <<>> \/ Last(echo.text) # Space
    BY <2>1, <2>2, EchoedSplits
  <2>4. QED
    BY <2>3 DEF args
<1>2. EchoLosesNothing
  BY <1>1 DEF EchoLosesNothing, LinesAreEchoed
<1>3. QED
  BY <1>2, PTL

-----------------------------------------------------------------------------
(* The words of a line are where blanks end, and where they begin again.   *)
LEMMA SamePieces ==
  ASSUME NEW S, NEW s \in Seq(S), NEW a \in Nat, NEW b \in Nat, a + b <= Len(s)
  PROVE  From(From(s, a), b) = From(s, a + b)
<1> DEFINE r == From(s, a)
<1>1. Len(s) \in Nat /\ a <= Len(s) /\ a + b \in Nat
  OBVIOUS
<1>2. /\ r \in Seq(S) /\ Len(r) = Len(s) - a
      /\ \A i \in 1 .. Len(s) - a : r[i] = s[a + i]
  BY <1>1, FromFacts
<1>3. /\ From(s, a + b) \in Seq(S) /\ Len(From(s, a + b)) = Len(s) - (a + b)
      /\ \A i \in 1 .. Len(s) - (a + b) : From(s, a + b)[i] = s[(a + b) + i]
  BY <1>1, FromFacts
<1> HIDE DEF r
<1>4. b <= Len(r)
  BY <1>1, <1>2
<1>5. /\ From(r, b) \in Seq(S) /\ Len(From(r, b)) = Len(r) - b
      /\ \A i \in 1 .. Len(r) - b : From(r, b)[i] = r[b + i]
  <2>1. r \in Seq(S) /\ b \in Nat /\ b <= Len(r)
    BY <1>2, <1>4
  <2>2. QED
    BY ONLY <2>1, FromFacts
<1>6. Len(From(r, b)) = Len(From(s, a + b)) /\ Len(From(r, b)) = Len(s) - (a + b)
  <2>1. (Len(s) - a) - b = Len(s) - (a + b)
    BY <1>1
  <2>2. Len(From(r, b)) = (Len(s) - a) - b
    BY <1>2, <1>5
  <2>3. QED
    BY <2>1, <2>2, <1>3
<1>7. ASSUME NEW i \in 1 .. Len(s) - (a + b)  PROVE From(r, b)[i] = From(s, a + b)[i]
  <2>1. i \in 1 .. Len(r) - b /\ b + i \in 1 .. Len(s) - a /\ a + (b + i) = (a + b) + i
    BY <1>1, <1>2
  <2>2. QED
    BY <2>1, <1>2, <1>3, <1>5
<1>8. From(r, b) = From(s, a + b)
  BY <1>3, <1>5, <1>6, <1>7, SeqEqual
<1>9. QED
  BY <1>8 DEF r

LEMMA WordFacts ==
  ASSUME NEW S, NEW s \in Seq(S)
  PROVE  \E w \in 0 .. Len(s) :
           /\ WordOf(s) = Upto(s, w) /\ Len(WordOf(s)) = w
           /\ \A i \in 1 .. w : WordOf(s)[i] = s[i] /\ s[i] # Space
           /\ w < Len(s) => s[w + 1] = Space
<1> DEFINE N == Len(s)
           stops == {i \in 1 .. N : s[i] = Space}
           b == Passed(N, stops)
<1>1. WordOf(s) = Upto(s, b)
  <2>1. DOMAIN s = 1 .. N
    OBVIOUS
  <2>2. QED
    BY <2>1 DEF WordOf, Before, Passed
<1>2. stops \in SUBSET (1 .. N) /\ N \in Nat
  OBVIOUS
<1>3. \A i \in 1 .. N : i \in stops <=> s[i] = Space
  OBVIOUS
<1> HIDE DEF stops
<1>4. /\ b \in 0 .. N
      /\ \A i \in 1 .. b : i \in 1 .. N /\ i \notin stops
      /\ b < N => b + 1 \in stops
  BY <1>2, PassedFacts
<1> HIDE DEF b
<1>5. b \in Nat /\ Len(s) \in Nat /\ b <= Len(s)
  BY <1>2, <1>4
<1>6. /\ Len(Upto(s, b)) = IF b < Len(s) THEN b ELSE Len(s)
      /\ \A i \in 1 .. Len(Upto(s, b)) : Upto(s, b)[i] = s[i]
  BY <1>5, UptoFacts
<1>7. Len(Upto(s, b)) = b
  BY <1>5, <1>6
<1>8. \A i \in 1 .. b : s[i] # Space
  BY <1>3, <1>4
<1>9. b < N => s[b + 1] = Space
  BY <1>2, <1>3, <1>4
<1>10. QED
  BY <1>1, <1>4, <1>6, <1>7, <1>8, <1>9

(* Between words, or behind the last: no word goes on at p + 1.            *)
Outside(line, p) ==
  /\ p \in 0 .. Len(line)
  /\ p < Len(line) => line[p + 1] = Space \/ p + 1 \in Starts(line)

(* From there on the next word is the next one that begins.                *)
LEMMA NextStart ==
  ASSUME NEW S, NEW line \in Seq(S), NEW p, Outside(line, p)
  PROVE  \/ /\ Trimmed(From(line, p)) = <<>>
            /\ \A j \in Starts(line) : j <= p
         \/ \E i \in Starts(line) :
              /\ i > p /\ Trimmed(From(line, p)) = From(line, i - 1)
              /\ \A j \in Starts(line) : j <= p \/ j >= i
<1> DEFINE N == Len(line)
           rest == From(line, p)
<1>1. N \in Nat /\ p \in Nat /\ p <= N
  BY DEF Outside
<1>2. /\ rest \in Seq(S) /\ Len(rest) = N - p
      /\ \A i \in 1 .. N - p : rest[i] = line[p + i]
  BY <1>1, FromFacts
<1> HIDE DEF rest
<1>3. PICK t \in 0 .. Len(rest) :
        /\ Trimmed(rest) = From(rest, t)
        /\ \A i \in 1 .. t : rest[i] = Space
        /\ t < Len(rest) => rest[t + 1] # Space
  BY <1>2, TrimmedFacts
<1>4. t \in Nat /\ p + t <= N /\ p + t \in Nat
  BY <1>1, <1>2, <1>3
<1>5. Trimmed(rest) = From(line, p + t)
  BY <1>1, <1>3, <1>4, SamePieces DEF rest
<1>6. \A j \in Starts(line) : j \in 1 .. N /\ line[j] # Space
  BY DEF Starts
<1>7. ASSUME NEW j \in Starts(line)  PROVE j <= p \/ j > p + t
  <2>1. j \in 1 .. N /\ line[j] # Space
    BY <1>6
  <2>2. CASE j > p /\ j <= p + t
    <3>1. j - p \in 1 .. t /\ j - p \in 1 .. N - p /\ p + (j - p) = j
      BY <1>1, <1>4, <2>1, <2>2
    <3>2. QED
      BY <3>1, <1>2, <1>3, <2>1
  <2>3. QED
    BY <2>1, <2>2, <1>1, <1>4
<1>8. CASE p + t = N
  <2>1. /\ From(line, N) \in Seq(S) /\ Len(From(line, N)) = N - N
    BY <1>1, FromFacts
  <2>2. Trimmed(rest) = <<>>
    BY <2>1, <1>1, <1>5, <1>8, EmptySeq
  <2>3. \A j \in Starts(line) : j <= p
    BY <1>1, <1>6, <1>7, <1>8
  <2>4. QED
    BY <2>2, <2>3 DEF rest
<1>9. CASE p + t # N
  <2> DEFINE i == p + t + 1
  <2>1. i \in 1 .. N /\ i > p /\ i - 1 = p + t /\ t + 1 \in 1 .. N - p /\ t < Len(rest) /\ p + (t + 1) = i
    <3>1. Len(rest) = N - p
      BY <1>2
    <3> HIDE DEF N
    <3>2. p + t < N
      BY <1>1, <1>4, <1>9
    <3>3. QED
      BY <3>1, <3>2, <1>1, <1>4
  <2>2. line[i] # Space
    BY <2>1, <1>2, <1>3
  <2>3. i \in Starts(line)
    <3>1. CASE t = 0
      <4>1. i = p + 1 /\ p < Len(line)
        BY <2>1, <3>1, <1>1
      <4>2. QED
        BY <4>1, <2>2 DEF Outside
    <3>2. CASE t # 0
      <4>1. t \in 1 .. t /\ t \in 1 .. N - p /\ p + t = i - 1
        BY <1>1, <1>4, <2>1, <3>2
      <4>2. line[i - 1] = Space
        BY <4>1, <1>2, <1>3
      <4>3. i \in DOMAIN line
        BY <2>1
      <4> HIDE DEF i
      <4>4. QED
        BY <4>2, <4>3, <2>2 DEF Starts
    <3>3. QED
      BY <3>1, <3>2
  <2>4. Trimmed(rest) = From(line, i - 1)
    BY <1>5, <2>1
  <2>5. \A j \in Starts(line) : j <= p \/ j >= i
    BY <1>1, <1>4, <1>6, <1>7
  <2>6. QED
    BY <2>1, <2>3, <2>4, <2>5 DEF rest
<1>10. QED
  BY <1>8, <1>9

(* A word that begins at i ends at a place q where no other has begun.     *)
LEMMA WordEnds ==
  ASSUME NEW S, NEW line \in Seq(S), NEW i \in Starts(line),
         NEW s, s = From(line, i - 1)
  PROVE  \E q \in i .. Len(line) :
           /\ Outside(line, q) /\ From(s, Len(WordOf(s))) = From(line, q)
           /\ \A j \in Starts(line) : j <= i \/ j > q
           /\ WordOf(s) \in Seq(S)
           /\ \A m \in 1 .. Len(WordOf(s)) : WordOf(s)[m] # Space
<1> DEFINE N == Len(line)
<1>1. /\ N \in Nat /\ i \in 1 .. N /\ i - 1 \in Nat /\ i - 1 <= N
      /\ line[i] # Space
  BY DEF Starts
<1>2. /\ s \in Seq(S) /\ Len(s) = N - (i - 1)
      /\ \A m \in 1 .. N - (i - 1) : s[m] = line[(i - 1) + m]
  BY <1>1, FromFacts
<1>3. PICK w \in 0 .. Len(s) :
        /\ WordOf(s) = Upto(s, w) /\ Len(WordOf(s)) = w
        /\ \A m \in 1 .. w : WordOf(s)[m] = s[m] /\ s[m] # Space
        /\ w < Len(s) => s[w + 1] = Space
  BY <1>2, WordFacts
<1>4. w \in Nat /\ w > 0
  <2>1. 1 \in 1 .. N - (i - 1) /\ (i - 1) + 1 = i /\ 0 < Len(s) /\ 0 + 1 = 1
    BY <1>1, <1>2
  <2>2. s[1] # Space
    BY <2>1, <1>1, <1>2
  <2>3. w # 0
    BY <2>1, <2>2, <1>3
  <2>4. QED
    BY <2>3, <1>2, <1>3
<1> DEFINE q == (i - 1) + w
<1>5. q \in i .. N /\ q \in Nat
  BY <1>1, <1>2, <1>3, <1>4
<1>6. From(s, w) = From(line, q)
  BY <1>1, <1>4, <1>5, SamePieces
<1>7. ASSUME q < N  PROVE line[q + 1] = Space
  <2>1. w < Len(s) /\ w + 1 \in 1 .. N - (i - 1) /\ (i - 1) + (w + 1) = q + 1
    BY <1>1, <1>2, <1>4, <1>7
  <2>2. QED
    BY <2>1, <1>2, <1>3
<1>8. ASSUME NEW j \in Starts(line), j > i, j <= q  PROVE FALSE
  <2>1. j \in 1 .. N /\ (j = 1 \/ line[j - 1] = Space)
    BY DEF Starts
  <2>2. /\ j # 1 /\ j - i \in 1 .. w /\ j - i \in 1 .. N - (i - 1)
        /\ (i - 1) + (j - i) = j - 1
    BY <2>1, <1>1, <1>4, <1>5, <1>8
  <2>3. s[j - i] = line[j - 1] /\ s[j - i] # Space
    BY <2>2, <1>2, <1>3
  <2>4. QED
    BY <2>1, <2>2, <2>3
<1>9. \A j \in Starts(line) : j \in 1 .. N
  BY DEF Starts
<1> HIDE DEF q
<1>10. \A j \in Starts(line) : j <= i \/ j > q
  BY <1>1, <1>5, <1>8, <1>9
<1>11. Outside(line, q)
  BY <1>1, <1>5, <1>7 DEF Outside
<1>12. WordOf(s) \in Seq(S)
  BY <1>2, WordType
<1>13. QED
  BY <1>3, <1>5, <1>6, <1>10, <1>11, <1>12

-----------------------------------------------------------------------------
(* Counting the words.                                                     *)

LEMMA StartsFinite ==
  ASSUME NEW S, NEW line \in Seq(S)
  PROVE  /\ IsFiniteSet(Starts(line)) /\ Cardinality(Starts(line)) \in Nat
         /\ \A p : IsFiniteSet({j \in Starts(line) : j <= p}) /\ Rank(line, p) \in Nat
<1>1. IsFiniteSet(1 .. Len(line))
  BY FS_Interval
<1>2. Starts(line) \subseteq 1 .. Len(line)
  BY DEF Starts
<1>3. IsFiniteSet(Starts(line))
  BY <1>1, <1>2, FS_Subset
<1>4. ASSUME NEW p  PROVE IsFiniteSet({j \in Starts(line) : j <= p})
  <2>1. {j \in Starts(line) : j <= p} \subseteq Starts(line)
    OBVIOUS
  <2>2. QED
    BY <2>1, <1>3, FS_Subset
<1>5. QED
  BY <1>3, <1>4, FS_CardinalityType DEF Rank

LEMMA RankNext ==
  ASSUME NEW S, NEW line \in Seq(S), NEW p \in Nat, NEW i \in Starts(line), i > p,
         \A j \in Starts(line) : j <= p \/ j >= i
  PROVE  Rank(line, i) = Rank(line, p) + 1
<1> DEFINE B == {j \in Starts(line) : j <= p}
           A == {j \in Starts(line) : j <= i}
<1>1. Starts(line) \subseteq Nat
  BY DEF Starts
<1>2. A = B \cup {i} /\ i \notin B
  <2>1. \A j \in Starts(line) : j <= i <=> (j <= p \/ j = i)
    BY <1>1
  <2>2. QED
    BY <2>1, <1>1
<1>3. IsFiniteSet(B) /\ Cardinality(B) \in Nat
  BY StartsFinite, FS_CardinalityType
<1> HIDE DEF A, B
<1>4. Cardinality(A) = Cardinality(B) + 1
  BY <1>2, <1>3, FS_AddElement
<1>5. QED
  BY <1>4 DEF A, B, Rank

LEMMA RankSame ==
  ASSUME NEW line, NEW p, NEW q, \A j \in Starts(line) : j <= p <=> j <= q
  PROVE  Rank(line, q) = Rank(line, p)
<1>1. {j \in Starts(line) : j <= p} = {j \in Starts(line) : j <= q}
  OBVIOUS
<1>2. QED
  BY <1>1 DEF Rank

LEMMA RankRises ==
  ASSUME NEW S, NEW line \in Seq(S), NEW i \in Starts(line), NEW j \in Starts(line), i < j
  PROVE  Rank(line, i) < Rank(line, j)
<1> DEFINE A == {n \in Starts(line) : n <= i}
           B == {n \in Starts(line) : n <= j}
<1>1. Starts(line) \subseteq Nat
  BY DEF Starts
<1>2. A \subseteq B /\ j \in B /\ j \notin A
  BY <1>1
<1>3. IsFiniteSet(B)
  BY StartsFinite
<1> HIDE DEF A, B
<1>4. A \subseteq B /\ A # B
  BY <1>2
<1>5. Cardinality(A) < Cardinality(B)
  BY <1>3, <1>4, FS_Subset, FS_CardinalityType
<1>6. QED
  BY <1>5 DEF A, B, Rank

(* The word that begins at i is the one that its rank says.                *)
LEMMA WordAt ==
  ASSUME NEW S, NEW line \in Seq(S), NEW i \in Starts(line), NEW k, Rank(line, i) = k
  PROVE  Word(line, k) = WordOf(From(line, i - 1))
<1> DEFINE c == CHOOSE j \in Starts(line) : Rank(line, j) = k
<1>1. c \in Starts(line) /\ Rank(line, c) = k
  OBVIOUS
<1> HIDE DEF c
<1>2. c \in Nat /\ i \in Nat /\ k \in Nat
  <2>1. Starts(line) \subseteq Nat
    BY DEF Starts
  <2>2. Rank(line, i) \in Nat
    BY StartsFinite
  <2>3. QED
    BY <2>1, <2>2, <1>1
<1>3. ~ (c < i) /\ ~ (i < c)
  BY <1>1, <1>2, RankRises
<1>4. c = i
  BY <1>2, <1>3
<1>5. QED
  BY <1>4 DEF Word, c

(* What is left of a line is a word and what is left behind it, or nothing. *)
LEMMA NextWord ==
  ASSUME NEW S, NEW line \in Seq(S), NEW p, Outside(line, p),
         NEW t, t = Trimmed(From(line, p)),
         NEW word, word = Word(line, Rank(line, p) + 1)
  PROVE  \/ t = <<>> /\ Cardinality(Starts(line)) = Rank(line, p)
         \/ /\ t # <<>> /\ word = WordOf(t)
            /\ word \in Seq(S) /\ \A m \in 1 .. Len(word) : word[m] # Space
            /\ \E q \in p + 1 .. Len(line) :
                 /\ Outside(line, q) /\ Rank(line, q) = Rank(line, p) + 1
                 /\ From(t, Len(word)) = From(line, q)
<1> DEFINE N == Len(line)
<1>1. N \in Nat /\ p \in Nat /\ p <= N
  BY DEF Outside
<1>2. CASE t = <<>> /\ \A j \in Starts(line) : j <= p
  <2>1. {j \in Starts(line) : j <= p} = Starts(line)
    BY <1>2
  <2>2. QED
    BY <2>1, <1>2 DEF Rank
<1>3. ASSUME NEW i \in Starts(line), i > p, t = From(line, i - 1),
             \A j \in Starts(line) : j <= p \/ j >= i
      PROVE  /\ t # <<>> /\ word = WordOf(t)
             /\ word \in Seq(S) /\ \A m \in 1 .. Len(word) : word[m] # Space
             /\ \E q \in p + 1 .. N :
                  /\ Outside(line, q) /\ Rank(line, q) = Rank(line, p) + 1
                  /\ From(t, Len(word)) = From(line, q)
  <2>1. Rank(line, i) = Rank(line, p) + 1
    BY <1>1, <1>3, RankNext
  <2>2. word = WordOf(t)
    BY <2>1, <1>3, WordAt
  <2>3. PICK q \in i .. N :
          /\ Outside(line, q) /\ From(t, Len(WordOf(t))) = From(line, q)
          /\ \A j \in Starts(line) : j <= i \/ j > q
          /\ WordOf(t) \in Seq(S)
          /\ \A m \in 1 .. Len(WordOf(t)) : WordOf(t)[m] # Space
    BY <1>3, WordEnds
  <2>4. i \in 1 .. N /\ i - 1 \in Nat /\ i - 1 <= N
    BY DEF Starts
  <2>5. t # <<>>
    <3>1. Len(t) = N - (i - 1)
      <4>1. Len(From(line, i - 1)) = N - (i - 1)
        BY <2>4, FromFacts
      <4>2. QED
        BY ONLY <1>3, <4>1
    <3>2. Len(<<>>) = 0 /\ N - (i - 1) # 0
      BY <1>1, <2>4
    <3>3. QED
      BY <3>1, <3>2
  <2>6. Starts(line) \subseteq Nat /\ q \in Nat
    BY <2>4 DEF Starts
  <2>7. \A j \in Starts(line) : j <= i <=> j <= q
    BY <2>3, <2>4, <2>6
  <2>8. Rank(line, q) = Rank(line, i)
    BY <2>7, RankSame
  <2>9. q \in p + 1 .. N
    BY <1>1, <1>3, <2>4, <2>3
  <2>10. QED
    BY <2>1, <2>2, <2>3, <2>5, <2>8, <2>9
<1>4. QED
  BY <1>2, <1>3, NextStart

-----------------------------------------------------------------------------
(* The loop over the arguments.                                            *)

(* One round of it.                                                        *)
Round(so_far) ==
  IF Trimmed(so_far.rest) = <<>> THEN so_far
  ELSE [names |-> Append(so_far.names, get_next_argument(so_far.rest).word),
        rest |-> get_next_argument(so_far.rest).rest]

LoopStates(S) == [names : Seq(Seq(S)), rest : Seq(S)]

LEMMA RoundType ==
  ASSUME NEW S, NEW x \in LoopStates(S)
  PROVE  Round(x) \in LoopStates(S)
<1> DEFINE t == Trimmed(x.rest)
<1>1. x.rest \in Seq(S) /\ x.names \in Seq(Seq(S))
  BY DEF LoopStates
<1>2. t \in Seq(S)
  BY <1>1, TrimmedType
<1>3. WordOf(t) \in Seq(S) /\ Len(WordOf(t)) <= Len(t) /\ Len(WordOf(t)) \in Nat
  BY <1>2, WordType
<1>4. NameSize \in Nat
  BY CommandLineAssumption
<1> DEFINE word == Upto(WordOf(t), NameSize)
           rest == From(t, Len(WordOf(t)))
<1>5. word \in Seq(S) /\ rest \in Seq(S)
  BY <1>2, <1>3, <1>4, UptoFacts, FromFacts
<1>6. get_next_argument(x.rest) = [word |-> word, rest |-> rest]
  BY DEF get_next_argument
<1> HIDE DEF word, rest, t
<1>7. [names |-> Append(x.names, word), rest |-> rest] \in LoopStates(S)
  BY <1>1, <1>5 DEF LoopStates
<1>8. Round(x) = IF t = <<>> THEN x ELSE [names |-> Append(x.names, word), rest |-> rest]
  BY <1>6 DEF Round, t
<1>9. QED
  BY <1>7, <1>8

LEMMA ArgumentsIs ==
  ASSUME NEW S, NEW s \in Seq(S)
  PROVE  \E f \in [0 .. Len(s) -> LoopStates(S)] :
           /\ f[0] = [names |-> <<>>, rest |-> s]
           /\ \A n \in 1 .. Len(s) : f[n] = Round(f[n - 1])
           /\ Arguments(s) = f[Len(s)].names
<1> DEFINE N == Len(s)
           X == LoopStates(S)
           start == [names |-> <<>>, rest |-> s]
           G == [x \in X |-> Round(x)]
           Rounds(f) == f = [n \in 0 .. N |->
                              IF n = 0 THEN start
                              ELSE LET so_far == f[n - 1]
                                       next == get_next_argument(so_far.rest)
                                   IN  IF Trimmed(so_far.rest) = <<>> THEN so_far
                                       ELSE [names |-> Append(so_far.names, next.word),
                                             rest |-> next.rest]]
<1>1. N \in Nat /\ start \in X
  BY DEF LoopStates
<1>2. G \in [X -> X]
  BY RoundType
<1>3. PICK f \in [0 .. N -> X] : f[0] = start /\ \A n \in 1 .. N : f[n] = G[f[n - 1]]
  <2> HIDE DEF G, start, N, X
  <2>1. Traces(N, X, start, G) # {}
    BY <1>1, <1>2, HasTrace
  <2>2. QED
    BY <2>1 DEF Traces
<1>4. \A n \in 1 .. N : n - 1 \in 0 .. N /\ n \in 0 .. N /\ n # 0
  BY <1>1
<1>5. \A n \in 1 .. N : f[n] = Round(f[n - 1])
  BY <1>3, <1>4
<1>6. \A g, n : Rounds(g) /\ n \in 1 .. N => g[n] = Round(g[n - 1])
  BY <1>4 DEF Round
<1>7. Rounds(f)
  <2> DEFINE h == [n \in 0 .. N |->
                     IF n = 0 THEN start
                     ELSE LET so_far == f[n - 1]
                              next == get_next_argument(so_far.rest)
                          IN  IF Trimmed(so_far.rest) = <<>> THEN so_far
                              ELSE [names |-> Append(so_far.names, next.word),
                                    rest |-> next.rest]]
  <2>1. DOMAIN h = 0 .. N /\ h[0] = start
    BY <1>1
  <2>2. \A n \in 1 .. N : h[n] = Round(f[n - 1])
    BY <1>4 DEF Round
  <2>3. h = [n \in 0 .. N |-> h[n]] /\ f = [n \in 0 .. N |-> f[n]]
    <3>1. f = [n \in 0 .. N |-> f[n]]
      BY <1>3
    <3>2. QED
      BY <3>1
  <2> HIDE DEF h
  <2>4. \A n \in 0 .. N : n = 0 \/ n \in 1 .. N
    BY <1>1
  <2>5. \A n \in 0 .. N : h[n] = f[n]
    BY <2>1, <2>2, <2>4, <1>3, <1>5
  <2>6. h = f
    BY <2>3, <2>5
  <2>7. QED
    BY <2>6 DEF h
<1> DEFINE after == CHOOSE g : Rounds(g)
<1>8. Rounds(after)
  <2> HIDE DEF Rounds
  <2>1. QED
    BY <1>7
<1>9. Arguments(s) = after[N].names
  BY DEF Arguments
<1>10. after[0] = start
  <2> HIDE DEF after, start
  <2>1. QED
    BY <1>1, <1>8
<1>11. \A n \in 1 .. N : after[n] = Round(after[n - 1])
  <2> HIDE DEF Rounds, after
  <2>1. QED
    BY <1>6, <1>8
<1> HIDE DEF after, Rounds, G
<1>12. after[N] = f[N]
  <2> DEFINE Agree == {n \in 0 .. N : after[n] = f[n]}
  <2>1. 0 \in Agree
    BY <1>1, <1>3, <1>10
  <2>2. ASSUME NEW n \in 0 .. N - 1, n \in Agree  PROVE n + 1 \in Agree
    <3>1. n + 1 \in 1 .. N /\ n + 1 \in 0 .. N /\ (n + 1) - 1 = n
      BY <1>1
    <3>2. after[n] = f[n]
      BY <2>2
    <3>3. after[n + 1] = Round(after[n]) /\ f[n + 1] = Round(f[n])
      BY <3>1, <1>5, <1>11
    <3>4. QED
      BY <3>1, <3>2, <3>3
  <2> HIDE DEF Agree
  <2>3. 0 .. N \subseteq Agree
    BY <1>1, <2>1, <2>2, UpTo
  <2>4. N \in Agree
    BY <2>3, <1>1
  <2>5. QED
    BY <2>4 DEF Agree
<1>13. QED
  BY <1>3, <1>5, <1>9, <1>12

(* The names of x are the words up to a place between words, behind the    *)
(* first, and what is left of x is what is left of the line.               *)
Taken(line, x, p) ==
  /\ Outside(line, p) /\ x.rest = From(line, p)
  /\ Rank(line, p) = 1 + Len(x.names)
  /\ \A k \in 1 .. Len(x.names) :
       /\ x.names[k] = Upto(Word(line, k + 1), NameSize)
       /\ \A m \in 1 .. Len(x.names[k]) : x.names[k][m] # Space

LEMMA RoundTakes ==
  ASSUME NEW S, NEW line \in Seq(S), NEW x \in LoopStates(S),
         NEW p, Taken(line, x, p)
  PROVE  \/ Round(x) = x /\ Cardinality(Starts(line)) = Rank(line, p)
         \/ \E q \in p + 1 .. Len(line) : Taken(line, Round(x), q)
<1> DEFINE t == Trimmed(From(line, p))
           n == Len(x.names)
           word == Word(line, Rank(line, p) + 1)
           name == Upto(word, NameSize)
<1>1. /\ Outside(line, p) /\ x.rest = From(line, p) /\ Rank(line, p) = 1 + n
      /\ x.names \in Seq(Seq(S)) /\ n \in Nat
  BY DEF Taken, LoopStates
<1>2. CASE t = <<>> /\ Cardinality(Starts(line)) = Rank(line, p)
  BY <1>1, <1>2 DEF Round
<1>3. ASSUME t # <<>>, word = WordOf(t), word \in Seq(S),
             \A m \in 1 .. Len(word) : word[m] # Space,
             NEW q \in p + 1 .. Len(line), Outside(line, q),
             Rank(line, q) = Rank(line, p) + 1,
             From(t, Len(word)) = From(line, q)
      PROVE  Taken(line, Round(x), q)
  <2> DEFINE names == Append(x.names, name)
  <2>1. get_next_argument(x.rest) = [word |-> name, rest |-> From(line, q)]
    BY <1>1, <1>3 DEF get_next_argument
  <2>2. Round(x) = [names |-> names, rest |-> From(line, q)]
    BY <1>1, <1>3, <2>1 DEF Round
  <2>3. NameSize \in Nat
    BY CommandLineAssumption
  <2>4. /\ name \in Seq(S)
        /\ Len(name) = IF NameSize < Len(word) THEN NameSize ELSE Len(word)
        /\ \A m \in 1 .. Len(name) : name[m] = word[m]
    BY <2>3, <1>3, UptoFacts
  <2>5. \A m \in 1 .. Len(name) : name[m] # Space
    <3> HIDE DEF name, word
    <3>1. \A m \in 1 .. Len(name) : m \in 1 .. Len(word)
      BY <2>3, <2>4, <1>3
    <3>2. QED
      BY <3>1, <2>4, <1>3
  <2>6. /\ Len(names) = n + 1
        /\ \A k \in 1 .. n : names[k] = x.names[k]
        /\ names[n + 1] = name
    <3> HIDE DEF name
    <3>1. QED
      BY <1>1, <2>4
  <2>7. name = Upto(Word(line, (n + 1) + 1), NameSize)
    BY <1>1
  <2>8. \A k \in 1 .. n :
          /\ x.names[k] = Upto(Word(line, k + 1), NameSize)
          /\ \A m \in 1 .. Len(x.names[k]) : x.names[k][m] # Space
    BY DEF Taken
  <2> HIDE DEF names, name, word, n
  <2>9. \A k \in 1 .. n + 1 : k \in 1 .. n \/ k = n + 1
    BY <1>1
  <2>10. \A k \in 1 .. Len(names) :
           /\ names[k] = Upto(Word(line, k + 1), NameSize)
           /\ \A m \in 1 .. Len(names[k]) : names[k][m] # Space
    BY <2>5, <2>6, <2>7, <2>8, <2>9
  <2>11. Rank(line, q) = 1 + Len(names)
    BY <1>1, <1>3, <2>6
  <2>12. QED
    BY <1>3, <2>2, <2>10, <2>11 DEF Taken
<1>4. \/ t = <<>> /\ Cardinality(Starts(line)) = Rank(line, p)
      \/ /\ t # <<>> /\ word = WordOf(t)
         /\ word \in Seq(S) /\ \A m \in 1 .. Len(word) : word[m] # Space
         /\ \E q \in p + 1 .. Len(line) :
              /\ Outside(line, q) /\ Rank(line, q) = Rank(line, p) + 1
              /\ From(t, Len(word)) = From(line, q)
  BY <1>1, NextWord
<1> HIDE DEF t, word, n, name
<1>5. QED
  BY <1>2, <1>3, <1>4

(* These are all the words behind the first, cut.                          *)
AllTaken(line, names) ==
  /\ Cardinality(Starts(line)) = 1 + Len(names)
  /\ \A k \in 1 .. Len(names) :
       /\ names[k] = Upto(Word(line, k + 1), NameSize)
       /\ \A m \in 1 .. Len(names[k]) : names[k][m] # Space

(* Behind the first word, the loop takes all the others.                   *)
LEMMA ArgumentsAreWords ==
  ASSUME NEW S, NEW line \in Seq(S), NEW p, Outside(line, p), Rank(line, p) = 1
  PROVE  /\ Arguments(From(line, p)) \in Seq(Seq(S))
         /\ AllTaken(line, Arguments(From(line, p)))
<1> DEFINE X == LoopStates(S)
           s == From(line, p)
           N == Len(s)
<1>1. p \in Nat /\ p <= Len(line) /\ Len(line) \in Nat
  BY DEF Outside
<1>2. s \in Seq(S) /\ N = Len(line) - p /\ N \in Nat
  BY <1>1, FromFacts
<1>3. PICK f \in [0 .. N -> X] :
        /\ f[0] = [names |-> <<>>, rest |-> s]
        /\ \A n \in 1 .. N : f[n] = Round(f[n - 1])
        /\ Arguments(s) = f[N].names
  <2> HIDE DEF s
  <2>1. QED
    BY <1>2, ArgumentsIs
<1> HIDE DEF s, N
<1> DEFINE Far(n) == \E q \in 0 .. Len(line) :
                       /\ Taken(line, f[n], q)
                       /\ q >= p + n \/ Cardinality(Starts(line)) = Rank(line, q)
           Sofar == {n \in 0 .. N : Far(n)}
<1>4. 0 \in Sofar
  <2>1. Taken(line, f[0], p)
    <3>1. f[0].names = <<>> /\ f[0].rest = s /\ Len(<<>>) = 0
      BY <1>3
    <3>2. QED
      BY <3>1 DEF Taken, s
  <2>2. p \in 0 .. Len(line) /\ p >= p + 0 /\ 0 \in 0 .. N
    BY <1>1, <1>2
  <2>3. QED
    BY <2>1, <2>2
<1>5. ASSUME NEW n \in 0 .. N - 1, n \in Sofar  PROVE n + 1 \in Sofar
  <2>1. n + 1 \in 1 .. N /\ n + 1 \in 0 .. N /\ (n + 1) - 1 = n /\ n \in 0 .. N
    BY <1>2
  <2>2. f[n + 1] = Round(f[n]) /\ f[n] \in X
    BY <2>1, <1>3
  <2>3. PICK q \in 0 .. Len(line) :
          /\ Taken(line, f[n], q)
          /\ q >= p + n \/ Cardinality(Starts(line)) = Rank(line, q)
    BY <1>5
  <2>4. CASE f[n + 1] = f[n] /\ Cardinality(Starts(line)) = Rank(line, q)
    BY <2>1, <2>3, <2>4
  <2>5. ASSUME NEW r \in q + 1 .. Len(line), Taken(line, f[n + 1], r)
        PROVE  Far(n + 1)
    <3>1. CASE q >= p + n
      <4>1. r \in 0 .. Len(line) /\ r >= p + (n + 1)
        BY <1>1, <2>1, <2>3, <3>1
      <4>2. QED
        BY <4>1, <2>5
    <3>2. CASE Cardinality(Starts(line)) = Rank(line, q)
      <4>1. Rank(line, r) = 1 + Len(f[n + 1].names)
        BY <2>5 DEF Taken
      <4>2. r \in 0 .. Len(line)
        BY <1>1, <2>3
      <4>3. Rank(line, r) = Cardinality(Starts(line))
        <5>1. /\ Rank(line, q) \in Nat /\ Rank(line, r) \in Nat
              /\ IsFiniteSet(Starts(line))
          BY StartsFinite
        <5>2. {j \in Starts(line) : j <= q} \subseteq Starts(line)
          OBVIOUS
        <5>3. {j \in Starts(line) : j <= q} = Starts(line)
          BY <5>1, <5>2, <3>2, FS_Subset DEF Rank
        <5>4. \A j \in Starts(line) : j <= q
          BY <5>3
        <5>5. \A j \in Starts(line) : j \in Nat
          BY DEF Starts
        <5>6. q \in Nat /\ r \in Nat /\ q <= r
          BY <1>1, <2>3
        <5>7. \A j \in Starts(line) : j <= q <=> j <= r
          BY <5>4, <5>5, <5>6
        <5>8. QED
          BY <5>7, <3>2, RankSame
      <4>4. QED
        BY <4>2, <4>3, <2>5
    <3>3. QED
      BY <3>1, <3>2, <2>3
  <2>6. \/ f[n + 1] = f[n] /\ Cardinality(Starts(line)) = Rank(line, q)
        \/ \E r \in q + 1 .. Len(line) : Taken(line, f[n + 1], r)
    BY <2>2, <2>3, RoundTakes
  <2>7. QED
    BY <2>1, <2>4, <2>5, <2>6
<1>6. Far(N)
  <2> HIDE DEF Sofar
  <2>1. 0 .. N \subseteq Sofar
    BY <1>2, <1>4, <1>5, UpTo
  <2>2. N \in Sofar
    BY <2>1, <1>2
  <2>3. QED
    BY <2>2 DEF Sofar
<1>7. PICK q \in 0 .. Len(line) :
        /\ Taken(line, f[N], q)
        /\ q >= p + N \/ Cardinality(Starts(line)) = Rank(line, q)
  BY <1>6
<1>8. Cardinality(Starts(line)) = Rank(line, q)
  <2>1. CASE q >= p + N
    <3>1. q = Len(line)
      BY <1>1, <1>2, <1>7, <2>1
    <3>2. \A j \in Starts(line) : j <= q
      BY <3>1 DEF Starts
    <3>3. {j \in Starts(line) : j <= q} = Starts(line)
      BY <3>2
    <3>4. QED
      BY <3>3 DEF Rank
  <2>2. QED
    BY <1>7, <2>1
<1> DEFINE names == f[N].names
<1>9. names = Arguments(From(line, p)) /\ names \in Seq(Seq(S))
  BY <1>2, <1>3 DEF s, LoopStates
<1>10. AllTaken(line, names)
  BY <1>7, <1>8 DEF Taken, AllTaken
<1> HIDE DEF names
<1>11. QED
  BY <1>9, <1>10

-----------------------------------------------------------------------------
(* A name that is accepted reads back.                                     *)

LEMMA WordIs ==
  ASSUME NEW S, NEW s \in Seq(S), NEW w \in 0 .. Len(s),
         \A i \in 1 .. w : s[i] # Space, w < Len(s) => s[w + 1] = Space
  PROVE  /\ WordOf(s) \in Seq(S) /\ Len(WordOf(s)) = w
         /\ \A i \in 1 .. w : WordOf(s)[i] = s[i]
<1>1. PICK v \in 0 .. Len(s) :
        /\ Len(WordOf(s)) = v
        /\ \A i \in 1 .. v : WordOf(s)[i] = s[i] /\ s[i] # Space
        /\ v < Len(s) => s[v + 1] = Space
  BY WordFacts
<1>2. Len(s) \in Nat /\ v \in Nat /\ w \in Nat /\ v <= Len(s) /\ w <= Len(s)
  BY <1>1
<1>3. ~ (v < w)
  <2>1. v < w => v + 1 \in 1 .. w /\ v < Len(s)
    BY <1>2
  <2>2. QED
    BY <2>1, <1>1
<1>4. ~ (w < v)
  <2>1. w < v => w + 1 \in 1 .. v /\ w < Len(s)
    BY <1>2
  <2>2. QED
    BY <2>1, <1>1
<1>5. v = w
  BY <1>2, <1>3, <1>4
<1>6. QED
  BY <1>1, <1>5, WordType

CapitalLetters == {Upper[c] : c \in DOMAIN Upper}

LEMMA PaddedFacts ==
  ASSUME NEW s \in Seq(DOMAIN Upper), NEW n \in Nat
  PROVE  /\ Padded(s, n) \in Seq(CapitalLetters) /\ Len(Padded(s, n)) = n
         /\ \A i \in 1 .. n : Padded(s, n)[i] = IF i <= Len(s) THEN Upper[s[i]] ELSE Space
<1>1. Space \in CapitalLetters
  BY CommandLineAssumption DEF CapitalLetters
<1>2. \A i \in 1 .. n : i <= Len(s) => Upper[s[i]] \in CapitalLetters
  BY DEF CapitalLetters
<1>3. QED
  BY <1>1, <1>2 DEF Padded

(* One of the two fields of a short name.                                  *)
LEMMA FieldReadsBack ==
  ASSUME NEW s \in Seq(DOMAIN Upper), NEW n \in Nat, Len(s) <= n,
         \A i \in 1 .. Len(s) : s[i] # Space
  PROVE  /\ WordOf(Padded(s, n)) \in Seq(CapitalLetters)
         /\ Len(WordOf(Padded(s, n))) = Len(s)
         /\ \A i \in 1 .. Len(s) : WordOf(Padded(s, n))[i] = Upper[s[i]]
<1> DEFINE r == Padded(s, n)
           w == Len(s)
<1>1. /\ r \in Seq(CapitalLetters) /\ Len(r) = n
      /\ \A i \in 1 .. n : r[i] = IF i <= w THEN Upper[s[i]] ELSE Space
  BY PaddedFacts
<1>2. w \in Nat /\ w <= n /\ \A i \in 1 .. w : s[i] \in DOMAIN Upper
  OBVIOUS
<1>3. \A i \in 1 .. w : Upper[s[i]] # Space
  BY <1>2, CommandLineAssumption
<1> HIDE DEF r, w
<1>4. \A i \in 1 .. w : r[i] = Upper[s[i]]
  BY <1>1, <1>2
<1>5. \A i \in 1 .. w : r[i] # Space
  BY <1>3, <1>4
<1>6. w < n => r[w + 1] = Space
  <2>1. w < n => w + 1 \in 1 .. n /\ ~ (w + 1 <= w)
    BY <1>2
  <2>2. QED
    BY <2>1, <1>1
<1>7. w \in 0 .. Len(r) /\ (w < Len(r) => r[w + 1] = Space)
  BY <1>1, <1>2, <1>6
<1>8. /\ WordOf(r) \in Seq(CapitalLetters) /\ Len(WordOf(r)) = w
      /\ \A i \in 1 .. w : WordOf(r)[i] = r[i]
  BY <1>1, <1>5, <1>7, WordIs
<1>9. QED
  BY <1>4, <1>8 DEF r, w

LEMMA BeforePoint ==
  ASSUME NEW S, NEW s \in Seq(S)
  PROVE  \E b \in 0 .. Len(s) :
           /\ Before(s, LAMBDA c : c = Point) = b
           /\ b < Len(s) => s[b + 1] = Point
<1> DEFINE N == Len(s)
           stops == {i \in 1 .. N : s[i] = Point}
           b == Passed(N, stops)
<1>1. Before(s, LAMBDA c : c = Point) = b
  <2>1. DOMAIN s = 1 .. N
    OBVIOUS
  <2>2. QED
    BY <2>1 DEF Before, Passed
<1>2. stops \in SUBSET (1 .. N) /\ N \in Nat
  OBVIOUS
<1>3. \A i \in 1 .. N : i \in stops <=> s[i] = Point
  OBVIOUS
<1> HIDE DEF stops, N
<1>4. b \in 0 .. N /\ (b < N => b + 1 \in stops)
  BY <1>2, PassedFacts
<1> HIDE DEF b
<1>5. b < N => s[b + 1] = Point
  BY <1>2, <1>3, <1>4
<1>6. QED
  BY <1>1, <1>4, <1>5 DEF N

(* Behind the end there is nothing.                                        *)
LEMMA FromBeyond ==
  ASSUME NEW S, NEW s \in Seq(S)
  PROVE  From(s, Len(s) + 1) \in Seq(S) /\ Len(From(s, Len(s) + 1)) = 0
<1> DEFINE a == Len(s) + 2
<1>1. /\ a \in Nat /\ Len(s) \in Nat /\ ~ (a <= Len(s))
      /\ From(s, Len(s) + 1) = SubSeq(s, a, Len(s))
  <2>1. (Len(s) + 1) + 1 = Len(s) + 2
    OBVIOUS
  <2>2. QED
    BY <2>1 DEF From
<1>2. \A i \in a .. Len(s) : s[i] \in S
  BY <1>1
<1>3. /\ SubSeq(s, a, Len(s)) \in Seq(S)
      /\ Len(SubSeq(s, a, Len(s))) = IF a <= Len(s) THEN Len(s) - a + 1 ELSE 0
  BY <1>1, <1>2, SubSeqProperties
<1>4. QED
  BY <1>1, <1>3

LEMMA NameReadsBack ==
  ASSUME NEW name \in Seq(DOMAIN Upper), Accepts(name),
         \A i \in 1 .. Len(name) : name[i] # Space
  PROVE  directory_get_name(directory_set_name(name)) = [i \in DOMAIN name |-> Upper[name[i]]]
<1> DEFINE S == DOMAIN Upper
           N == Len(name)
<1>1. PICK b \in 0 .. N :
        /\ Before(name, LAMBDA c : c = Point) = b
        /\ b < N => name[b + 1] = Point
  BY BeforePoint
<1> DEFINE base == Upto(name, b)
           extension == From(name, b + 1)
           e == Len(extension)
<1>2. N \in Nat /\ b \in Nat /\ b <= N
  BY <1>1
<1>3. base \in Seq(S) /\ Len(base) = b /\ \A i \in 1 .. b : base[i] = name[i]
  <2>1. /\ base \in Seq(S) /\ Len(base) = IF b < N THEN b ELSE N
        /\ \A i \in 1 .. Len(base) : base[i] = name[i]
    BY <1>2, UptoFacts
  <2> HIDE DEF base
  <2>2. Len(base) = b
    BY <1>2, <2>1
  <2>3. QED
    BY <2>1, <2>2
<1>4. /\ b \in 1 .. BaseSize
      /\ b < N => e \in 1 .. ExtensionSize
  <2>1. /\ Len(base) \in 1 .. BaseSize
        /\ Len(base) < N => Len(From(name, Len(base) + 1)) \in 1 .. ExtensionSize
    BY <1>1 DEF Accepts
  <2> HIDE DEF base
  <2>2. QED
    BY <1>3, <2>1
<1>5. /\ extension \in Seq(S)
      /\ e = IF b < N THEN N - (b + 1) ELSE 0
      /\ \A i \in 1 .. e : extension[i] = name[(b + 1) + i]
  <2>1. CASE b < N
    <3>1. b + 1 \in Nat /\ b + 1 <= N
      BY <1>2, <2>1
    <3>2. QED
      BY <2>1, <3>1, FromFacts
  <2>2. CASE b = N
    <3>1. extension \in Seq(S) /\ e = 0
      BY <2>2, FromBeyond
    <3> HIDE DEF extension, e
    <3>2. QED
      BY <1>2, <2>2, <3>1
  <2>3. QED
    BY <2>1, <2>2, <1>2
<1> DEFINE short == directory_set_name(name)
           left == Padded(base, BaseSize)
           right == Padded(extension, ExtensionSize)
<1>6. BaseSize \in Nat /\ BaseSize > 0 /\ ExtensionSize \in Nat /\ ExtensionSize > 0
  BY CommandLineAssumption
<1>7. short = left \o right
  <2>1. Len(base) = b
    BY <1>3
  <2> HIDE DEF base, extension
  <2>2. QED
    BY <2>1, <1>1 DEF directory_set_name, base, extension
<1>8. /\ left \in Seq(CapitalLetters) /\ Len(left) = BaseSize
      /\ right \in Seq(CapitalLetters) /\ Len(right) = ExtensionSize
      /\ \A i \in 1 .. ExtensionSize :
           right[i] = IF i <= e THEN Upper[extension[i]] ELSE Space
  BY <1>3, <1>5, <1>6, PaddedFacts
<1> DEFINE first == WordOf(left)
           second == WordOf(right)
<1>9. /\ first \in Seq(CapitalLetters) /\ Len(first) = b
      /\ \A i \in 1 .. b : first[i] = Upper[name[i]]
  <2>1. \A i \in 1 .. b : base[i] # Space /\ base[i] = name[i]
    BY <1>2, <1>3
  <2>2. Len(base) <= BaseSize /\ base \in Seq(S) /\ Len(base) = b
    BY <1>2, <1>3, <1>4, <1>6
  <2> HIDE DEF base
  <2>3. /\ WordOf(Padded(base, BaseSize)) \in Seq(CapitalLetters)
        /\ Len(WordOf(Padded(base, BaseSize))) = Len(base)
        /\ \A i \in 1 .. Len(base) : WordOf(Padded(base, BaseSize))[i] = Upper[base[i]]
    BY <1>6, <2>1, <2>2, FieldReadsBack
  <2>4. QED
    BY <2>1, <2>2, <2>3
<1>10. /\ second \in Seq(CapitalLetters) /\ Len(second) = e
       /\ \A i \in 1 .. e : second[i] = Upper[name[(b + 1) + i]]
  <2>1. e \in Nat /\ \A i \in 1 .. e : (b + 1) + i \in 1 .. N
    BY <1>2, <1>5
  <2>2. \A i \in 1 .. e : extension[i] # Space
    BY <2>1, <1>5
  <2>3. e <= ExtensionSize
    BY <1>4, <1>5, <1>6
  <2>4. extension \in Seq(S) /\ \A i \in 1 .. e : extension[i] = name[(b + 1) + i]
    BY <1>5
  <2> HIDE DEF extension
  <2>5. /\ WordOf(Padded(extension, ExtensionSize)) \in Seq(CapitalLetters)
        /\ Len(WordOf(Padded(extension, ExtensionSize))) = Len(extension)
        /\ \A i \in 1 .. Len(extension) :
             WordOf(Padded(extension, ExtensionSize))[i] = Upper[extension[i]]
    BY <1>6, <2>2, <2>3, <2>4, FieldReadsBack
  <2>6. QED
    BY <2>4, <2>5
<1>11. Upto(short, BaseSize) = left /\ From(short, BaseSize) = right
  <2> HIDE DEF left, right, short
  <2>1. /\ short \in Seq(CapitalLetters) /\ Len(short) = BaseSize + ExtensionSize
        /\ \A i \in 1 .. BaseSize + ExtensionSize :
             short[i] = IF i <= BaseSize THEN left[i] ELSE right[i - BaseSize]
    BY <1>7, <1>8, ConcatProperties
  <2>2. /\ Upto(short, BaseSize) \in Seq(CapitalLetters)
        /\ Len(Upto(short, BaseSize)) = IF BaseSize < Len(short) THEN BaseSize ELSE Len(short)
        /\ \A i \in 1 .. Len(Upto(short, BaseSize)) : Upto(short, BaseSize)[i] = short[i]
    BY <1>6, <2>1, UptoFacts
  <2>3. BaseSize <= Len(short)
    BY <1>6, <2>1
  <2>4. /\ From(short, BaseSize) \in Seq(CapitalLetters)
        /\ Len(From(short, BaseSize)) = Len(short) - BaseSize
        /\ \A i \in 1 .. Len(short) - BaseSize : From(short, BaseSize)[i] = short[BaseSize + i]
    <3>1. short \in Seq(CapitalLetters) /\ BaseSize \in Nat /\ BaseSize <= Len(short)
      BY <1>6, <2>1, <2>3
    <3>2. QED
      BY ONLY <3>1, FromFacts
  <2>5. Len(Upto(short, BaseSize)) = BaseSize /\ Len(From(short, BaseSize)) = ExtensionSize
    BY <1>6, <2>1, <2>2, <2>4
  <2>6. \A i \in 1 .. BaseSize : Upto(short, BaseSize)[i] = left[i]
    <3>1. \A i \in 1 .. BaseSize : i \in 1 .. BaseSize + ExtensionSize /\ i <= BaseSize
      BY <1>6
    <3>2. QED
      BY <3>1, <2>1, <2>2, <2>5
  <2>7. \A i \in 1 .. ExtensionSize : From(short, BaseSize)[i] = right[i]
    <3>1. \A i \in 1 .. ExtensionSize :
            /\ i \in 1 .. Len(short) - BaseSize
            /\ BaseSize + i \in 1 .. BaseSize + ExtensionSize
            /\ ~ (BaseSize + i <= BaseSize) /\ (BaseSize + i) - BaseSize = i
      BY <1>6, <2>1
    <3>2. QED
      BY <3>1, <2>1, <2>4
  <2>8. Upto(short, BaseSize) = left
    BY <1>8, <2>2, <2>5, <2>6, SeqEqual
  <2>9. From(short, BaseSize) = right
    BY <1>8, <2>4, <2>5, <2>7, SeqEqual
  <2>10. QED
    BY <2>8, <2>9
<1>12. right[1] = Space <=> e = 0
  <2>1. e \in Nat /\ 1 \in 1 .. ExtensionSize
    BY <1>2, <1>5, <1>6
  <2>2. CASE e = 0
    BY <2>1, <2>2, <1>8
  <2>3. CASE e # 0
    <3>1. 1 \in 1 .. e /\ 1 <= e /\ (b + 1) + 1 \in 1 .. N
      BY <1>2, <1>5, <2>1, <2>3
    <3>2. extension[1] = name[(b + 1) + 1] /\ right[1] = Upper[extension[1]]
      BY <2>1, <3>1, <1>5, <1>8
    <3>3. name[(b + 1) + 1] # Space /\ name[(b + 1) + 1] \in S
      BY <3>1
    <3>4. right[1] # Space
      BY <3>2, <3>3, CommandLineAssumption
    <3>5. QED
      BY <2>3, <3>4
  <2>4. QED
    BY <2>2, <2>3
<1> DEFINE whole == [i \in DOMAIN name |-> Upper[name[i]]]
           shown == first \o IF e = 0 THEN <<>> ELSE <<Point>> \o second
<1>13. directory_get_name(short) = shown
  <2>1. directory_get_name(short) =
          WordOf(Upto(short, BaseSize))
            \o IF From(short, BaseSize)[1] = Space THEN <<>>
               ELSE <<Point>> \o WordOf(From(short, BaseSize))
    BY DEF directory_get_name
  <2> HIDE DEF short, left, right, e
  <2>2. QED
    BY <2>1, <1>11, <1>12
<1>14. /\ whole \in Seq(CapitalLetters) /\ Len(whole) = N
       /\ \A i \in 1 .. N : whole[i] = Upper[name[i]]
  <2>1. \A i \in 1 .. N : Upper[name[i]] \in CapitalLetters
    BY DEF CapitalLetters
  <2>2. DOMAIN name = 1 .. N
    OBVIOUS
  <2>3. QED
    BY <2>1, <2>2
<1>15. Point \in CapitalLetters /\ Upper[Point] = Point
  BY CommandLineAssumption DEF CapitalLetters
<1> HIDE DEF first, second, whole
<1>16. CASE e = 0
  <2>1. b = N
    BY <1>2, <1>4, <1>16
  <2>2. shown = first
    <3>1. shown = first \o <<>>
      BY <1>16
    <3>2. QED
      BY <3>1, <1>9, ConcatEmptySeq
  <2> HIDE DEF shown
  <2>3. first = whole
    BY <2>1, <1>9, <1>14, SeqEqual
  <2>4. QED
    BY <2>2, <2>3, <1>13 DEF whole
<1>17. CASE e # 0
  <2> DEFINE tail == <<Point>> \o second
  <2>1. b < N /\ e = N - (b + 1)
    BY <1>2, <1>5, <1>17
  <2>2. shown = first \o tail
    BY <1>17
  <2> HIDE DEF shown, e
  <2>3. <<Point>> \in Seq(CapitalLetters) /\ Len(<<Point>>) = 1 /\ <<Point>>[1] = Point
    BY <1>15
  <2>4. /\ tail \in Seq(CapitalLetters) /\ Len(tail) = 1 + e
        /\ \A i \in 1 .. 1 + e : tail[i] = IF i <= 1 THEN <<Point>>[i] ELSE second[i - 1]
    BY <2>3, <1>10, ConcatProperties
  <2> HIDE DEF tail
  <2>5. /\ first \o tail \in Seq(CapitalLetters) /\ Len(first \o tail) = b + (1 + e)
        /\ \A i \in 1 .. b + (1 + e) :
             (first \o tail)[i] = IF i <= b THEN first[i] ELSE tail[i - b]
    <3>1. first \in Seq(CapitalLetters) /\ tail \in Seq(CapitalLetters)
      BY <2>4, <1>9
    <3>2. /\ first \o tail \in Seq(CapitalLetters) /\ Len(first \o tail) = Len(first) + Len(tail)
          /\ \A i \in 1 .. Len(first) + Len(tail) :
               (first \o tail)[i] = IF i <= Len(first) THEN first[i] ELSE tail[i - Len(first)]
      BY <3>1, ConcatProperties
    <3>3. Len(first) = b /\ Len(tail) = 1 + e
      BY <2>4, <1>9
    <3>4. QED
      BY ONLY <3>2, <3>3
  <2>6. b + (1 + e) = N /\ e \in Nat
    BY <1>2, <2>1
  <2>7. ASSUME NEW i \in 1 .. N  PROVE (first \o tail)[i] = whole[i]
    <3>1. whole[i] = Upper[name[i]] /\ i \in 1 .. b + (1 + e)
      BY <1>14, <2>6
    <3>2. CASE i <= b
      <4>1. i \in 1 .. b
        BY <1>2, <3>2
      <4>2. QED
        BY <4>1, <3>1, <3>2, <2>5, <1>9
    <3>3. CASE i = b + 1
      <4>1. i - b = 1 /\ ~ (i <= b) /\ 1 \in 1 .. 1 + e
        BY <1>2, <2>6, <3>3
      <4>2. tail[1] = Point
        BY <4>1, <2>3, <2>4
      <4>3. name[i] = Point
        BY <1>1, <2>1, <3>3
      <4>4. QED
        BY <4>1, <4>2, <4>3, <3>1, <2>5, <1>15
    <3>4. CASE i > b + 1
      <4>1. /\ ~ (i <= b) /\ i - b \in 1 .. 1 + e /\ ~ (i - b <= 1)
            /\ (i - b) - 1 \in 1 .. e /\ (b + 1) + ((i - b) - 1) = i
        BY <1>2, <2>6, <3>4
      <4>2. tail[i - b] = second[(i - b) - 1]
        BY <4>1, <2>4
      <4>3. second[(i - b) - 1] = Upper[name[i]]
        BY <4>1, <1>10
      <4>4. (first \o tail)[i] = tail[i - b]
        BY <4>1, <3>1, <2>5
      <4>5. QED
        BY <4>2, <4>3, <4>4, <3>1
    <3>5. i <= b \/ i = b + 1 \/ i > b + 1
      BY <1>2
    <3>6. QED
      BY ONLY <3>2, <3>3, <3>4, <3>5
  <2>8. first \o tail = whole
    <3>1. Len(first \o tail) = N
      BY <2>5, <2>6
    <3>2. QED
      BY <3>1, <2>5, <2>7, <1>14, SeqEqual
  <2>9. QED
    BY <2>2, <2>8, <1>13 DEF whole
<1>18. QED
  BY <1>16, <1>17

-----------------------------------------------------------------------------
(* A line whose command and arguments fit.                                 *)

LEMMA LineArguments ==
  ASSUME NEW S, NEW line \in Seq(S), Starts(line) # {},
         NEW first, first = Word(line, 1), Len(first) <= CommandSize,
         NEW behind, behind = Trimmed(From(Trimmed(line), Len(first))), Len(behind) <= ArgsSize
  PROVE  \E p : /\ Outside(line, p) /\ Rank(line, p) = 1
                /\ split_command(line).args = From(line, p)
<1> DEFINE t == Trimmed(line)
           N == Len(line)
<1>1. N \in Nat /\ CommandSize \in Nat /\ ArgsSize \in Nat
  BY CommandLineAssumption
<1>2. /\ From(line, 0) = line /\ Outside(line, 0) /\ Rank(line, 0) = 0
  <2>1. /\ From(line, 0) \in Seq(S) /\ Len(From(line, 0)) = N - 0
        /\ \A i \in 1 .. N - 0 : From(line, 0)[i] = line[0 + i]
    BY <1>1, FromFacts
  <2>2. N - 0 = N /\ \A i \in 1 .. N : 0 + i = i
    BY <1>1
  <2>3. From(line, 0) = line
    BY <2>1, <2>2, SeqEqual
  <2>4. Outside(line, 0)
    <3>1. 0 \in 0 .. N /\ 0 + 1 = 1
      BY <1>1
    <3>2. 0 < N => 1 \in DOMAIN line
      BY <1>1
    <3>3. 0 < N => line[1] = Space \/ 1 \in Starts(line)
      BY <3>2 DEF Starts
    <3>4. QED
      BY <3>1, <3>3 DEF Outside
  <2>5. {j \in Starts(line) : j <= 0} = {}
    BY DEF Starts
  <2>6. Rank(line, 0) = 0
    BY <2>5, FS_EmptySet DEF Rank
  <2>7. QED
    BY <2>3, <2>4, <2>6
<1>3. Cardinality(Starts(line)) # 0
  BY StartsFinite, FS_EmptySet
<1>4. PICK q \in 0 + 1 .. N :
        /\ t # <<>> /\ first = WordOf(t) /\ first \in Seq(S)
        /\ Outside(line, q) /\ Rank(line, q) = 0 + 1
        /\ From(t, Len(first)) = From(line, q)
  <2>1. t = Trimmed(From(line, 0)) /\ first = Word(line, Rank(line, 0) + 1)
    BY <1>2
  <2> HIDE DEF t
  <2>2. QED
    BY <1>2, <1>3, <2>1, NextWord
<1>5. behind = Trimmed(From(line, q)) /\ Rank(line, q) = 1 /\ q \in Nat
  BY <1>4
<1>6. split_command(line).args = behind
  <2>1. Upto(first, CommandSize) \in Seq(S) /\ Len(Upto(first, CommandSize)) = Len(first)
    <3>1. Len(first) \in Nat /\ first \in Seq(S)
      BY <1>4
    <3>2. /\ Upto(first, CommandSize) \in Seq(S)
          /\ Len(Upto(first, CommandSize)) = IF CommandSize < Len(first) THEN CommandSize ELSE Len(first)
      BY <1>1, <3>1, UptoFacts
    <3>3. QED
      BY <1>1, <3>1, <3>2
  <2>2. split_command(line).args = Upto(behind, ArgsSize)
    BY <2>1, <1>4 DEF split_command
  <2>3. behind \in Seq(S)
    <3>1. q <= Len(line)
      BY <1>4, <1>5
    <3>2. From(line, q) \in Seq(S)
      BY <1>5, <3>1, FromFacts
    <3>3. QED
      BY <1>5, <3>2, TrimmedType
  <2>4. Len(behind) \in Nat
    BY <2>3
  <2>5. /\ Upto(behind, ArgsSize) \in Seq(S)
        /\ Len(Upto(behind, ArgsSize)) = IF ArgsSize < Len(behind) THEN ArgsSize ELSE Len(behind)
        /\ \A i \in 1 .. Len(Upto(behind, ArgsSize)) : Upto(behind, ArgsSize)[i] = behind[i]
    BY <1>1, <2>3, UptoFacts
  <2>6. Len(Upto(behind, ArgsSize)) = Len(behind)
    BY <1>1, <2>4, <2>5
  <2>7. Upto(behind, ArgsSize) = behind
    BY <2>3, <2>5, <2>6, SeqEqual
  <2>8. QED
    BY <2>2, <2>7
<1>7. CASE behind = <<>> /\ \A j \in Starts(line) : j <= q
  <2>1. \A j \in Starts(line) : j \in Nat /\ j <= N
    BY DEF Starts
  <2>2. \A j \in Starts(line) : j <= q <=> j <= N
    BY <1>7, <2>1
  <2>3. Rank(line, N) = 1
    BY <1>5, <2>2, RankSame
  <2>4. Outside(line, N)
    BY <1>1 DEF Outside
  <2>5. From(line, N) = <<>>
    <3>1. From(line, N) \in Seq(S) /\ Len(From(line, N)) = N - N
      BY <1>1, FromFacts
    <3>2. QED
      BY <3>1, <1>1, EmptySeq
  <2>6. QED
    BY <1>6, <1>7, <2>3, <2>4, <2>5
<1>8. ASSUME NEW i \in Starts(line), i > q, behind = From(line, i - 1),
             \A j \in Starts(line) : j <= q \/ j >= i
      PROVE  Outside(line, i - 1) /\ Rank(line, i - 1) = 1
  <2>1. i \in 1 .. N /\ \A j \in Starts(line) : j \in Nat
    BY DEF Starts
  <2>2. \A j \in Starts(line) : j <= q <=> j <= i - 1
    BY <1>5, <1>8, <2>1
  <2>3. Rank(line, i - 1) = 1
    BY <1>5, <2>2, RankSame
  <2>4. (i - 1) + 1 = i /\ i - 1 \in 0 .. N
    BY <1>1, <2>1
  <2>5. QED
    BY <2>3, <2>4 DEF Outside
<1>9. QED
  BY <1>4, <1>5, <1>6, <1>7, <1>8, NextStart

(* split_command, get_next_argument, directory_set_name and                *)
(* directory_get_name: of every line whose command and arguments fit into  *)
(* their buffers, however long, the names are the words behind the         *)
(* command, in order, each cut to its buffer, and a name that is accepted  *)
(* reads back in upper case; for all sizes of the buffers and the fields.  *)
THEOREM WordsAreKept == Spec => []WordsBecomeNames
<1>1. ASSUME NEW line \in Lines, FitsBuffers(line)
      PROVE  AreArguments(line, Arguments(split_command(line).args))
  <2>1. line \in Seq(DOMAIN Upper)
    BY CommandLineAssumption DEF Lines
  <2>2. PICK p : /\ Outside(line, p) /\ Rank(line, p) = 1
                 /\ split_command(line).args = From(line, p)
    BY <1>1, <2>1, LineArguments DEF FitsBuffers
  <2> DEFINE names == Arguments(From(line, p))
  <2>3. names \in Seq(Seq(DOMAIN Upper)) /\ AllTaken(line, names)
    BY <2>1, <2>2, ArgumentsAreWords
  <2> HIDE DEF names
  <2>4. ASSUME NEW k \in 1 .. Len(names), Accepts(names[k])
        PROVE  directory_get_name(directory_set_name(names[k])) =
                 [i \in DOMAIN names[k] |-> Upper[names[k][i]]]
    <3>1. names[k] \in Seq(DOMAIN Upper) /\ \A m \in 1 .. Len(names[k]) : names[k][m] # Space
      BY <2>3 DEF AllTaken
    <3>2. QED
      BY <2>4, <3>1, NameReadsBack
  <2>5. DOMAIN names = 1 .. Len(names)
    BY <2>3
  <2>6. names = Arguments(split_command(line).args)
    BY <2>2 DEF names
  <2>7. \A k \in DOMAIN names :
          /\ names[k] = Upto(Word(line, k + 1), NameSize)
          /\ Accepts(names[k]) =>
               directory_get_name(directory_set_name(names[k])) =
                 [i \in DOMAIN names[k] |-> Upper[names[k][i]]]
    BY <2>3, <2>4, <2>5 DEF AllTaken
  <2>8. AreArguments(line, names)
    BY <2>3, <2>7 DEF AreArguments, AllTaken
  <2>9. QED
    BY <2>6, <2>8
<1>2. LinesBecomeNames
  BY <1>1 DEF LinesBecomeNames
<1>3. QED
  BY <1>2, PTL DEF WordsBecomeNames
=============================================================================
