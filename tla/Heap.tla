-------------------------------- MODULE Heap --------------------------------
(***************************************************************************)
(* The kernel heap (kernel/memory/heap.c): an array of blocks, each behind *)
(* its header, allocated first fit; a block is never split or merged.      *)
(* Threads call kmalloc with interrupts enabled, so that a thread can be   *)
(* preempted where Preempt says: between finding a free block and taking   *)
(* it ("take"), or between reading heap_offset and moving it ("grow").     *)
(***************************************************************************)
EXTENDS Integers, FiniteSets

CONSTANTS
  Caller,     \* threads that allocate
  Request,    \* the sizes they ask for
  HeapSize,   \* HEAP_SIZE
  Header,     \* sizeof(heap_block_t)
  Align,      \* the 8 of the rounding
  Live,       \* bound: the blocks one caller holds
  Preempt

ASSUME HeapAssumption ==
  /\ HeapSize \in Nat /\ Header \in Nat \ {0} /\ Align \in Nat \ {0}
  /\ Request \subseteq 1 .. HeapSize
  /\ Live \in Nat
  /\ Preempt \subseteq {"take", "grow"}

VARIABLES
  header,       \* the headers in kernel_heap, at their offsets
  heap_offset,
  held,         \* the pointers a caller got and has not freed, as offsets of
                \* their headers, with the size it asked for
  call,         \* what each caller is doing inside kmalloc
  peak          \* the most blocks that were held at a time

vars == <<header, heap_offset, held, call, peak>>

Offset == 0 .. HeapSize - 1
Idle == [pc |-> "idle"]

Init ==
  /\ header = [o \in Offset |-> [size |-> 0, free |-> FALSE]]
  /\ heap_offset = 0
  /\ held = [c \in Caller |-> {}]
  /\ call = [c \in Caller |-> Idle]
  /\ peak = 0

(* A caller that was preempted outside of a window of Preempt is not       *)
(* there: everybody else waits for one that is inside kmalloc.             *)
MayRun(c) ==
  \A d \in Caller \ {c} : call[d].pc = "idle" \/ call[d].pc \in Preempt

Rounded(n) == ((n + Align - 1) \div Align) * Align

After(o) == IF o \in Offset THEN o + Header + header[o].size ELSE o

(* The offsets that the loop of kmalloc has reached after n blocks.        *)
Reached[n \in 0 .. HeapSize] ==
  IF n = 0 THEN {0}
  ELSE LET before == Reached[n - 1] IN before \cup {After(o) : o \in before}

(* The offsets of the headers that the loop of kmalloc visits.             *)
Visited == {o \in Reached[heap_offset \div Header] : o < heap_offset}

(* Mutants: a block that is too small fits; one of the same size does not. *)
FittingAny(size) == {o \in Visited : header[o].free}
FittingLarger(size) == {o \in Visited : header[o].free /\ header[o].size > size}

Fitting(size) == {o \in Visited : header[o].free /\ header[o].size >= size}

Held == UNION {held[c] : c \in Caller}

Got(c, o) ==
  /\ held' = [held EXCEPT ![c] = @ \cup {[at |-> o, size |-> call[c].asked]}]
  /\ peak' = IF Cardinality(Held) + 1 > peak THEN Cardinality(Held) + 1 ELSE peak
  /\ call' = [call EXCEPT ![c] = Idle]

(* kmalloc up to the end of its loop: the first free block that is large   *)
(* enough, or none.                                                        *)
Malloc(c, n) ==
  /\ MayRun(c) /\ call[c] = Idle /\ Cardinality(held[c]) < Live
  /\ LET fit == Fitting(Rounded(n)) IN
       call' = [call EXCEPT ![c] =
         IF fit # {}
           THEN [pc |-> "take", asked |-> n,
                 at |-> CHOOSE o \in fit : \A p \in fit : o <= p]
           ELSE [pc |-> "grow", asked |-> n, at |-> heap_offset]]
  /\ UNCHANGED <<header, heap_offset, held, peak>>

Take(c) ==
  /\ MayRun(c) /\ call[c].pc = "take"
  /\ header' = [header EXCEPT ![call[c].at].free = FALSE]
  /\ Got(c, call[c].at)
  /\ UNCHANGED heap_offset

(* A new block behind the last one, or a null pointer.                     *)
Grow(c) ==
  /\ MayRun(c) /\ call[c].pc = "grow"
  /\ LET size == Rounded(call[c].asked) IN
       IF call[c].at + Header + size > HeapSize
         THEN /\ call' = [call EXCEPT ![c] = Idle]
              /\ UNCHANGED <<header, heap_offset, held, peak>>
         ELSE /\ header' = [header EXCEPT ![call[c].at] = [size |-> size, free |-> FALSE]]
              /\ heap_offset' = heap_offset + Header + size
              /\ Got(c, call[c].at)

(* Mutant: the header is not marked.                                       *)
kfreeUnmarked(c, b) ==
  /\ MayRun(c) /\ call[c] = Idle /\ b \in held[c]
  /\ held' = [held EXCEPT ![c] = @ \ {b}]
  /\ UNCHANGED <<header, heap_offset, call, peak>>

kfree(c, b) ==
  /\ MayRun(c) /\ call[c] = Idle /\ b \in held[c]
  /\ header' = [header EXCEPT ![b.at].free = TRUE]
  /\ held' = [held EXCEPT ![c] = @ \ {b}]
  /\ UNCHANGED <<heap_offset, call, peak>>

Next ==
  \E c \in Caller :
    \/ \E n \in Request : Malloc(c, n)
    \/ Take(c) \/ Grow(c)
    \/ \E b \in held[c] : kfree(c, b)

Spec == Init /\ [][Next]_vars

-----------------------------------------------------------------------------

(* The memory a pointer stands for: its header and the bytes asked for.    *)
Extent(b) == b.at .. b.at + Header + b.size - 1

(* What callers hold never overlaps, headers included, lies in the heap,   *)
(* and is marked as taken in headers that the loop of kmalloc visits.      *)
Exclusive ==
  /\ \A c, d \in Caller : \A a \in held[c], b \in held[d] :
       (a # b \/ c # d) => Extent(a) \cap Extent(b) = {}
  /\ \A b \in Held :
       /\ Extent(b) \subseteq Offset
       /\ b.at \in Visited /\ ~ header[b.at].free /\ header[b.at].size >= b.size

(* The blocks fill the heap up to heap_offset without a gap, so that a     *)
(* freed block is always found again: none is lost.                        *)
BlocksFill ==
  /\ \A o \in Visited : After(o) = heap_offset \/ After(o) \in Visited
  /\ \A o \in Visited : header[o].free <=> ~ \E b \in Held : b.at = o

(* Churn does not use up the heap, although a small request may occupy a   *)
(* large block and blocks are never split or merged: there are never more  *)
(* blocks of one size than there were blocks in use at a time.             *)
ChurnBounded ==
  \A n \in Request :
    Cardinality({o \in Visited : header[o].size = Rounded(n)}) <= peak

-----------------------------------------------------------------------------
(* Why: with no switch inside kmalloc, the heap is a chain of blocks, each *)
(* free or with one holder, and a call has found what it is about to take. *)

CarefulUse == Preempt = {}

TypeOK ==
  /\ header \in [Offset -> [size : Nat, free : BOOLEAN]]
  /\ heap_offset \in 0 .. HeapSize
  /\ held \in [Caller -> SUBSET [at : Offset, size : Request]]
  /\ call \in [Caller -> [pc : {"idle"}]
                            \cup [pc : {"take", "grow"}, asked : Request, at : 0 .. HeapSize]]

(* The blocks follow each other, and the last ends at heap_offset.         *)
Chained ==
  \A o \in Visited :
    /\ After(o) <= heap_offset
    /\ \A p \in Visited : o < p => After(o) <= p

(* A taken block is large enough, and has one holder.                      *)
HeldAgree ==
  /\ \A c \in Caller : \A b \in held[c] :
       b.at \in Visited /\ ~ header[b.at].free /\ header[b.at].size >= b.size
  /\ \A o \in Visited : ~ header[o].free => \E c \in Caller : \E b \in held[c] : b.at = o
  /\ \A c, d \in Caller : \A a \in held[c], b \in held[d] : a.at = b.at => a = b /\ c = d

(* One call at a time, and what it has found is still so.                  *)
CallsAgree ==
  \A c \in Caller : call[c].pc # "idle" =>
    /\ \A d \in Caller \ {c} : call[d] = Idle
    /\ call[c].pc = "grow" => call[c].at = heap_offset /\ Fitting(Rounded(call[c].asked)) = {}
    /\ call[c].pc = "take" => /\ call[c].at \in Visited
                              /\ header[call[c].at].free
                              /\ header[call[c].at].size >= call[c].asked

IInv == TypeOK /\ Chained /\ HeldAgree /\ CallsAgree

(* A size gets a new block only when all blocks of that size are held.     *)
PeakAgrees == peak \in Nat /\ Cardinality(Held) <= peak /\ ChurnBounded
=============================================================================
