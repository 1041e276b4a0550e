------------------------------- MODULE Memory -------------------------------
(***************************************************************************)
(* Physical frames and what is built from them: the frame allocator        *)
(* (kernel/memory/pmm.c), address spaces (kernel/memory/address_space.c)   *)
(* and the page tables of kernel/memory/vmm.c.  Threads run these          *)
(* functions with interrupts enabled.  The allocator's test of a frame and *)
(* its update of the bitmap are separate steps, and the update reads and   *)
(* writes a byte; a thread is preempted between them where Preempt says,   *)
(* and between any two calls.                                              *)
(***************************************************************************)
EXTENDS Integers, Sequences, FiniteSets

CONSTANTS
  Caller,       \* threads
  Regions,      \* the memory map: records of base, length and usable
  PageSize,
  KernelStart, KernelEnd,
  PerByte,      \* the frames of one byte of the bitmap
  Index,        \* the page directory's user entries, 1 and up
  Shared,       \* may two threads be in one address space?
  Preempt,
  Live          \* bound: the address spaces alive and the pages one thread holds

-----------------------------------------------------------------------------
(* pmm_init.                                                               *)

RoundUp(n) == (n + PageSize - 1) \div PageSize

EndOf(r) == r.base + r.length

(* Up to the end of the highest region.                                    *)
TotalFrames ==
  RoundUp(CHOOSE e \in {EndOf(r) : r \in Regions} : \A r \in Regions : EndOf(r) <= e)

Frame == 0 .. TotalFrames - 1

(* Mutant: a frame that the range ends in is left out.                     *)
WholeFramesOf(base, end) == (base \div PageSize) .. (end \div PageSize - 1)

FramesOf(base, end) == (base \div PageSize) .. (RoundUp(end) - 1)

(* The frames of the usable regions, those they only touch included, but   *)
(* for the kernel's and frame 0.                                           *)
FreeAtBoot ==
  (Frame \cap (UNION {FramesOf(r.base, EndOf(r)) : r \in {q \in Regions : q.usable}}))
    \ (FramesOf(KernelStart, KernelEnd) \cup {0})

ByteOf(f) == {g \in Frame : g \div PerByte = f \div PerByte}

ASSUME MemoryAssumption ==
  /\ PageSize \in Nat \ {0} /\ PerByte \in Nat \ {0} /\ Live \in Nat
  /\ \A r \in Regions : r.base \in Nat /\ r.length \in Nat
  /\ KernelStart \in Nat /\ KernelEnd \in Nat
  /\ Index \subseteq Nat \ {0} /\ IsFiniteSet(Index)
  /\ Shared \in BOOLEAN
  /\ Preempt \subseteq {"tested", "loaded"}

-----------------------------------------------------------------------------

VARIABLES
  bitmap,    \* the frames whose bit in frame_bitmap is set
  spaces,    \* the address spaces that exist, by the frame of address_space_t:
             \* the frame of the directory and page_tables, 0 for no table
  active,    \* the address space each thread runs in, 0 for the kernel's
  pages,     \* the frames each thread got from pmm_alloc_frame itself
  call       \* what each thread is doing: where it is, what a frame that it
             \* allocates is for (and what it has allocated already), the
             \* frames it has to free, and what it has read of the bitmap

vars == <<bitmap, spaces, active, pages, call>>

Idle ==
  [pc |-> "idle", for |-> "none", space |-> 0, index |-> 0, todo |-> <<>>, frame |-> 0, byte |-> {}]

Init ==
  /\ bitmap = Frame \ FreeAtBoot
  /\ spaces = [s \in {} |-> 0]
  /\ active = [c \in Caller |-> 0]
  /\ pages = [c \in Caller |-> {}]
  /\ call = [c \in Caller |-> Idle]

MayRun(c) ==
  \A d \in Caller \ {c} : call[d].pc \notin {"tested", "loaded"} \ Preempt

At(c, pc) == MayRun(c) /\ call[c].pc = pc
Set(c, value) == call' = [call EXCEPT ![c] = value]

(* A call of pmm_alloc_frame, and what its result is for.                  *)
Allocating(for, space, index) ==
  [Idle EXCEPT !.pc = "scan", !.for = for, !.space = space, !.index = index]

(* Calls of pmm_free_frame, one for each frame of s.                       *)
Freeing(s) == IF s = <<>> THEN Idle ELSE [Idle EXCEPT !.pc = "free", !.todo = s]

-----------------------------------------------------------------------------
(* The callers.                                                            *)

address_space_create(c) ==
  /\ At(c, "idle") /\ Cardinality(DOMAIN spaces) < Live
  /\ Set(c, Allocating("space", 0, 0))
  /\ UNCHANGED <<bitmap, spaces, active, pages>>

(* A thread of the process runs in the process's address space.            *)
address_space_activate(c, s) ==
  /\ At(c, "idle")
  /\ s # 0 /\ ~ Shared => \A d \in Caller \ {c} : active[d] # s
  /\ active' = [active EXCEPT ![c] = s]
  /\ UNCHANGED <<bitmap, spaces, pages, call>>

(* The elements of a set of numbers from the least to the greatest.        *)
InOrder(S) ==
  CHOOSE q \in [1 .. Cardinality(S) -> S] : \A m, n \in DOMAIN q : m < n => q[m] < q[n]

(* Mutant: the page tables are not given back.                             *)
NoTableFrames(s) == <<>>

TableFrames(s) ==
  LET q == InOrder({i \in Index : spaces[s].table[i] # 0}) IN
  [n \in DOMAIN q |-> spaces[s].table[q[n]]]

(* page_tables, the directory and the address_space_t go back one by one.  *)
(* A process is destroyed when it has no thread: nobody is in s.           *)
address_space_destroy(c, s) ==
  /\ At(c, "idle")
  /\ \A d \in Caller : active[d] # s
  /\ Set(c, Freeing(TableFrames(s) \o <<spaces[s].dir, s>>))
  /\ spaces' = [t \in DOMAIN spaces \ {s} |-> spaces[t]]
  /\ UNCHANGED <<bitmap, active, pages>>

(* vmm_map_page of an address whose table does not exist yet.  With a      *)
(* table the call only writes its entry.                                   *)
vmm_map_page(c, i) ==
  /\ At(c, "idle") /\ active[c] # 0
  /\ spaces[active[c]].table[i] = 0
  /\ Set(c, Allocating("table", active[c], i))
  /\ UNCHANGED <<bitmap, spaces, active, pages>>

AllocPage(c) ==
  /\ At(c, "idle") /\ Cardinality(pages[c]) < Live
  /\ Set(c, Allocating("page", 0, 0))
  /\ UNCHANGED <<bitmap, spaces, active, pages>>

FreePage(c, f) ==
  /\ At(c, "idle") /\ f \in pages[c]
  /\ pages' = [pages EXCEPT ![c] = @ \ {f}]
  /\ Set(c, Freeing(<<f>>))
  /\ UNCHANGED <<bitmap, spaces, active>>

-----------------------------------------------------------------------------
(* pmm_alloc_frame.                                                        *)

(* The scan finds the first clear bit, or none.  Without a directory       *)
(* address_space_create gives the other frame back.                        *)
Scan(c) ==
  /\ At(c, "scan")
  /\ IF bitmap = Frame
       THEN Set(c, IF call[c].for = "dir" THEN Freeing(<<call[c].space>>) ELSE Idle)
       ELSE Set(c, [call[c] EXCEPT
                      !.pc = "tested",
                      !.frame = CHOOSE f \in Frame \ bitmap : \A g \in Frame \ bitmap : f <= g])
  /\ UNCHANGED <<bitmap, spaces, active, pages>>

(* bitmap_set and bitmap_reset read a byte of the bitmap ...               *)
Load(c) ==
  /\ \/ /\ At(c, "tested")
        /\ LET f == call[c].frame IN
             Set(c, [call[c] EXCEPT !.pc = "loaded", !.byte = (bitmap \cap ByteOf(f)) \cup {f}])
     \/ /\ At(c, "free")
        /\ LET f == Head(call[c].todo) IN
             Set(c, [call[c] EXCEPT !.pc = "loaded", !.frame = f,
                                    !.byte = (bitmap \cap ByteOf(f)) \ {f}])
  /\ UNCHANGED <<bitmap, spaces, active, pages>>

(* ... and write it back, and the call goes on.                            *)
StoreByte(c) ==
  /\ At(c, "loaded")
  /\ bitmap' = (bitmap \ ByteOf(call[c].frame)) \cup call[c].byte

IsFree(c) == call[c].todo # <<>>

NoTables == [i \in Index |-> 0]

(* The new frame becomes what it was allocated for.                        *)
Got(c) ==
  LET f == call[c].frame
      s == call[c].space IN
  /\ StoreByte(c) /\ ~ IsFree(c)
  /\ \/ /\ call[c].for = "space"
        /\ Set(c, [Idle EXCEPT !.pc = "heap", !.space = f])
        /\ UNCHANGED <<spaces, pages>>
     \/ /\ call[c].for = "dir"
        /\ spaces' = [t \in DOMAIN spaces \cup {s} |->
                        IF t = s THEN [dir |-> f, table |-> NoTables] ELSE spaces[t]]
        /\ Set(c, Idle) /\ UNCHANGED pages
     \/ /\ call[c].for = "table"
        /\ spaces' = [spaces EXCEPT ![s].table[call[c].index] = f]
        /\ Set(c, Idle) /\ UNCHANGED pages
     \/ /\ call[c].for = "page"
        /\ pages' = [pages EXCEPT ![c] = @ \cup {f}]
        /\ Set(c, Idle) /\ UNCHANGED spaces
  /\ UNCHANGED active

Freed(c) ==
  /\ StoreByte(c) /\ IsFree(c)
  /\ Set(c, Freeing(Tail(call[c].todo)))
  /\ UNCHANGED <<spaces, active, pages>>

(* address_space_create's kmalloc of page_tables.                          *)
AllocTables(c) ==
  /\ At(c, "heap")
  /\ \/ Set(c, Allocating("dir", call[c].space, 0))
     \/ Set(c, Freeing(<<call[c].space>>))
  /\ UNCHANGED <<bitmap, spaces, active, pages>>

-----------------------------------------------------------------------------

Next ==
  \E c \in Caller :
    \/ address_space_create(c) \/ AllocPage(c)
    \/ \E s \in DOMAIN spaces \cup {0} : address_space_activate(c, s)
    \/ \E s \in DOMAIN spaces : address_space_destroy(c, s)
    \/ \E i \in Index : vmm_map_page(c, i)
    \/ \E f \in pages[c] : FreePage(c, f)
    \/ Scan(c) \/ Load(c) \/ Got(c) \/ Freed(c) \/ AllocTables(c)

Spec == Init /\ [][Next]_vars

-----------------------------------------------------------------------------

(* Who has a frame, and as what: a call that allocates or frees it, an     *)
(* address space, or a thread.                                             *)
CallUses(c, k) ==
  {<<"todo", c, n, k.todo[n]>> : n \in DOMAIN k.todo}
    \cup (IF k.pc = "heap" \/ k.for = "dir" THEN {<<"new", c, 0, k.space>>} ELSE {})

SpaceUses(s, a) ==
  {<<"space", s, 0, s>>, <<"dir", s, 0, a.dir>>}
    \cup {<<"table", s, i, a.table[i]>> : i \in {j \in Index : a.table[j] # 0}}

PageUses(c, p) == {<<"page", c, f, f>> : f \in p}

Uses ==
  (UNION {SpaceUses(s, spaces[s]) : s \in DOMAIN spaces})
    \cup (UNION {PageUses(c, pages[c]) \cup CallUses(c, call[c]) : c \in Caller})

(* No frame is given out twice: two address spaces share no directory and  *)
(* no page table, and no page of a thread is one of them.                  *)
FramesUnique == \A u, v \in Uses : u[4] = v[4] => u = v

(* No frame leaks and none is in use while the allocator takes it for      *)
(* free: the bits set since boot are those of the frames in use.           *)
Used == {u[4] : u \in Uses}

FramesAccounted ==
  (\A c \in Caller : call[c].pc # "loaded" \/ IsFree(c)) =>
    bitmap = (Frame \ FreeAtBoot) \cup Used

BytesOf(f) == f * PageSize .. (f + 1) * PageSize - 1

(* A frame that is given out is not frame 0, holds no byte of the kernel's *)
(* image, and holds some usable memory.                                    *)
KernelSpared ==
  \A u \in Uses :
    /\ u[4] # 0
    /\ BytesOf(u[4]) \cap (KernelStart .. KernelEnd - 1) = {}
    /\ \E r \in Regions :
         r.usable /\ BytesOf(u[4]) \cap (r.base .. EndOf(r) - 1) # {}

(* Whoever has a frame has it alone: no one else was given it, and the     *)
(* kernel is not in it.                                                    *)
FramesExclusive == FramesUnique /\ KernelSpared

-----------------------------------------------------------------------------
(* Why: with no switch inside the allocator and a process to each thread,  *)
(* the bitmap is what is in use, and a call knows what it is about to do.  *)

CarefulUse ==
  /\ Preempt = {} /\ ~ Shared
  /\ \A r \in Regions : r.usable => r.length > 0

Call ==
  [pc : {"idle", "scan", "tested", "loaded", "free", "heap"},
   for : {"none", "space", "dir", "table", "page"},
   space : Nat, index : Nat, todo : Seq(Frame), frame : Nat, byte : SUBSET Frame]

Space == [dir : Frame, table : [Index -> Nat]]

TypeOK ==
  /\ bitmap \subseteq Frame
  /\ DOMAIN spaces \subseteq Frame /\ spaces \in [DOMAIN spaces -> Space]
  /\ active \in [Caller -> Nat]
  /\ pages \in [Caller -> SUBSET Frame]
  /\ call \in [Caller -> Call]

InAllocator(c) == call[c].pc \in {"tested", "loaded"}

(* What each place in a call goes with.                                    *)
Shaped(k) ==
  /\ k.pc = "idle" => k = Idle
  /\ k.pc = "free" => k.todo # <<>>
  /\ k.todo # <<>> => k.pc \in {"free", "loaded"} /\ k.for = "none"
  /\ k.pc \in {"scan", "tested", "loaded"} => (k.todo # <<>> <=> k.for = "none")
  /\ k.pc = "heap" => k.for = "none"

(* What a call has read of the bitmap is still so.                         *)
UpToDate(k, bits) ==
  k.pc \in {"tested", "loaded"} =>
    /\ k.todo # <<>> => /\ k.pc = "loaded" /\ k.frame = Head(k.todo)
                        /\ k.byte = (bits \cap ByteOf(k.frame)) \ {k.frame}
    /\ k.todo = <<>> => /\ k.frame \in Frame \ bits
                        /\ k.pc = "loaded" =>
                             k.byte = (bits \cap ByteOf(k.frame)) \cup {k.frame}

(* One thread at a time is inside.                                         *)
CallsAgree ==
  /\ \A c \in Caller : Shaped(call[c]) /\ UpToDate(call[c], bitmap)
  /\ \A c, d \in Caller : InAllocator(c) /\ InAllocator(d) => c = d

(* A thread runs in an address space that exists, and nobody else does; a  *)
(* table that it is about to create is still missing.                      *)
OwnSpaces ==
  /\ \A c \in Caller :
       /\ active[c] \in DOMAIN spaces \cup {0}
       /\ call[c].for = "table" =>
            /\ call[c].space = active[c] /\ active[c] # 0
            /\ call[c].index \in Index /\ spaces[active[c]].table[call[c].index] = 0
  /\ \A c, d \in Caller : c # d => active[c] # active[d] \/ active[c] = 0

(* The bits that are set, and no frame that was not free at boot in use.   *)
BitmapAgrees ==
  /\ bitmap = (Frame \ FreeAtBoot) \cup Used
  /\ Used \subseteq FreeAtBoot

IInv == TypeOK /\ CallsAgree /\ OwnSpaces /\ FramesUnique /\ BitmapAgrees
=============================================================================
