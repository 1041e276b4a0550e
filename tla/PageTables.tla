----------------------------- MODULE PageTables -----------------------------
(***************************************************************************)
(* Page directories and page tables (kernel/memory/vmm.c, paging.c and     *)
(* address_space.c) as entries in physical frames, and the processor that  *)
(* reads them: CR3, the walk of a page's translation, and the TLB, which   *)
(* it may fill at any time.  An entry is the frame it names, or 0 when it  *)
(* is not present.  The kernel reaches a frame at the frame's own address, *)
(* so its stores are translated like any other.                            *)
(***************************************************************************)
EXTENDS Integers, FiniteSets, FiniteSetsExt

CONSTANTS
  Thread,
  Entries,            \* entries of a directory and of a table: 1024
  KernelDirectory, FirstTable,   \* the frames of paging.c's two arrays
  Pool,               \* the frames pmm_alloc_frame has to give
  Data,               \* the frames that callers map
  KernelSpace,        \* the first page above the addresses of processes
  MapInput,           \* pairs of a page and a frame to map it to
  UnmapInput,         \* pages to unmap
  MaxSpaces,          \* bound: address spaces besides the kernel's
  Preempt             \* the steps of vmm_map_page that the timer may come before

(* The frames that hold entries.                                           *)
Frame == {KernelDirectory, FirstTable} \cup Pool
VPage == {m[1] : m \in MapInput} \cup UnmapInput

vmm_is_user_address(v) == v >= Entries /\ v < KernelSpace

ASSUME PageTablesAssumption ==
  /\ Entries \in Nat \ {0} /\ KernelSpace \in Nat /\ MaxSpaces \in Nat
  /\ Pool \cup Data \subseteq Nat \ {0, KernelDirectory, FirstTable}
  /\ Pool \cap Data = {} /\ KernelDirectory # FirstTable
  /\ {KernelDirectory, FirstTable} \subseteq 1 .. Entries - 1
  /\ MapInput \subseteq Nat \X Data /\ VPage \subseteq 0 .. Entries * Entries - 1
  /\ Preempt \subseteq {"create", "store", "flush"}

VARIABLES
  mem,      \* the entries in each frame
  tables,   \* page_tables of every address space, which is known by its directory
  free,     \* the frames of the pool that are not allocated
  current,  \* current_address_space
  cr3,
  tlb,      \* pairs of a page and a frame
  running,  \* the thread that has the CPU; Nobody after a page fault
  home,     \* the address space of each thread's process
  call      \* what each thread is doing

vars == <<mem, tables, free, current, cr3, tlb, running, home, call>>

Nobody == "nobody"
Idle == [pc |-> "idle"]
Zeros == [i \in 0 .. Entries - 1 |-> 0]

DirIndex(v) == v \div Entries
TableIndex(v) == v % Entries

-----------------------------------------------------------------------------
(* The processor.                                                          *)

WalkFrom(dir, v) ==
  LET table == mem[dir][DirIndex(v)] IN IF table = 0 THEN 0 ELSE mem[table][TableIndex(v)]

(* The frame that a store to the address of frame f goes to.               *)
Reached(f) == WalkFrom(cr3, f)

(* It may keep a translation whenever it likes.  (Those of the low pages   *)
(* never change.)                                                          *)
Fill ==
  /\ running # Nobody
  /\ \E v \in VPage :
       /\ v >= Entries /\ WalkFrom(cr3, v) # 0
       /\ tlb' = tlb \cup {<<v, WalkFrom(cr3, v)>>}
  /\ UNCHANGED <<mem, tables, free, current, cr3, running, home, call>>

(* paging_init: the low pages are mapped to the frames of the same number, *)
(* but for the first.                                                      *)
IdentityTable == [i \in 0 .. Entries - 1 |-> i]

BootDirectory == [Zeros EXCEPT ![0] = FirstTable]

Init ==
  /\ mem = [[f \in Frame |-> Zeros] EXCEPT ![KernelDirectory] = BootDirectory,
                                            ![FirstTable] = IdentityTable]
  /\ tables = [s \in {KernelDirectory} |-> BootDirectory]
  /\ free = Pool
  /\ current = KernelDirectory /\ cr3 = KernelDirectory
  /\ tlb = {}
  /\ running \in Thread
  /\ home = [t \in Thread |-> KernelDirectory]
  /\ call = [t \in Thread |-> Idle]

-----------------------------------------------------------------------------
(* Threads.                                                                *)

At(t, pc) == running = t /\ call[t].pc = pc
Set(t, value) == call' = [call EXCEPT ![t] = value]

(* A step that stores to a frame without a translation ends in             *)
(* page_fault_handler, which stops the machine.                            *)
Faults(frames) == \E f \in frames : Reached(f) = 0

page_fault_handler ==
  running' = Nobody /\ UNCHANGED <<mem, tables, free, current, cr3, tlb, home, call>>

(* A load of CR3 empties the TLB.                                          *)
address_space_activate(s) == cr3' = s /\ current' = s /\ tlb' = {}

(* The scheduler goes on with another thread, and loads its address space  *)
(* when the process is another one.                                        *)
Switch(t) ==
  /\ running \in Thread \ {t}
  /\ call[running].pc \in {"idle"} \cup Preempt
  /\ running' = t
  /\ IF home[t] = home[running] THEN UNCHANGED <<current, cr3, tlb>>
                                ELSE address_space_activate(home[t])
  /\ UNCHANGED <<mem, tables, free, home, call>>

(* A thread of some process ends, and the slot is used for one of another. *)
Restart(t, s) ==
  /\ running \in Thread \ {t} /\ call[t] = Idle
  /\ home' = [home EXCEPT ![t] = s]
  /\ UNCHANGED <<mem, tables, free, current, cr3, tlb, running, call>>

-----------------------------------------------------------------------------
(* address_space.c.                                                        *)

(* Mutant: the kernel's whole directory is taken over.                     *)
KernelCopied == mem[KernelDirectory]

(* What a new directory starts with: the low table, shared by all.         *)
NewDirectory == [Zeros EXCEPT ![0] = mem[KernelDirectory][0]]

address_space_create(t) ==
  /\ At(t, "idle") /\ free # {} /\ Cardinality(DOMAIN tables) <= MaxSpaces
  /\ LET f == Min(free) IN
       IF Faults({f}) THEN page_fault_handler
       ELSE /\ mem' = [mem EXCEPT ![Reached(f)] = NewDirectory]
            /\ tables' = [s \in DOMAIN tables \cup {f} |->
                            IF s = f THEN BootDirectory ELSE tables[s]]
            /\ free' = free \ {f}
            /\ UNCHANGED <<current, cr3, tlb, running, home, call>>

(* The process has no thread left.                                         *)
address_space_destroy(t, s) ==
  /\ At(t, "idle")
  /\ s \notin {KernelDirectory, current} /\ \A u \in Thread : home[u] # s
  /\ free' = free \cup {s} \cup {tables[s][d] : d \in {e \in 1 .. Entries - 1 : tables[s][e] # 0}}
  /\ tables' = [r \in DOMAIN tables \ {s} |-> tables[r]]
  /\ UNCHANGED <<mem, current, cr3, tlb, running, home, call>>

-----------------------------------------------------------------------------
(* vmm.c.                                                                  *)

vmm_map_page(t, v, f) ==
  /\ At(t, "idle") /\ vmm_is_user_address(v)
  /\ LET table == tables[current][DirIndex(v)] IN
       Set(t, [pc |-> IF table = 0 THEN "create" ELSE "store",
               page |-> v, frame |-> f, table |-> table])
  /\ UNCHANGED <<mem, tables, free, current, cr3, tlb, running, home>>

(* Mutant: the new table is not cleared.                                   *)
Uncleared(f) == mem[Reached(f)]

Cleared(f) == Zeros

vmm_create_page_table(t) ==
  /\ At(t, "create")
  /\ LET f == Min(free)
         d == DirIndex(call[t].page) IN
     IF free = {} THEN Set(t, Idle) /\ UNCHANGED <<mem, tables, free, running>>
     ELSE IF Faults({f, current}) THEN page_fault_handler
     ELSE /\ mem' = [mem EXCEPT ![Reached(f)] = Cleared(f), ![Reached(current)][d] = f]
          /\ tables' = [tables EXCEPT ![current][d] = f]
          /\ free' = free \ {f}
          /\ Set(t, [call[t] EXCEPT !.pc = "store", !.table = f])
          /\ UNCHANGED running
  /\ UNCHANGED <<current, cr3, tlb, home>>

StoreEntry(t) ==
  /\ At(t, "store")
  /\ LET table == call[t].table IN
     IF Faults({table}) THEN page_fault_handler
     ELSE /\ mem' = [mem EXCEPT ![Reached(table)][TableIndex(call[t].page)] = call[t].frame]
          /\ Set(t, [call[t] EXCEPT !.pc = "flush"])
          /\ UNCHANGED running
  /\ UNCHANGED <<tables, free, current, cr3, tlb, home>>

(* Mutant: vmm_unmap_page does not invalidate the page.                    *)
InvalidateMapped(t) ==
  /\ At(t, "flush")
  /\ tlb' = IF call[t].frame = 0 THEN tlb ELSE {e \in tlb : e[1] # call[t].page}
  /\ Set(t, Idle)
  /\ UNCHANGED <<mem, tables, free, current, cr3, running, home>>

vmm_invalidate_page(t) ==
  /\ At(t, "flush")
  /\ tlb' = {e \in tlb : e[1] # call[t].page}
  /\ Set(t, Idle)
  /\ UNCHANGED <<mem, tables, free, current, cr3, running, home>>

vmm_unmap_page(t, v) ==
  /\ At(t, "idle")
  /\ tables[current][DirIndex(v)] # 0
  /\ Set(t, [pc |-> "store", page |-> v, frame |-> 0, table |-> tables[current][DirIndex(v)]])
  /\ UNCHANGED <<mem, tables, free, current, cr3, tlb, running, home>>

(* The answer of vmm_get_physical_address in address space s.              *)
vmm_get_physical_address(s, v) ==
  LET table == tables[s][DirIndex(v)] IN IF table = 0 THEN 0 ELSE mem[table][TableIndex(v)]

-----------------------------------------------------------------------------

Next ==
  \/ Fill
  \/ \E t \in Thread :
       \/ Switch(t)
       \/ \E s \in DOMAIN tables : Restart(t, s) \/ address_space_destroy(t, s)
       \/ address_space_create(t)
       \/ \E m \in MapInput : vmm_map_page(t, m[1], m[2])
       \/ \E v \in UnmapInput : vmm_unmap_page(t, v)
       \/ vmm_create_page_table(t) \/ StoreEntry(t) \/ vmm_invalidate_page(t)

Spec == Init /\ [][Next]_vars

-----------------------------------------------------------------------------

(* What the processor would find, in every address space.                  *)
Found == [s \in DOMAIN tables |-> [v \in VPage |-> WalkFrom(s, v)]]

(* Address spaces are isolated: what the processor finds for a page of an  *)
(* address space is what the last call in it has put there, whatever the   *)
(* frames of its tables were used for before; and the low pages, which     *)
(* share one table, stay as they are.                                      *)
M == INSTANCE Mappings WITH
       Kernel <- KernelDirectory, Space <- Pool, Frame <- Data, Unmapped <- 0,
       VPage <- {v \in VPage : vmm_is_user_address(v)},
       Given <- [v \in VPage |-> IF v < Entries THEN v ELSE 0],
       maps <- Found

ImplementsMappings == M!Spec

(* The kernel's pointers to the tables and the directory's entries are two *)
(* copies of one fact: vmm_get_physical_address and the processor give the *)
(* same answer, in the address space that the kernel takes for the current *)
(* one and in all others.                                                  *)
LookupsAgree ==
  /\ cr3 = current
  /\ running \in Thread => current = home[running]
  /\ \A s \in DOMAIN tables, v \in VPage : vmm_get_physical_address(s, v) = WalkFrom(s, v)

(* A translation outlives its table entry only while the thread that       *)
(* changed the entry has yet to invalidate it: when vmm_map_page or        *)
(* vmm_unmap_page returns, nobody reaches the frame that was mapped.       *)
BeingChanged(v) ==
  \E t \in Thread : home[t] = cr3 /\ call[t].pc = "flush" /\ call[t].page = v

NoStaleTranslation ==
  \A e \in tlb : WalkFrom(cr3, e[1]) = e[2] \/ BeingChanged(e[1])
-----------------------------------------------------------------------------
(* The inductive invariant behind these properties.                        *)

(* Where it holds: a table is not created while another thread of the      *)
(* process is let in, the kernel can reach every frame of the pool, and    *)
(* nobody unmaps a low page.                                               *)
CarefulUse ==
  /\ Preempt \subseteq {"store", "flush"}
  /\ Pool \subseteq 1 .. Entries - 1
  /\ \A v \in UnmapInput : v >= Entries

Space == DOMAIN tables

TypeOK ==
  /\ mem \in [Frame -> [0 .. Entries - 1 -> Nat]]
  /\ tables \in [Space -> [0 .. Entries - 1 -> Nat]]
  /\ Space \subseteq Pool \cup {KernelDirectory} /\ KernelDirectory \in Space
  /\ free \subseteq Pool
  /\ current \in Space /\ cr3 \in Space
  /\ tlb \subseteq VPage \X (Nat \ {0})
  /\ running \in Thread
  /\ home \in [Thread -> Space]
  /\ call \in [Thread -> {Idle} \cup [pc : {"create", "store", "flush"}, page : VPage,
                                      frame : Data \cup {0}, table : Pool \cup {0}]]

(* The copies of a fact agree.                                             *)
CopiesAgree ==
  /\ cr3 = current /\ current = home[running]
  /\ \A s \in Space : mem[s] = tables[s]

LowPagesShared ==
  /\ mem[FirstTable] = IdentityTable
  /\ \A s \in Space : tables[s][0] = FirstTable

(* A frame is free, a directory, or one table of one address space.        *)
FramesOwned ==
  /\ free \cap Space = {}
  /\ \A s \in Space, d \in 1 .. Entries - 1 :
       tables[s][d] # 0 => tables[s][d] \in Pool \ (free \cup Space)
  /\ \A s, r \in Space, d, e \in 1 .. Entries - 1 :
       tables[s][d] # 0 /\ tables[s][d] = tables[r][e] => s = r /\ d = e

(* What a call has looked up is still so when it goes on.                  *)
CallsCurrent ==
  \A t \in Thread : call[t] # Idle =>
    LET table == tables[home[t]][DirIndex(call[t].page)] IN
    /\ call[t].page >= Entries
    /\ call[t].frame # 0 => vmm_is_user_address(call[t].page)
    /\ IF call[t].pc = "create" THEN t = running /\ call[t].frame # 0 /\ table = 0
                                ELSE table = call[t].table /\ table # 0

(* Nothing is mapped above the addresses of processes.                     *)
KernelPagesUnmapped ==
  \A s \in Space, v \in VPage :
    v >= Entries /\ ~ vmm_is_user_address(v) => WalkFrom(s, v) = 0

TlbCurrent == NoStaleTranslation /\ \A e \in tlb : e[1] >= Entries

Shape == TypeOK /\ CopiesAgree /\ LowPagesShared /\ FramesOwned /\ CallsCurrent

IInv == Shape /\ KernelPagesUnmapped /\ TlbCurrent
=============================================================================
