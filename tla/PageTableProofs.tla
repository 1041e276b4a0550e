-------------------------- MODULE PageTableProofs --------------------------
(***************************************************************************)
(* Proofs about PageTables, for any number of threads, frames, pages and   *)
(* entries, under CarefulUse: the inductive invariant IInv, step by step,  *)
(* and from it that lookups, walks and the TLB agree and that the tables   *)
(* implement isolated mappings.                                            *)
(***************************************************************************)
EXTENDS PageTables, WellFoundedInduction, TLAPS

-----------------------------------------------------------------------------
(* Numbers.                                                                *)

(* A set of numbers that is not empty has a least one.                     *)
LEMMA LeastIsIn ==
  ASSUME NEW S, S \subseteq Nat, S # {}
  PROVE  Min(S) \in S
<1> DEFINE Less == OpToRel(<, Nat)
<1>1. IsWellFoundedOn(Less, Nat)
  BY NatLessThanWellFounded, Zenon
<1>2. \A m, n \in Nat : <<m, n>> \in Less <=> m < n
  BY DEF OpToRel
<1> HIDE DEF Less
<1>3. PICK x \in S : \A y \in S : <<y, x>> \notin Less
  BY <1>1, WFMin
<1>4. \A y \in S : ~ (y < x)
  BY <1>2, <1>3
<1>5. \A y \in S : x <= y
  BY <1>4
<1>6. QED
  BY <1>5 DEF Min

(* The two indices of a page are within a directory and a table, and tell  *)
(* pages apart; the low pages are those of entry 0.                        *)
LEMMA IndexFacts ==
  ASSUME NEW v \in 0 .. Entries * Entries - 1
  PROVE  /\ DirIndex(v) \in 0 .. Entries - 1
         /\ TableIndex(v) \in 0 .. Entries - 1
         /\ v = Entries * DirIndex(v) + TableIndex(v)
         /\ v >= Entries => DirIndex(v) \in 1 .. Entries - 1
<1>1. Entries \in Nat \ {0}
  BY PageTablesAssumption
<1>2. v % Entries \in 0 .. Entries - 1
  BY <1>1
<1>3. v = Entries * (v \div Entries) + (v % Entries)
  BY <1>1
<1>4. v \div Entries \in Int
  BY <1>1
<1>5. v \div Entries >= 0
  BY <1>1, <1>2, <1>3, <1>4
<1>6. v \div Entries < Entries
  BY <1>1, <1>2, <1>3, <1>4
<1>7. v >= Entries => v \div Entries >= 1
  BY <1>1, <1>2, <1>3, <1>4
<1>8. QED
  BY <1>1, <1>2, <1>3, <1>4, <1>5, <1>6, <1>7 DEF DirIndex, TableIndex

LEMMA LowIndex ==
  ASSUME NEW v \in 0 .. Entries - 1
  PROVE  DirIndex(v) = 0 /\ TableIndex(v) = v
<1>1. Entries \in Nat \ {0}
  BY PageTablesAssumption
<1>2. v \div Entries = 0 /\ v % Entries = v
  BY <1>1
<1>3. QED
  BY <1>2 DEF DirIndex, TableIndex

(* VPage is small enough, and the constants that name frames differ.       *)
LEMMA Constants ==
  /\ Entries \in Nat \ {0}
  /\ VPage \subseteq 0 .. Entries * Entries - 1
  /\ KernelDirectory \in Frame /\ FirstTable \in Frame /\ Pool \subseteq Frame
  /\ KernelDirectory \in 1 .. Entries - 1 /\ FirstTable \in 1 .. Entries - 1
  /\ KernelDirectory # FirstTable
  /\ Pool \subseteq Nat \ {0} /\ Data \subseteq Nat \ {0}
  /\ KernelDirectory \notin Pool /\ FirstTable \notin Pool
  /\ \A m \in MapInput : m[1] \in VPage /\ m[2] \in Data
  /\ UnmapInput \subseteq VPage
  /\ KernelSpace \in Nat
<1>1. \A m \in MapInput : m[1] \in VPage /\ m[2] \in Data
  BY PageTablesAssumption DEF VPage
<1>2. UnmapInput \subseteq VPage
  BY DEF VPage
<1>3. Pool \subseteq Nat \ {0} /\ Data \subseteq Nat \ {0}
  BY PageTablesAssumption
<1>4. KernelDirectory \notin Pool /\ FirstTable \notin Pool
  BY PageTablesAssumption
<1>5. KernelDirectory \in Frame /\ FirstTable \in Frame /\ Pool \subseteq Frame
  BY DEF Frame
<1>6. KernelDirectory \in 1 .. Entries - 1 /\ FirstTable \in 1 .. Entries - 1
  BY PageTablesAssumption
<1>7. QED
  BY <1>1, <1>2, <1>3, <1>4, <1>5, <1>6, PageTablesAssumption

-----------------------------------------------------------------------------
(* States.                                                                 *)

(* A call that is not idle is a record of the page it changes.             *)
LEMMA CallFields ==
  ASSUME TypeOK, NEW t \in Thread
  PROVE  /\ call[t].pc = "idle" <=> call[t] = Idle
         /\ call[t] # Idle =>
              /\ call[t] = [pc |-> call[t].pc, page |-> call[t].page,
                            frame |-> call[t].frame, table |-> call[t].table]
              /\ call[t].pc \in {"create", "store", "flush"}
              /\ call[t].page \in VPage /\ call[t].frame \in Data \cup {0}
              /\ call[t].table \in Pool \cup {0}
BY DEF TypeOK, Idle

(* What the processor finds in an address space: a low page is mapped to   *)
(* the frame of its number, any other by the table the kernel knows.       *)
LEMMA Walks ==
  ASSUME TypeOK, CopiesAgree, LowPagesShared, FramesOwned,
         NEW s \in Space, NEW v \in 0 .. Entries * Entries - 1
  PROVE  /\ v < Entries => WalkFrom(s, v) = v
         /\ v >= Entries => WalkFrom(s, v) =
              IF tables[s][DirIndex(v)] = 0 THEN 0
                                            ELSE mem[tables[s][DirIndex(v)]][TableIndex(v)]
         /\ WalkFrom(s, v) \in Nat
<1>1. mem[s] = tables[s] /\ tables[s][0] = FirstTable /\ mem[FirstTable] = IdentityTable
  BY DEF CopiesAgree, LowPagesShared
<1>2. FirstTable # 0
  BY Constants
<1>3. ASSUME v < Entries PROVE WalkFrom(s, v) = v
  <2>1. DirIndex(v) = 0 /\ TableIndex(v) = v /\ v \in 0 .. Entries - 1
    BY <1>3, LowIndex, Constants
  <2>2. IdentityTable[v] = v
    BY <2>1 DEF IdentityTable
  <2>3. QED
    BY <1>1, <1>2, <2>1, <2>2 DEF WalkFrom
<1>4. ASSUME v >= Entries
      PROVE  /\ WalkFrom(s, v) =
                  IF tables[s][DirIndex(v)] = 0 THEN 0
                                                ELSE mem[tables[s][DirIndex(v)]][TableIndex(v)]
             /\ WalkFrom(s, v) \in Nat
  <2>1. DirIndex(v) \in 1 .. Entries - 1 /\ TableIndex(v) \in 0 .. Entries - 1
    BY <1>4, IndexFacts
  <2>2. tables[s][DirIndex(v)] # 0 => tables[s][DirIndex(v)] \in Frame
    BY <2>1, Constants DEF FramesOwned
  <2>3. QED
    BY <1>1, <2>1, <2>2 DEF WalkFrom, TypeOK
<1>5. v < Entries \/ v >= Entries
  BY Constants
<1>6. QED
  BY <1>3, <1>4, <1>5

(* The kernel reaches every frame of the pool, and a directory, at its own *)
(* address: no store faults.                                               *)
LEMMA ReachedSelf ==
  ASSUME TypeOK, CopiesAgree, LowPagesShared, FramesOwned, CarefulUse,
         NEW f \in Pool \cup {KernelDirectory}
  PROVE  Reached(f) = f /\ f # 0 /\ f \in Frame
<1>1. f \in 1 .. Entries - 1
  BY Constants DEF CarefulUse
<1>2. f \in 0 .. Entries * Entries - 1 /\ f < Entries
  <2>1. Entries \in Nat \ {0}
    BY Constants
  <2>2. Entries <= Entries * Entries
    BY <2>1
  <2>3. QED
    BY <1>1, <2>1, <2>2
<1>3. WalkFrom(cr3, f) = f
  BY <1>2, Walks DEF TypeOK
<1>4. QED
  BY <1>1, <1>3, Constants DEF Reached

LEMMA NoFault ==
  ASSUME TypeOK, CopiesAgree, LowPagesShared, FramesOwned, CarefulUse,
         NEW F, F \subseteq Pool \cup {KernelDirectory}
  PROVE  ~ Faults(F)
BY ReachedSelf DEF Faults

-----------------------------------------------------------------------------
(* The steps that change no entry and no frame's use.                      *)

(* They keep what is only about entries and frames.                        *)
LEMMA EntriesKept ==
  ASSUME IInv, UNCHANGED <<mem, tables, free>>
  PROVE  /\ LowPagesShared' /\ FramesOwned' /\ KernelPagesUnmapped'
         /\ \A s \in Space : mem'[s] = tables'[s]
         /\ \A s, v : WalkFrom(s, v)' = WalkFrom(s, v)
         /\ Space' = Space
<1>1. /\ Space' = Space
      /\ \A s, v : WalkFrom(s, v)' = WalkFrom(s, v)
  BY DEF Space, WalkFrom
<1>2. LowPagesShared' /\ FramesOwned'
  BY <1>1 DEF IInv, Shape, LowPagesShared, FramesOwned
<1>3. KernelPagesUnmapped'
  BY <1>1 DEF IInv, KernelPagesUnmapped
<1>4. QED
  BY <1>1, <1>2, <1>3 DEF IInv, Shape, CopiesAgree

(* The processor fills its TLB from the walk.                              *)
LEMMA FillStep ==
  ASSUME IInv, Fill
  PROVE  IInv'
<1>1. PICK v \in VPage : /\ v >= Entries /\ WalkFrom(cr3, v) # 0
                         /\ tlb' = tlb \cup {<<v, WalkFrom(cr3, v)>>}
  BY DEF Fill
<1>2. UNCHANGED <<mem, tables, free, current, cr3, running, home, call>>
  BY DEF Fill
<1>3. WalkFrom(cr3, v) \in Nat
  BY Walks, Constants DEF IInv, Shape, TypeOK
<1>4. TypeOK'
  BY <1>1, <1>2, <1>3, EntriesKept DEF IInv, Shape, TypeOK
<1>5. CopiesAgree' /\ CallsCurrent'
  BY <1>2, EntriesKept DEF IInv, Shape, CopiesAgree, CallsCurrent
<1>6. TlbCurrent'
  <2>1. \A w : BeingChanged(w) => BeingChanged(w)'
    BY <1>2 DEF BeingChanged
  <2>2. \A e \in tlb : WalkFrom(cr3, e[1]) = e[2] \/ BeingChanged(e[1])
    BY DEF IInv, TlbCurrent, NoStaleTranslation
  <2>3. \A e \in tlb' : e[1] >= Entries
    BY <1>1 DEF IInv, TlbCurrent
  <2>4. ASSUME NEW e \in tlb' PROVE (WalkFrom(cr3, e[1]) = e[2] \/ BeingChanged(e[1]))'
    BY <1>1, <1>2, <2>1, <2>2, EntriesKept
  <2>5. QED
    BY <2>3, <2>4 DEF TlbCurrent, NoStaleTranslation
<1>7. QED
  BY <1>2, <1>4, <1>5, <1>6, EntriesKept DEF IInv, Shape

(* The scheduler goes on with another thread, and no table is half made.   *)
LEMMA SwitchStep ==
  ASSUME IInv, CarefulUse, NEW t \in Thread, Switch(t)
  PROVE  IInv'
<1>1. /\ UNCHANGED <<mem, tables, free, home, call>>
      /\ running' = t /\ running \in Thread
      /\ call[running].pc # "create"
  BY DEF Switch, CarefulUse
<1>2. cr3' = home[t] /\ current' = home[t]
  BY DEF Switch, address_space_activate, IInv, Shape, CopiesAgree
<1>3. (tlb' = tlb /\ cr3' = cr3) \/ tlb' = {}
  BY DEF Switch, address_space_activate
<1>4. TypeOK'
  BY <1>1, <1>2, <1>3, EntriesKept DEF IInv, Shape, TypeOK
<1>5. CopiesAgree'
  BY <1>1, <1>2, EntriesKept DEF IInv, Shape, CopiesAgree
<1>6. CallsCurrent'
  <2>1. \A u \in Thread : call[u] # Idle => call[u].pc # "create"
    BY <1>1 DEF IInv, Shape, CallsCurrent
  <2>2. QED
    BY <1>1, <2>1 DEF IInv, Shape, CallsCurrent
<1>7. TlbCurrent'
  <2>1. \A w : BeingChanged(w) /\ cr3' = cr3 => BeingChanged(w)'
    BY <1>1 DEF BeingChanged
  <2>2. \A e \in tlb : (WalkFrom(cr3, e[1]) = e[2] \/ BeingChanged(e[1])) /\ e[1] >= Entries
    BY DEF IInv, TlbCurrent, NoStaleTranslation
  <2>3. \A e \in tlb' : (WalkFrom(cr3, e[1]) = e[2] \/ BeingChanged(e[1]))'
    BY <1>1, <1>3, <2>1, <2>2, EntriesKept
  <2>4. QED
    BY <1>3, <2>2, <2>3 DEF TlbCurrent, NoStaleTranslation
<1>8. QED
  BY <1>1, <1>4, <1>5, <1>6, <1>7, EntriesKept DEF IInv, Shape

(* An idle thread changes its process.                                     *)
LEMMA RestartStep ==
  ASSUME IInv, NEW t \in Thread, NEW s \in Space, Restart(t, s)
  PROVE  IInv'
<1>1. /\ UNCHANGED <<mem, tables, free, current, cr3, tlb, running, call>>
      /\ running # t /\ call[t] = Idle
      /\ home' = [home EXCEPT ![t] = s]
  BY DEF Restart
<1>2. TypeOK'
  BY <1>1, EntriesKept DEF IInv, Shape, TypeOK
<1>3. \A u \in Thread : u # t => home'[u] = home[u]
  BY <1>1 DEF IInv, Shape, TypeOK
<1>4. CopiesAgree' /\ CallsCurrent'
  BY <1>1, <1>3, EntriesKept DEF IInv, Shape, TypeOK, CopiesAgree, CallsCurrent
<1>5. TlbCurrent'
  <2>1. \A w : BeingChanged(w) => BeingChanged(w)'
    BY <1>1, <1>3 DEF BeingChanged, Idle
  <2>2. \A e \in tlb : WalkFrom(cr3, e[1]) = e[2] \/ BeingChanged(e[1])
    BY DEF IInv, TlbCurrent, NoStaleTranslation
  <2>3. \A e \in tlb' : (WalkFrom(cr3, e[1]) = e[2] \/ BeingChanged(e[1]))'
    BY <1>1, <2>1, <2>2, EntriesKept
  <2>4. QED
    BY <1>1, <2>3 DEF IInv, TlbCurrent, NoStaleTranslation
<1>6. QED
  BY <1>1, <1>2, <1>4, <1>5, EntriesKept DEF IInv, Shape

(* A call begins: it looks up the table of its page.                       *)
LEMMA CallBegins ==
  ASSUME IInv, NEW t \in Thread,
         call[t] = Idle, running = t,
         NEW v \in VPage, v >= Entries, NEW f \in Data \cup {0},
         f # 0 => vmm_is_user_address(v),
         NEW pc, pc = IF tables[current][DirIndex(v)] = 0 THEN "create" ELSE "store",
         pc = "create" => f # 0,
         call' = [call EXCEPT ![t] = [pc |-> pc, page |-> v, frame |-> f,
                                      table |-> tables[current][DirIndex(v)]]],
         UNCHANGED <<mem, tables, free, current, cr3, tlb, running, home>>
  PROVE  IInv'
<1>1. DirIndex(v) \in 1 .. Entries - 1
  BY IndexFacts, Constants
<1>2. tables[current][DirIndex(v)] \in Pool \cup {0}
  BY <1>1 DEF IInv, Shape, TypeOK, FramesOwned
<1>3. TypeOK'
  BY <1>2, EntriesKept DEF IInv, Shape, TypeOK
<1>4. CopiesAgree'
  BY EntriesKept DEF IInv, Shape, CopiesAgree
<1>5. CallsCurrent'
  <2>1. call'[t] = [pc |-> pc, page |-> v, frame |-> f, table |-> tables[current][DirIndex(v)]]
    BY DEF IInv, Shape, TypeOK
  <2>2. \A u \in Thread : u # t => call'[u] = call[u]
    BY DEF IInv, Shape, TypeOK
  <2>3. home[t] = current
    BY DEF IInv, Shape, CopiesAgree
  <2>4. QED
    BY <2>1, <2>2, <2>3 DEF IInv, Shape, CallsCurrent
<1>6. TlbCurrent'
  <2>1. \A w : BeingChanged(w) => BeingChanged(w)'
    BY DEF BeingChanged, Idle, IInv, Shape, TypeOK
  <2>2. \A e \in tlb : WalkFrom(cr3, e[1]) = e[2] \/ BeingChanged(e[1])
    BY DEF IInv, TlbCurrent, NoStaleTranslation
  <2>3. \A e \in tlb' : (WalkFrom(cr3, e[1]) = e[2] \/ BeingChanged(e[1]))'
    BY <2>1, <2>2, EntriesKept
  <2>4. QED
    BY <2>3 DEF IInv, TlbCurrent, NoStaleTranslation
<1>7. QED
  BY <1>3, <1>4, <1>5, <1>6, EntriesKept DEF IInv, Shape

LEMMA MapStep ==
  ASSUME IInv, NEW t \in Thread, NEW m \in MapInput, vmm_map_page(t, m[1], m[2])
  PROVE  IInv'
<1>1. /\ m[1] \in VPage /\ m[2] \in Data /\ m[2] # 0
      /\ vmm_is_user_address(m[1]) /\ m[1] >= Entries
  BY Constants DEF vmm_map_page, vmm_is_user_address
<1>2. call[t] = Idle /\ running = t
  BY CallFields DEF vmm_map_page, At, IInv, Shape
<1> DEFINE table == tables[current][DirIndex(m[1])]
           pc == IF table = 0 THEN "create" ELSE "store"
<1>3. /\ call' = [call EXCEPT ![t] = [pc |-> pc, page |-> m[1], frame |-> m[2], table |-> table]]
      /\ UNCHANGED <<mem, tables, free, current, cr3, tlb, running, home>>
  BY DEF vmm_map_page, Set
<1>4. m[2] \in Data \cup {0} /\ pc = IF table = 0 THEN "create" ELSE "store"
  BY <1>1
<1> HIDE DEF pc
<1>5. QED
  BY <1>1, <1>2, <1>3, <1>4, CallBegins

LEMMA UnmapStep ==
  ASSUME IInv, CarefulUse, NEW t \in Thread, NEW v \in UnmapInput, vmm_unmap_page(t, v)
  PROVE  IInv'
<1>1. v \in VPage /\ v >= Entries
  BY Constants DEF CarefulUse
<1>2. call[t] = Idle /\ running = t
  BY CallFields DEF vmm_unmap_page, At, IInv, Shape
<1>3. QED
  BY <1>1, <1>2, CallBegins DEF vmm_unmap_page, Set

(* A call ends: nobody keeps the old translation of its page.              *)
LEMMA InvalidateStep ==
  ASSUME IInv, NEW t \in Thread, vmm_invalidate_page(t)
  PROVE  IInv'
<1>1. /\ UNCHANGED <<mem, tables, free, current, cr3, running, home>>
      /\ running = t /\ call[t].pc = "flush"
      /\ call' = [call EXCEPT ![t] = Idle]
      /\ tlb' = {e \in tlb : e[1] # call[t].page}
  BY DEF vmm_invalidate_page, At, Set
<1>2. TypeOK'
  BY <1>1, EntriesKept DEF IInv, Shape, TypeOK
<1>3. CopiesAgree'
  BY <1>1, EntriesKept DEF IInv, Shape, CopiesAgree
<1>4. call'[t] = Idle /\ \A u \in Thread : u # t => call'[u] = call[u]
  BY <1>1 DEF IInv, Shape, TypeOK
<1>5. CallsCurrent'
  BY <1>1, <1>4 DEF IInv, Shape, CallsCurrent
<1>6. TlbCurrent'
  <2>1. \A w : w # call[t].page /\ BeingChanged(w) => BeingChanged(w)'
    BY <1>1, <1>4 DEF BeingChanged
  <2>2. \A e \in tlb : WalkFrom(cr3, e[1]) = e[2] \/ BeingChanged(e[1])
    BY DEF IInv, TlbCurrent, NoStaleTranslation
  <2>3. \A e \in tlb' : (WalkFrom(cr3, e[1]) = e[2] \/ BeingChanged(e[1]))'
    BY <1>1, <2>1, <2>2, EntriesKept
  <2>4. QED
    BY <1>1, <2>3 DEF IInv, TlbCurrent, NoStaleTranslation
<1>7. QED
  BY <1>1, <1>2, <1>3, <1>5, <1>6, EntriesKept DEF IInv, Shape

-----------------------------------------------------------------------------
(* The entry of a page.                                                    *)

(* StoreEntry does not fault, and changes one entry of one table.          *)
LEMMA Stored ==
  ASSUME IInv, CarefulUse, NEW t \in Thread, StoreEntry(t)
  PROVE  LET table == call[t].table
             v == call[t].page IN
         /\ running = t /\ call[t].pc = "store" /\ call[t] # Idle
         /\ table = tables[cr3][DirIndex(v)] /\ table \in Pool \ Space
         /\ v \in VPage /\ v >= Entries /\ call[t].frame \in Data \cup {0}
         /\ mem' = [mem EXCEPT ![table][TableIndex(v)] = call[t].frame]
         /\ call' = [call EXCEPT ![t] = [call[t] EXCEPT !.pc = "flush"]]
         /\ UNCHANGED <<tables, free, current, cr3, tlb, running, home>>
<1>1. running = t /\ call[t].pc = "store" /\ call[t] # Idle
  BY DEF StoreEntry, At, Idle
<1>2. /\ call[t].page \in VPage /\ call[t].frame \in Data \cup {0}
      /\ call[t].page >= Entries
      /\ call[t].table = tables[cr3][DirIndex(call[t].page)] /\ call[t].table # 0
  BY <1>1, CallFields DEF IInv, Shape, CallsCurrent, CopiesAgree
<1>3. DirIndex(call[t].page) \in 1 .. Entries - 1
  BY <1>2, IndexFacts, Constants
<1>4. call[t].table \in Pool \ Space
  BY <1>2, <1>3 DEF IInv, Shape, FramesOwned, TypeOK
<1>5. Reached(call[t].table) = call[t].table
  BY <1>4, ReachedSelf DEF IInv, Shape
<1>6. ~ Faults({call[t].table})
  BY <1>4, NoFault DEF IInv, Shape
<1>7. QED
  BY <1>1, <1>2, <1>4, <1>5, <1>6 DEF StoreEntry, Set

(* The walk of that page in that address space is the only one to change.  *)
LEMMA StoredWalks ==
  ASSUME IInv, CarefulUse, NEW t \in Thread, StoreEntry(t),
         NEW s \in Space, NEW v \in VPage
  PROVE  WalkFrom(s, v)' = IF s = cr3 /\ v = call[t].page THEN call[t].frame
                                                          ELSE WalkFrom(s, v)
<1> DEFINE table == call[t].table
           w == call[t].page
<1>1. /\ table = tables[cr3][DirIndex(w)] /\ table \in Pool \ Space
      /\ w \in VPage /\ w >= Entries
      /\ mem' = [mem EXCEPT ![table][TableIndex(w)] = call[t].frame]
  BY Stored
<1>2. /\ v \in 0 .. Entries * Entries - 1 /\ w \in 0 .. Entries * Entries - 1
      /\ DirIndex(v) \in 0 .. Entries - 1 /\ TableIndex(v) \in 0 .. Entries - 1
      /\ DirIndex(w) \in 1 .. Entries - 1 /\ TableIndex(w) \in 0 .. Entries - 1
  BY <1>1, IndexFacts, Constants
<1>3. DirIndex(v) = DirIndex(w) /\ TableIndex(v) = TableIndex(w) => v = w
  BY <1>2, IndexFacts
<1>4. s \in Frame /\ table \in Frame /\ table # FirstTable
  BY <1>1, Constants DEF IInv, Shape, TypeOK
<1>5. /\ \A f \in Frame : f # table => mem'[f] = mem[f]
      /\ mem'[table] = [mem[table] EXCEPT ![TableIndex(w)] = call[t].frame]
      /\ mem[table] \in [0 .. Entries - 1 -> Nat]
  BY <1>1, <1>4 DEF IInv, Shape, TypeOK
<1>6. mem'[s] = mem[s] /\ mem[s] = tables[s]
  BY <1>1, <1>4, <1>5 DEF IInv, Shape, CopiesAgree
<1>7. tables[s][DirIndex(v)] = table => s = cr3 /\ DirIndex(v) = DirIndex(w)
  <2>1. CASE DirIndex(v) = 0
    BY <2>1, <1>4 DEF IInv, Shape, LowPagesShared
  <2>2. CASE DirIndex(v) # 0
    <3>1. DirIndex(v) \in 1 .. Entries - 1
      BY <2>2, <1>2
    <3>2. table # 0
      BY <1>1, Constants
    <3>3. \A q, r \in Space, d, e \in 1 .. Entries - 1 :
            tables[q][d] # 0 /\ tables[q][d] = tables[r][e] => q = r /\ d = e
      BY DEF IInv, Shape, FramesOwned
    <3>4. cr3 \in Space
      BY DEF IInv, Shape, TypeOK
    <3>5. QED
      BY <3>1, <3>2, <3>3, <3>4, <1>1, <1>2
  <2>3. QED
    BY <2>1, <2>2
<1>8. tables[s][DirIndex(v)] # 0 => tables[s][DirIndex(v)] \in Frame
  <2>1. CASE DirIndex(v) = 0
    BY <2>1, Constants DEF IInv, Shape, LowPagesShared
  <2>2. CASE DirIndex(v) # 0
    <3>1. DirIndex(v) \in 1 .. Entries - 1
      BY <2>2, <1>2
    <3>2. QED
      BY <3>1, Constants DEF IInv, Shape, FramesOwned
  <2>3. QED
    BY <2>1, <2>2
<1>9. CASE s = cr3 /\ v = w
  <2>1. mem'[table][TableIndex(w)] = call[t].frame
    BY <1>2, <1>5
  <2>2. table # 0
    BY <1>1, Constants
  <2>3. WalkFrom(s, v)' = call[t].frame
    BY <2>1, <2>2, <1>1, <1>6, <1>9 DEF WalkFrom
  <2>4. QED
    BY <2>3, <1>9
<1>10. CASE ~ (s = cr3 /\ v = w)
  <2>1. CASE tables[s][DirIndex(v)] = table
    <3>1. TableIndex(v) # TableIndex(w)
      BY <2>1, <1>3, <1>7, <1>10
    <3>2. mem'[table][TableIndex(v)] = mem[table][TableIndex(v)]
      BY <3>1, <1>2, <1>5
    <3>3. QED
      BY <2>1, <3>2, <1>6, <1>10 DEF WalkFrom
  <2>2. CASE tables[s][DirIndex(v)] # table
    BY <2>2, <1>5, <1>6, <1>8, <1>10 DEF WalkFrom
  <2>3. QED
    BY <2>1, <2>2
<1>11. QED
  BY <1>9, <1>10

LEMMA StoreStep ==
  ASSUME IInv, CarefulUse, NEW t \in Thread, StoreEntry(t)
  PROVE  IInv'
<1> DEFINE table == call[t].table
           w == call[t].page
<1>1. /\ running = t /\ call[t].pc = "store" /\ call[t] # Idle
      /\ table = tables[cr3][DirIndex(w)] /\ table \in Pool \ Space
      /\ w \in VPage /\ w >= Entries /\ call[t].frame \in Data \cup {0}
      /\ mem' = [mem EXCEPT ![table][TableIndex(w)] = call[t].frame]
      /\ call' = [call EXCEPT ![t] = [call[t] EXCEPT !.pc = "flush"]]
      /\ UNCHANGED <<tables, free, current, cr3, tlb, running, home>>
  BY Stored
<1>2. /\ table \in Frame /\ table # FirstTable /\ call[t].frame \in Nat
      /\ TableIndex(w) \in 0 .. Entries - 1
  BY <1>1, IndexFacts, Constants
<1>3. Space' = Space
  BY <1>1 DEF Space
<1>4. /\ mem' \in [Frame -> [0 .. Entries - 1 -> Nat]]
      /\ \A f \in Frame : f # table => mem'[f] = mem[f]
  BY <1>1, <1>2 DEF IInv, Shape, TypeOK
<1>5. /\ call'[t] = [pc |-> "flush", page |-> w, frame |-> call[t].frame, table |-> table]
      /\ \A u \in Thread : u # t => call'[u] = call[u]
      /\ call[t].table \in Pool \cup {0}
  BY <1>1, CallFields DEF IInv, Shape, TypeOK
<1>6. TypeOK'
  <2>1. call' \in [Thread -> {Idle} \cup [pc : {"create", "store", "flush"}, page : VPage,
                                          frame : Data \cup {0}, table : Pool \cup {0}]]
    BY <1>1, <1>5 DEF IInv, Shape, TypeOK
  <2>2. QED
    BY <1>1, <1>3, <1>4, <2>1 DEF IInv, Shape, TypeOK
<1>7. CopiesAgree' /\ LowPagesShared'
  <2>1. \A s \in Space : s \in Frame /\ s # table
    BY <1>1, Constants DEF IInv, Shape, TypeOK
  <2>2. FirstTable \in Frame
    BY Constants
  <2>3. QED
    BY <1>1, <1>2, <1>3, <1>4, <2>1, <2>2 DEF IInv, Shape, CopiesAgree, LowPagesShared
<1>8. FramesOwned'
  BY <1>1, <1>3 DEF IInv, Shape, FramesOwned
<1>9. CallsCurrent'
  <2>1. ASSUME NEW u \in Thread, call'[u] # Idle
        PROVE  (LET seen == tables[home[u]][DirIndex(call[u].page)] IN
                /\ call[u].page >= Entries
                /\ call[u].frame # 0 => vmm_is_user_address(call[u].page)
                /\ IF call[u].pc = "create" THEN u = running /\ call[u].frame # 0 /\ seen = 0
                                            ELSE seen = call[u].table /\ seen # 0)'
    <3>1. CASE u = t
      BY <3>1, <1>1, <1>5 DEF IInv, Shape, CallsCurrent
    <3>2. CASE u # t
      BY <3>2, <2>1, <1>1, <1>5 DEF IInv, Shape, CallsCurrent
    <3>3. QED
      BY <3>1, <3>2
  <2>2. QED
    BY <2>1 DEF CallsCurrent
<1>10. KernelPagesUnmapped'
  <2>1. ASSUME NEW s \in Space, NEW v \in VPage, v >= Entries, ~ vmm_is_user_address(v)
        PROVE  WalkFrom(s, v)' = 0
    <3>1. WalkFrom(s, v) = 0
      BY <2>1 DEF IInv, KernelPagesUnmapped
    <3>2. v = w => call[t].frame = 0
      BY <2>1, <1>1 DEF IInv, Shape, CallsCurrent
    <3>3. QED
      BY <3>1, <3>2, StoredWalks
  <2>2. QED
    BY <2>1, <1>3 DEF KernelPagesUnmapped
<1>11. TlbCurrent'
  <2>1. ASSUME NEW e \in tlb PROVE (WalkFrom(cr3, e[1]) = e[2] \/ BeingChanged(e[1]))'
    <3>1. e[1] \in VPage /\ cr3 \in Space
      BY DEF IInv, Shape, TypeOK
    <3>2. CASE e[1] = w
      BY <3>2, <1>1, <1>5 DEF BeingChanged, IInv, Shape, CopiesAgree
    <3>3. CASE e[1] # w
      <4>1. WalkFrom(cr3, e[1])' = WalkFrom(cr3, e[1])
        BY <3>1, <3>3, <1>1, StoredWalks
      <4>2. BeingChanged(e[1]) => BeingChanged(e[1])'
        BY <1>1, <1>5 DEF BeingChanged
      <4>3. QED
        BY <4>1, <4>2 DEF IInv, TlbCurrent, NoStaleTranslation
    <3>4. QED
      BY <3>2, <3>3
  <2>2. QED
    BY <2>1, <1>1 DEF IInv, TlbCurrent, NoStaleTranslation
<1>12. QED
  BY <1>6, <1>7, <1>8, <1>9, <1>10, <1>11 DEF IInv, Shape

-----------------------------------------------------------------------------
(* A new table.                                                            *)

(* vmm_create_page_table, when there is a frame: the table is entered in   *)
(* the directory and in page_tables, for an entry that was not there.      *)
LEMMA Created ==
  ASSUME IInv, CarefulUse, NEW t \in Thread, vmm_create_page_table(t), free # {}
  PROVE  LET f == Min(free)
             d == DirIndex(call[t].page) IN
         /\ running = t /\ call[t] # Idle /\ call[t].frame # 0
         /\ f \in free /\ f \in Pool \ Space /\ f \in Frame /\ f # FirstTable /\ f # 0
         /\ d \in 1 .. Entries - 1 /\ tables[cr3][d] = 0
         /\ mem' = [mem EXCEPT ![f] = Zeros, ![cr3][d] = f]
         /\ tables' = [tables EXCEPT ![cr3][d] = f]
         /\ free' = free \ {f}
         /\ call' = [call EXCEPT ![t] = [call[t] EXCEPT !.pc = "store", !.table = f]]
         /\ UNCHANGED <<current, cr3, tlb, running, home>>
<1> DEFINE f == Min(free)
           d == DirIndex(call[t].page)
<1>1. running = t /\ call[t].pc = "create" /\ call[t] # Idle
  BY DEF vmm_create_page_table, At, Idle
<1>2. /\ call[t].page \in VPage /\ call[t].page >= Entries /\ call[t].frame # 0
      /\ tables[cr3][d] = 0
  BY <1>1, CallFields DEF IInv, Shape, CallsCurrent, CopiesAgree
<1>3. d \in 1 .. Entries - 1
  BY <1>2, IndexFacts, Constants
<1>4. f \in free
  BY LeastIsIn, Constants DEF IInv, Shape, TypeOK
<1> HIDE DEF f, d
<1>5. f \in Pool \ Space /\ f \in Frame /\ f # FirstTable /\ f # 0
  BY <1>4, Constants DEF IInv, Shape, TypeOK, FramesOwned
<1>6. cr3 = current /\ current \in Pool \cup {KernelDirectory}
  BY DEF IInv, Shape, TypeOK, CopiesAgree
<1>7. Reached(f) = f /\ Reached(current) = current /\ ~ Faults({f, current})
  BY <1>5, <1>6, ReachedSelf, NoFault DEF IInv, Shape
<1>8. /\ mem' = [mem EXCEPT ![f] = Zeros, ![cr3][d] = f]
      /\ tables' = [tables EXCEPT ![cr3][d] = f]
      /\ free' = free \ {f}
      /\ call' = [call EXCEPT ![t] = [call[t] EXCEPT !.pc = "store", !.table = f]]
      /\ UNCHANGED <<current, cr3, tlb, running, home>>
  BY <1>6, <1>7 DEF vmm_create_page_table, Cleared, Set, f, d
<1>9. QED
  BY <1>1, <1>2, <1>3, <1>4, <1>5, <1>8 DEF f, d

(* What that makes of the entries, frame by frame.                         *)
LEMMA CreatedEntries ==
  ASSUME IInv, NEW f \in Pool \ Space, f \in Frame, NEW d \in 1 .. Entries - 1,
         mem' = [mem EXCEPT ![f] = Zeros, ![cr3][d] = f],
         tables' = [tables EXCEPT ![cr3][d] = f]
  PROVE  /\ Space' = Space
         /\ \A g \in Frame : g # f /\ g # cr3 => mem'[g] = mem[g]
         /\ mem'[f] = Zeros
         /\ mem'[cr3] = [tables[cr3] EXCEPT ![d] = f]
         /\ \A s \in Space : s # cr3 => tables'[s] = tables[s]
         /\ tables'[cr3] = [tables[cr3] EXCEPT ![d] = f]
         /\ mem' \in [Frame -> [0 .. Entries - 1 -> Nat]]
         /\ tables' \in [Space -> [0 .. Entries - 1 -> Nat]]
<1>1. cr3 \in Space /\ cr3 \in Frame /\ cr3 # f /\ mem[cr3] = tables[cr3] /\ f \in Nat
  BY Constants DEF IInv, Shape, TypeOK, CopiesAgree
<1>2. /\ mem \in [Frame -> [0 .. Entries - 1 -> Nat]]
      /\ tables \in [Space -> [0 .. Entries - 1 -> Nat]]
      /\ Zeros \in [0 .. Entries - 1 -> Nat]
      /\ d \in 0 .. Entries - 1
  BY DEF IInv, Shape, TypeOK, Zeros
<1>3. DOMAIN tables' = Space
  BY <1>2
<1>4. Space' = Space
  BY <1>3 DEF Space
<1>5. /\ \A g \in Frame : g # f /\ g # cr3 => mem'[g] = mem[g]
      /\ mem'[f] = Zeros
      /\ mem'[cr3] = [tables[cr3] EXCEPT ![d] = f]
      /\ mem' \in [Frame -> [0 .. Entries - 1 -> Nat]]
  BY <1>1, <1>2
<1>6. /\ \A s \in Space : s # cr3 => tables'[s] = tables[s]
      /\ tables'[cr3] = [tables[cr3] EXCEPT ![d] = f]
      /\ tables' \in [Space -> [0 .. Entries - 1 -> Nat]]
  BY <1>1, <1>2
<1>7. QED
  BY <1>4, <1>5, <1>6

(* No walk changes: the new table is empty, as the missing one was.        *)
LEMMA CreatedWalks ==
  ASSUME IInv, CarefulUse, NEW t \in Thread, vmm_create_page_table(t), free # {},
         NEW s \in Space, NEW v \in VPage
  PROVE  WalkFrom(s, v)' = WalkFrom(s, v)
<1> DEFINE f == Min(free)
           d == DirIndex(call[t].page)
           table == tables[s][DirIndex(v)]
<1>1. /\ f \in free /\ f \in Pool \ Space /\ f \in Frame /\ f # FirstTable /\ f # 0
      /\ d \in 1 .. Entries - 1 /\ tables[cr3][d] = 0
      /\ mem' = [mem EXCEPT ![f] = Zeros, ![cr3][d] = f]
      /\ tables' = [tables EXCEPT ![cr3][d] = f]
  BY Created
<1> HIDE DEF f, d
<1>2. /\ \A g \in Frame : g # f /\ g # cr3 => mem'[g] = mem[g]
      /\ mem'[f] = Zeros
      /\ mem'[cr3] = [tables[cr3] EXCEPT ![d] = f]
  BY <1>1, CreatedEntries
<1>3. DirIndex(v) \in 0 .. Entries - 1 /\ TableIndex(v) \in 0 .. Entries - 1
  BY IndexFacts, Constants
<1>4. /\ s \in Frame /\ s # f /\ cr3 \in Space /\ mem[s] = tables[s]
      /\ tables[s] \in [0 .. Entries - 1 -> Nat]
  BY <1>1, Constants DEF IInv, Shape, TypeOK, CopiesAgree
<1>5. table # 0 => table \in Frame /\ table # f /\ table \notin Space
  <2>1. CASE DirIndex(v) = 0
    BY <2>1, <1>1, Constants DEF IInv, Shape, LowPagesShared, TypeOK
  <2>2. CASE DirIndex(v) # 0
    <3>1. DirIndex(v) \in 1 .. Entries - 1
      BY <2>2, <1>3
    <3>2. QED
      BY <3>1, <1>1, Constants DEF IInv, Shape, FramesOwned
  <2>3. QED
    BY <2>1, <2>2
<1>6. WalkFrom(s, v) = IF table = 0 THEN 0 ELSE mem[table][TableIndex(v)]
  BY <1>4 DEF WalkFrom
<1>7. CASE s = cr3 /\ DirIndex(v) = d
  <2>1. mem'[s][DirIndex(v)] = f
    BY <1>2, <1>3, <1>4, <1>7
  <2>2. WalkFrom(s, v)' = mem'[f][TableIndex(v)]
    BY <2>1, <1>1 DEF WalkFrom
  <2>3. mem'[f][TableIndex(v)] = 0
    BY <1>2, <1>3 DEF Zeros
  <2>4. QED
    BY <2>2, <2>3, <1>1, <1>6, <1>7
<1>8. CASE ~ (s = cr3 /\ DirIndex(v) = d)
  <2>1. mem'[s][DirIndex(v)] = table
    BY <1>2, <1>3, <1>4, <1>8
  <2>2. table # 0 => mem'[table] = mem[table]
    BY <1>2, <1>4, <1>5
  <2>3. QED
    BY <2>1, <2>2, <1>6 DEF WalkFrom
<1>9. QED
  BY <1>7, <1>8

LEMMA CreateTableStep ==
  ASSUME IInv, CarefulUse, NEW t \in Thread, vmm_create_page_table(t), free # {}
  PROVE  IInv'
<1> DEFINE f == Min(free)
           d == DirIndex(call[t].page)
<1>1. /\ running = t /\ call[t] # Idle /\ call[t].frame # 0
      /\ f \in free /\ f \in Pool \ Space /\ f \in Frame /\ f # FirstTable /\ f # 0
      /\ d \in 1 .. Entries - 1 /\ tables[cr3][d] = 0
      /\ mem' = [mem EXCEPT ![f] = Zeros, ![cr3][d] = f]
      /\ tables' = [tables EXCEPT ![cr3][d] = f]
      /\ free' = free \ {f}
      /\ call' = [call EXCEPT ![t] = [call[t] EXCEPT !.pc = "store", !.table = f]]
      /\ UNCHANGED <<current, cr3, tlb, running, home>>
  BY Created
<1> HIDE DEF f
<1>2. /\ Space' = Space
      /\ \A g \in Frame : g # f /\ g # cr3 => mem'[g] = mem[g]
      /\ mem'[f] = Zeros
      /\ mem'[cr3] = [tables[cr3] EXCEPT ![d] = f]
      /\ \A s \in Space : s # cr3 => tables'[s] = tables[s]
      /\ tables'[cr3] = [tables[cr3] EXCEPT ![d] = f]
      /\ mem' \in [Frame -> [0 .. Entries - 1 -> Nat]]
      /\ tables' \in [Space -> [0 .. Entries - 1 -> Nat]]
  BY <1>1, CreatedEntries
<1>3. /\ call'[t] = [pc |-> "store", page |-> call[t].page, frame |-> call[t].frame, table |-> f]
      /\ \A u \in Thread : u # t => call'[u] = call[u]
      /\ call[t].page \in VPage /\ call[t].frame \in Data \cup {0}
  BY <1>1, CallFields DEF IInv, Shape, TypeOK
<1>4. TypeOK'
  <2>1. call' \in [Thread -> {Idle} \cup [pc : {"create", "store", "flush"}, page : VPage,
                                          frame : Data \cup {0}, table : Pool \cup {0}]]
    BY <1>1, <1>3 DEF IInv, Shape, TypeOK
  <2>2. QED
    BY <1>1, <1>2, <2>1 DEF IInv, Shape, TypeOK
<1>5. cr3 \in Space /\ cr3 \in Frame /\ cr3 # FirstTable /\ FirstTable \in Frame
  BY Constants DEF IInv, Shape, TypeOK
<1>6. \A s \in Space : s \in Frame /\ s # f
  BY <1>1, Constants DEF IInv, Shape, TypeOK
<1>7. CopiesAgree'
  BY <1>1, <1>2, <1>6 DEF IInv, Shape, CopiesAgree
<1>8. \A s \in Space, e \in 0 .. Entries - 1 :
        tables'[s][e] = IF s = cr3 /\ e = d THEN f ELSE tables[s][e]
  BY <1>1, <1>2 DEF IInv, Shape, TypeOK
<1>9. LowPagesShared'
  BY <1>1, <1>2, <1>5, <1>8, Constants DEF IInv, Shape, LowPagesShared
<1>10. FramesOwned'
  <2>1. \A s \in Space, e \in 1 .. Entries - 1 :
          tables[s][e] # 0 => tables[s][e] \in Pool \ (free \cup Space)
    BY DEF IInv, Shape, FramesOwned
  <2>2. \A s \in Space, e \in 1 .. Entries - 1 :
          tables'[s][e] # 0 => tables'[s][e] \in Pool \ (free' \cup Space)
    BY <2>1, <1>1, <1>8
  <2>3. \A s, r \in Space, e, g \in 1 .. Entries - 1 :
          tables[s][e] # 0 /\ tables[s][e] = tables[r][g] => s = r /\ e = g
    BY DEF IInv, Shape, FramesOwned
  <2>4. \A s \in Space, e \in 1 .. Entries - 1 : tables[s][e] # f
    BY <2>1, <1>1
  <2>5. \A s, r \in Space, e, g \in 1 .. Entries - 1 :
          tables'[s][e] # 0 /\ tables'[s][e] = tables'[r][g] => s = r /\ e = g
    BY <2>3, <2>4, <1>8
  <2>6. free' \cap Space = {}
    BY <1>1 DEF IInv, Shape, FramesOwned
  <2>7. QED
    BY <2>2, <2>5, <2>6, <1>2 DEF FramesOwned
<1>11. CallsCurrent'
  <2>1. ASSUME NEW u \in Thread, call'[u] # Idle
        PROVE  (LET seen == tables[home[u]][DirIndex(call[u].page)] IN
                /\ call[u].page >= Entries
                /\ call[u].frame # 0 => vmm_is_user_address(call[u].page)
                /\ IF call[u].pc = "create" THEN u = running /\ call[u].frame # 0 /\ seen = 0
                                            ELSE seen = call[u].table /\ seen # 0)'
    <3>1. CASE u = t
      <4>1. home'[t] = cr3
        BY <1>1 DEF IInv, Shape, CopiesAgree
      <4>2. tables'[cr3][d] = f
        BY <1>1, <1>5, <1>8
      <4>3. /\ call[t].page >= Entries
            /\ call[t].frame # 0 => vmm_is_user_address(call[t].page)
        BY <1>1 DEF IInv, Shape, CallsCurrent
      <4>4. QED
        BY <3>1, <4>1, <4>2, <4>3, <1>1, <1>3
    <3>2. CASE u # t
      <4>1. /\ call'[u] = call[u] /\ call[u] # Idle /\ home[u] \in Space /\ home'[u] = home[u]
            /\ call[u].page \in VPage /\ call[u].pc # "create"
        BY <2>1, <3>2, <1>1, <1>3, CallFields DEF IInv, Shape, TypeOK, CallsCurrent
      <4>2. /\ call[u].page >= Entries
            /\ call[u].frame # 0 => vmm_is_user_address(call[u].page)
            /\ tables[home[u]][DirIndex(call[u].page)] = call[u].table /\ call[u].table # 0
        BY <4>1 DEF IInv, Shape, CallsCurrent
      <4>3. DirIndex(call[u].page) \in 0 .. Entries - 1
        BY <4>1, IndexFacts, Constants
      <4>4. tables'[home[u]][DirIndex(call[u].page)] = call[u].table
        BY <4>1, <4>2, <4>3, <1>1, <1>8
      <4>5. QED
        BY <4>1, <4>2, <4>4
    <3>3. QED
      BY <3>1, <3>2
  <2>2. QED
    BY <2>1 DEF CallsCurrent
<1>12. KernelPagesUnmapped'
  BY <1>2, CreatedWalks DEF IInv, KernelPagesUnmapped
<1>13. TlbCurrent'
  <2>1. \A w : BeingChanged(w) => BeingChanged(w)'
    <3>1. call[t].pc # "flush"
      BY DEF vmm_create_page_table, At
    <3>2. QED
      BY <3>1, <1>1, <1>3 DEF BeingChanged
  <2>2. ASSUME NEW e \in tlb PROVE (WalkFrom(cr3, e[1]) = e[2] \/ BeingChanged(e[1]))'
    <3>1. e[1] \in VPage
      BY DEF IInv, Shape, TypeOK
    <3>2. WalkFrom(cr3, e[1])' = WalkFrom(cr3, e[1])
      BY <3>1, <1>1, <1>5, CreatedWalks
    <3>3. QED
      BY <2>1, <3>2 DEF IInv, TlbCurrent, NoStaleTranslation
  <2>3. QED
    BY <2>2, <1>1 DEF IInv, TlbCurrent, NoStaleTranslation
<1>14. QED
  BY <1>4, <1>7, <1>9, <1>10, <1>11, <1>12, <1>13 DEF IInv, Shape

(* Without a frame the call gives up.                                      *)
LEMMA NoTableStep ==
  ASSUME IInv, NEW t \in Thread, vmm_create_page_table(t), free = {}
  PROVE  IInv'
<1>1. /\ UNCHANGED <<mem, tables, free, current, cr3, tlb, running, home>>
      /\ running = t /\ call[t].pc = "create"
      /\ call' = [call EXCEPT ![t] = Idle]
  BY DEF vmm_create_page_table, At, Set
<1>2. call'[t] = Idle /\ \A u \in Thread : u # t => call'[u] = call[u]
  BY <1>1 DEF IInv, Shape, TypeOK
<1>3. TypeOK' /\ CopiesAgree' /\ CallsCurrent'
  BY <1>1, <1>2, EntriesKept DEF IInv, Shape, TypeOK, CopiesAgree, CallsCurrent
<1>4. TlbCurrent'
  <2>1. \A w : BeingChanged(w) => BeingChanged(w)'
    BY <1>1, <1>2 DEF BeingChanged
  <2>2. \A e \in tlb : WalkFrom(cr3, e[1]) = e[2] \/ BeingChanged(e[1])
    BY DEF IInv, TlbCurrent, NoStaleTranslation
  <2>3. \A e \in tlb' : (WalkFrom(cr3, e[1]) = e[2] \/ BeingChanged(e[1]))'
    BY <1>1, <2>1, <2>2, EntriesKept
  <2>4. QED
    BY <1>1, <2>3 DEF IInv, TlbCurrent, NoStaleTranslation
<1>5. QED
  BY <1>1, <1>3, <1>4, EntriesKept DEF IInv, Shape

-----------------------------------------------------------------------------
(* Address spaces.                                                         *)

(* address_space_create does not fault; what it makes starts with the low  *)
(* table only.                                                             *)
LEMMA SpaceCreated ==
  ASSUME IInv, CarefulUse, NEW t \in Thread, address_space_create(t)
  PROVE  LET f == Min(free) IN
         /\ f \in free /\ f \in Pool \ Space /\ f \in Frame /\ f # FirstTable
         /\ BootDirectory \in [0 .. Entries - 1 -> Nat]
         /\ BootDirectory[0] = FirstTable
         /\ \A d \in 1 .. Entries - 1 : BootDirectory[d] = 0
         /\ mem' = [mem EXCEPT ![f] = BootDirectory]
         /\ tables' = [s \in Space \cup {f} |-> IF s = f THEN BootDirectory ELSE tables[s]]
         /\ Space' = Space \cup {f}
         /\ free' = free \ {f}
         /\ UNCHANGED <<current, cr3, tlb, running, home, call>>
<1> DEFINE f == Min(free)
<1>1. f \in free
  BY LeastIsIn, Constants DEF address_space_create, IInv, Shape, TypeOK
<1> HIDE DEF f
<1>2. f \in Pool \ Space /\ f \in Frame /\ f # FirstTable
  BY <1>1, Constants DEF IInv, Shape, TypeOK, FramesOwned
<1>3. Reached(f) = f /\ ~ Faults({f})
  BY <1>2, ReachedSelf, NoFault DEF IInv, Shape
<1>4. NewDirectory = BootDirectory
  BY DEF NewDirectory, BootDirectory, IInv, Shape, TypeOK, CopiesAgree, LowPagesShared
<1>5. /\ BootDirectory \in [0 .. Entries - 1 -> Nat]
      /\ BootDirectory[0] = FirstTable
      /\ \A d \in 1 .. Entries - 1 : BootDirectory[d] = 0
  BY Constants DEF BootDirectory, Zeros
<1>6. /\ mem' = [mem EXCEPT ![f] = BootDirectory]
      /\ tables' = [s \in Space \cup {f} |-> IF s = f THEN BootDirectory ELSE tables[s]]
      /\ free' = free \ {f}
      /\ UNCHANGED <<current, cr3, tlb, running, home, call>>
  BY <1>3, <1>4 DEF address_space_create, Space, f
<1>7. Space' = Space \cup {f}
  BY <1>6 DEF Space
<1>8. QED
  BY <1>1, <1>2, <1>5, <1>6, <1>7 DEF f

(* Nobody else's walk changes, and the new one finds the low pages only.   *)
LEMMA SpaceCreatedWalks ==
  ASSUME IInv, CarefulUse, NEW t \in Thread, address_space_create(t), NEW v \in VPage,
         NEW f, f = Min(free)
  PROVE  /\ \A s \in Space : WalkFrom(s, v)' = WalkFrom(s, v)
         /\ WalkFrom(f, v)' = IF v < Entries THEN v ELSE 0
<1>1. /\ f \in free /\ f \in Pool \ Space /\ f \in Frame /\ f # FirstTable
      /\ BootDirectory[0] = FirstTable
      /\ \A d \in 1 .. Entries - 1 : BootDirectory[d] = 0
      /\ mem' = [mem EXCEPT ![f] = BootDirectory]
  BY SpaceCreated
<1>2. mem'[f] = BootDirectory /\ \A g \in Frame : g # f => mem'[g] = mem[g]
  BY <1>1 DEF IInv, Shape, TypeOK
<1>3. v \in 0 .. Entries * Entries - 1 /\ DirIndex(v) \in 0 .. Entries - 1
  BY IndexFacts, Constants
<1>4. ASSUME NEW s \in Space PROVE WalkFrom(s, v)' = WalkFrom(s, v)
  <2>1. s \in Frame /\ s # f /\ mem[s] = tables[s]
    BY <1>1, Constants DEF IInv, Shape, TypeOK, CopiesAgree
  <2>2. tables[s][DirIndex(v)] # 0
          => tables[s][DirIndex(v)] \in Frame /\ tables[s][DirIndex(v)] # f
    <3>1. CASE DirIndex(v) = 0
      BY <3>1, <1>1, Constants DEF IInv, Shape, LowPagesShared
    <3>2. CASE DirIndex(v) # 0
      <4>1. DirIndex(v) \in 1 .. Entries - 1
        BY <3>2, <1>3
      <4>2. tables[s][DirIndex(v)] # 0 => tables[s][DirIndex(v)] \in Pool \ free
        BY <4>1 DEF IInv, Shape, FramesOwned
      <4>3. QED
        BY <4>2, <1>1, Constants
    <3>3. QED
      BY <3>1, <3>2
  <2>3. QED
    BY <1>2, <2>1, <2>2 DEF WalkFrom
<1>5. CASE v < Entries
  <2>1. DirIndex(v) = 0 /\ TableIndex(v) = v /\ v \in 0 .. Entries - 1
    BY <1>3, <1>5, LowIndex, Constants
  <2>2. mem'[FirstTable][v] = v
    BY <1>1, <1>2, <2>1, Constants DEF IInv, Shape, LowPagesShared, IdentityTable
  <2>3. WalkFrom(f, v)' = v
    BY <1>1, <1>2, <2>1, <2>2, Constants DEF WalkFrom
  <2>4. QED
    BY <2>3, <1>4, <1>5
<1>6. CASE ~ (v < Entries)
  <2>1. DirIndex(v) \in 1 .. Entries - 1
    BY <1>3, <1>6, IndexFacts, Constants
  <2>2. WalkFrom(f, v)' = 0
    BY <1>1, <1>2, <2>1 DEF WalkFrom
  <2>3. QED
    BY <2>2, <1>4, <1>6
<1>7. QED
  BY <1>5, <1>6

LEMMA SpaceCreateStep ==
  ASSUME IInv, CarefulUse, NEW t \in Thread, address_space_create(t)
  PROVE  IInv'
<1>0. PICK f : f = Min(free)
  OBVIOUS
<1>1. /\ f \in free /\ f \in Pool \ Space /\ f \in Frame /\ f # FirstTable
      /\ BootDirectory \in [0 .. Entries - 1 -> Nat]
      /\ BootDirectory[0] = FirstTable
      /\ \A d \in 1 .. Entries - 1 : BootDirectory[d] = 0
      /\ mem' = [mem EXCEPT ![f] = BootDirectory]
      /\ tables' = [s \in Space \cup {f} |-> IF s = f THEN BootDirectory ELSE tables[s]]
      /\ Space' = Space \cup {f}
      /\ free' = free \ {f}
      /\ UNCHANGED <<current, cr3, tlb, running, home, call>>
  BY <1>0, SpaceCreated
<1>2. \A s \in Space, v \in VPage : WalkFrom(s, v)' = WalkFrom(s, v)
  BY <1>0, SpaceCreatedWalks
<1>3. \A v \in VPage : WalkFrom(f, v)' = IF v < Entries THEN v ELSE 0
  BY <1>0, SpaceCreatedWalks
<1>4. /\ mem'[f] = BootDirectory /\ \A g \in Frame : g # f => mem'[g] = mem[g]
      /\ mem' \in [Frame -> [0 .. Entries - 1 -> Nat]]
  BY <1>1 DEF IInv, Shape, TypeOK
<1>5. tables'[f] = BootDirectory /\ \A s \in Space : tables'[s] = tables[s]
  BY <1>1
<1>6. TypeOK'
  <2>1. tables' \in [Space' -> [0 .. Entries - 1 -> Nat]]
    BY <1>1 DEF IInv, Shape, TypeOK
  <2>2. home' \in [Thread -> Space']
    BY <1>1 DEF IInv, Shape, TypeOK
  <2>3. QED
    BY <1>1, <1>4, <2>1, <2>2 DEF IInv, Shape, TypeOK
<1>7. CopiesAgree'
  <2>1. \A s \in Space : s \in Frame
    BY Constants DEF IInv, Shape, TypeOK
  <2>2. QED
    BY <1>1, <1>4, <1>5, <2>1 DEF IInv, Shape, CopiesAgree
<1>8. LowPagesShared'
  BY <1>1, <1>4, <1>5, Constants DEF IInv, Shape, LowPagesShared
<1>9. FramesOwned'
  <2>1. \A s \in Space, d \in 1 .. Entries - 1 :
          tables[s][d] # 0 => tables[s][d] \in Pool \ (free \cup Space)
    BY DEF IInv, Shape, FramesOwned
  <2>2. \A s \in Space', d \in 1 .. Entries - 1 : tables'[s][d] # 0 =>
          s \in Space /\ tables'[s][d] = tables[s][d]
    BY <1>1, <1>5
  <2>3. \A s \in Space', d \in 1 .. Entries - 1 :
          tables'[s][d] # 0 => tables'[s][d] \in Pool \ (free' \cup Space')
    BY <2>1, <2>2, <1>1
  <2>4. \A s, r \in Space, d, e \in 1 .. Entries - 1 :
          tables[s][d] # 0 /\ tables[s][d] = tables[r][e] => s = r /\ d = e
    BY DEF IInv, Shape, FramesOwned
  <2>5. \A s, r \in Space', d, e \in 1 .. Entries - 1 :
          tables'[s][d] # 0 /\ tables'[s][d] = tables'[r][e] => s = r /\ d = e
    BY <2>2, <2>4
  <2>6. free' \cap Space' = {}
    BY <1>1 DEF IInv, Shape, FramesOwned
  <2>7. QED
    BY <2>3, <2>5, <2>6 DEF FramesOwned
<1>10. CallsCurrent'
  <2>1. \A u \in Thread : tables'[home'[u]] = tables[home[u]]
    BY <1>1, <1>5 DEF IInv, Shape, TypeOK
  <2>2. QED
    BY <1>1, <2>1 DEF IInv, Shape, CallsCurrent
<1>11. KernelPagesUnmapped'
  <2>1. ASSUME NEW s \in Space', NEW v \in VPage, v >= Entries, ~ vmm_is_user_address(v)
        PROVE  WalkFrom(s, v)' = 0
    <3>1. CASE s \in Space
      BY <3>1, <2>1, <1>2 DEF IInv, KernelPagesUnmapped
    <3>2. CASE s = f
      <4>1. v \in Nat /\ Entries \in Nat /\ ~ (v < Entries)
        BY <2>1, Constants
      <4>2. QED
        BY <3>2, <4>1, <1>3
    <3>3. QED
      BY <3>1, <3>2, <1>1
  <2>2. QED
    BY <2>1 DEF KernelPagesUnmapped
<1>12. TlbCurrent'
  <2>1. \A w : BeingChanged(w) => BeingChanged(w)'
    BY <1>1 DEF BeingChanged
  <2>2. ASSUME NEW e \in tlb PROVE (WalkFrom(cr3, e[1]) = e[2] \/ BeingChanged(e[1]))'
    <3>1. e[1] \in VPage /\ cr3 \in Space
      BY DEF IInv, Shape, TypeOK
    <3>2. WalkFrom(cr3, e[1])' = WalkFrom(cr3, e[1])
      BY <3>1, <1>1, <1>2
    <3>3. QED
      BY <2>1, <3>2 DEF IInv, TlbCurrent, NoStaleTranslation
  <2>3. QED
    BY <2>2, <1>1 DEF IInv, TlbCurrent, NoStaleTranslation
<1>13. QED
  BY <1>6, <1>7, <1>8, <1>9, <1>10, <1>11, <1>12 DEF IInv, Shape

(* The frames of an address space that no thread is in go back.            *)
LEMMA DestroyStep ==
  ASSUME IInv, NEW t \in Thread, NEW s \in Space, address_space_destroy(t, s)
  PROVE  /\ IInv'
         /\ Space' = Space \ {s} /\ s \notin {KernelDirectory, current}
         /\ \A r, v : WalkFrom(r, v)' = WalkFrom(r, v)
<1> DEFINE given == {tables[s][d] : d \in {e \in 1 .. Entries - 1 : tables[s][e] # 0}}
<1>1. /\ UNCHANGED <<mem, current, cr3, tlb, running, home, call>>
      /\ s \notin {KernelDirectory, current}
      /\ \A u \in Thread : home[u] # s
      /\ free' = free \cup {s} \cup given
      /\ tables' = [r \in Space \ {s} |-> tables[r]]
  BY DEF address_space_destroy, Space
<1>2. /\ Space' = Space \ {s}
      /\ \A r \in Space \ {s} : tables'[r] = tables[r]
      /\ \A r, v : WalkFrom(r, v)' = WalkFrom(r, v)
  BY <1>1 DEF Space, WalkFrom
<1>3. \A r \in Space, d \in 1 .. Entries - 1 :
        tables[r][d] # 0 => tables[r][d] \in Pool \ (free \cup Space)
  BY DEF IInv, Shape, FramesOwned
<1>4. given \subseteq Pool \ Space
  BY <1>3
<1>5. \A r \in Space \ {s}, d \in 1 .. Entries - 1 : tables[r][d] # 0 => tables[r][d] \notin given
  BY DEF IInv, Shape, FramesOwned
<1> HIDE DEF given
<1>6. cr3 # s /\ current # s /\ s \in Pool
  BY <1>1 DEF IInv, Shape, TypeOK, CopiesAgree
<1>7. TypeOK'
  <2>1. tables' \in [Space' -> [0 .. Entries - 1 -> Nat]]
    BY <1>1, <1>2 DEF IInv, Shape, TypeOK
  <2>2. home' \in [Thread -> Space']
    BY <1>1, <1>2 DEF IInv, Shape, TypeOK
  <2>3. QED
    BY <1>1, <1>2, <1>4, <1>6, <2>1, <2>2 DEF IInv, Shape, TypeOK
<1>8. CopiesAgree' /\ LowPagesShared'
  BY <1>1, <1>2 DEF IInv, Shape, CopiesAgree, LowPagesShared
<1>9. FramesOwned'
  <2>1. free' \cap Space' = {}
    BY <1>1, <1>2, <1>4 DEF IInv, Shape, FramesOwned
  <2>2. \A r \in Space', d \in 1 .. Entries - 1 :
          tables'[r][d] # 0 => tables'[r][d] \in Pool \ (free' \cup Space')
    BY <1>1, <1>2, <1>3, <1>5
  <2>3. \A q, r \in Space', d, e \in 1 .. Entries - 1 :
          tables'[q][d] # 0 /\ tables'[q][d] = tables'[r][e] => q = r /\ d = e
    BY <1>2 DEF IInv, Shape, FramesOwned
  <2>4. QED
    BY <2>1, <2>2, <2>3 DEF FramesOwned
<1>10. CallsCurrent'
  <2>1. \A u \in Thread : tables'[home'[u]] = tables[home[u]]
    BY <1>1, <1>2 DEF IInv, Shape, TypeOK
  <2>2. QED
    BY <1>1, <2>1 DEF IInv, Shape, CallsCurrent
<1>11. KernelPagesUnmapped'
  BY <1>2 DEF IInv, KernelPagesUnmapped
<1>12. TlbCurrent'
  <2>1. \A w : BeingChanged(w) => BeingChanged(w)'
    BY <1>1 DEF BeingChanged
  <2>2. QED
    BY <2>1, <1>1, <1>2 DEF IInv, TlbCurrent, NoStaleTranslation
<1>13. QED
  BY <1>1, <1>2, <1>7, <1>8, <1>9, <1>10, <1>11, <1>12 DEF IInv, Shape

-----------------------------------------------------------------------------
(* Together.                                                               *)

(* What paging_init leaves.                                                *)
LEMMA InitHolds ==
  ASSUME Init
  PROVE  IInv
<1>1. /\ tables = [s \in {KernelDirectory} |-> BootDirectory]
      /\ free = Pool /\ current = KernelDirectory /\ cr3 = KernelDirectory
      /\ tlb = {} /\ running \in Thread
      /\ home = [t \in Thread |-> KernelDirectory]
      /\ call = [t \in Thread |-> Idle]
  BY DEF Init
<1>2. Space = {KernelDirectory}
  BY <1>1 DEF Space
<1>3. /\ BootDirectory \in [0 .. Entries - 1 -> Nat]
      /\ IdentityTable \in [0 .. Entries - 1 -> Nat]
      /\ Zeros \in [0 .. Entries - 1 -> Nat]
      /\ BootDirectory[0] = FirstTable
      /\ \A d \in 1 .. Entries - 1 : BootDirectory[d] = 0
  BY Constants DEF BootDirectory, IdentityTable, Zeros
<1>4. mem = [[f \in Frame |-> Zeros] EXCEPT ![KernelDirectory] = BootDirectory,
                                             ![FirstTable] = IdentityTable]
  BY DEF Init
<1>5. /\ mem \in [Frame -> [0 .. Entries - 1 -> Nat]]
      /\ mem[KernelDirectory] = BootDirectory /\ mem[FirstTable] = IdentityTable
  BY <1>3, <1>4, Constants
<1>6. TypeOK
  BY <1>1, <1>2, <1>3, <1>5 DEF TypeOK
<1>7. CopiesAgree /\ LowPagesShared
  BY <1>1, <1>2, <1>3, <1>5 DEF CopiesAgree, LowPagesShared
<1>8. FramesOwned
  BY <1>1, <1>2, <1>3, Constants DEF FramesOwned
<1>9. CallsCurrent /\ TlbCurrent
  BY <1>1 DEF CallsCurrent, TlbCurrent, NoStaleTranslation
<1>10. KernelPagesUnmapped
  <2>1. ASSUME NEW v \in VPage, v >= Entries PROVE WalkFrom(KernelDirectory, v) = 0
    <3>1. v \in 0 .. Entries * Entries - 1
      BY Constants
    <3>2. DirIndex(v) \in 1 .. Entries - 1
      BY <3>1, <2>1, IndexFacts
    <3>3. QED
      BY <3>2, <1>3, <1>5 DEF WalkFrom
  <2>2. QED
    BY <2>1, <1>2 DEF KernelPagesUnmapped
<1>11. QED
  BY <1>6, <1>7, <1>8, <1>9, <1>10 DEF IInv, Shape

(* Every step, and no step, keeps the invariant.                           *)
LEMMA NextHolds ==
  ASSUME IInv, CarefulUse, [Next]_vars
  PROVE  IInv'
<1>1. CASE Fill
  BY <1>1, FillStep
<1>2. ASSUME NEW t \in Thread, Switch(t) PROVE IInv'
  BY <1>2, SwitchStep
<1>3. ASSUME NEW t \in Thread, NEW s \in Space, Restart(t, s) PROVE IInv'
  BY <1>3, RestartStep
<1>4. ASSUME NEW t \in Thread, NEW s \in Space, address_space_destroy(t, s) PROVE IInv'
  BY <1>4, DestroyStep
<1>5. ASSUME NEW t \in Thread, address_space_create(t) PROVE IInv'
  BY <1>5, SpaceCreateStep
<1>6. ASSUME NEW t \in Thread, NEW m \in MapInput, vmm_map_page(t, m[1], m[2]) PROVE IInv'
  BY <1>6, MapStep
<1>7. ASSUME NEW t \in Thread, NEW v \in UnmapInput, vmm_unmap_page(t, v) PROVE IInv'
  BY <1>7, UnmapStep
<1>8. ASSUME NEW t \in Thread, vmm_create_page_table(t) PROVE IInv'
  <2>1. CASE free = {}
    BY <1>8, <2>1, NoTableStep
  <2>2. CASE free # {}
    BY <1>8, <2>2, CreateTableStep
  <2>3. QED
    BY <2>1, <2>2
<1>9. ASSUME NEW t \in Thread, StoreEntry(t) PROVE IInv'
  BY <1>9, StoreStep
<1>10. ASSUME NEW t \in Thread, vmm_invalidate_page(t) PROVE IInv'
  BY <1>10, InvalidateStep
<1>11. CASE UNCHANGED vars
  <2>1. UNCHANGED <<mem, tables, free, current, cr3, tlb, running, home, call>>
    BY <1>11 DEF vars
  <2>2. TypeOK'
    BY <2>1, EntriesKept DEF IInv, Shape, TypeOK
  <2>3. CopiesAgree' /\ CallsCurrent'
    BY <2>1, EntriesKept DEF IInv, Shape, CopiesAgree, CallsCurrent
  <2>4. TlbCurrent'
    <3>1. \A w : BeingChanged(w) => BeingChanged(w)'
      BY <2>1 DEF BeingChanged
    <3>2. QED
      BY <3>1, <2>1, EntriesKept DEF IInv, TlbCurrent, NoStaleTranslation
  <2>5. QED
    BY <2>1, <2>2, <2>3, <2>4, EntriesKept DEF IInv, Shape
<1>12. QED
  BY <1>1, <1>2, <1>3, <1>4, <1>5, <1>6, <1>7, <1>8, <1>9, <1>10, <1>11 DEF Next, Space

(* The inductive invariant, wherever the calls are used with care.         *)
THEOREM Inductive ==
  ASSUME CarefulUse
  PROVE  Spec => []IInv
<1>1. Init => IInv
  BY InitHolds
<1>2. IInv /\ [Next]_vars => IInv'
  BY NextHolds
<1>3. QED
  BY <1>1, <1>2, PTL DEF Spec

(* The kernel's pointers, CR3 and the directories never disagree: what     *)
(* vmm_get_physical_address answers is what the processor will use, in     *)
(* every address space, through every interleaving of creations, calls,    *)
(* switches and destructions.                                              *)
THEOREM LookupsAlwaysAgree ==
  ASSUME CarefulUse
  PROVE  Spec => []LookupsAgree
<1>1. ASSUME IInv PROVE LookupsAgree
  <2>1. cr3 = current /\ current = home[running] /\ \A s \in Space : mem[s] = tables[s]
    BY <1>1 DEF IInv, Shape, CopiesAgree
  <2>2. \A s \in Space, v \in VPage : vmm_get_physical_address(s, v) = WalkFrom(s, v)
    BY <2>1 DEF vmm_get_physical_address, WalkFrom
  <2>3. QED
    BY <2>1, <2>2 DEF LookupsAgree, Space
<1>2. QED
  BY <1>1, Inductive, PTL

(* When vmm_map_page or vmm_unmap_page has returned, no TLB entry for the  *)
(* page contradicts the tables, although the timer may stop the thread     *)
(* between its store and invlpg and other threads of the process run.      *)
THEOREM NoTranslationOutlives ==
  ASSUME CarefulUse
  PROVE  Spec => []NoStaleTranslation
<1>1. IInv => NoStaleTranslation
  BY DEF IInv, TlbCurrent
<1>2. QED
  BY <1>1, Inductive, PTL

-----------------------------------------------------------------------------
(* The refinement.                                                         *)

LEMMA FoundKept ==
  ASSUME Space' = Space, \A s \in Space, v \in VPage : WalkFrom(s, v)' = WalkFrom(s, v)
  PROVE  Found' = Found
BY DEF Found, Space

(* A store to an entry changes one page of the current address space, or   *)
(* nothing, when it empties the entry of a page that nobody can map.       *)
LEMMA StoreImplements ==
  ASSUME IInv, CarefulUse, NEW t \in Thread, StoreEntry(t)
  PROVE  [M!Next]_<<Found, current>>
<1> DEFINE v == call[t].page
           f == call[t].frame
<1>1. /\ v \in VPage /\ v >= Entries /\ f \in Data \cup {0}
      /\ UNCHANGED <<tables, current>>
      /\ call[t] # Idle
  BY Stored
<1>2. \A s \in Space, w \in VPage :
        WalkFrom(s, w)' = IF s = current /\ w = v THEN f ELSE WalkFrom(s, w)
  BY StoredWalks DEF IInv, Shape, CopiesAgree
<1>3. Space' = Space /\ current \in Space
  BY <1>1 DEF Space, IInv, Shape, TypeOK
<1> HIDE DEF v, f
<1>4. CASE vmm_is_user_address(v)
  <2>1. Found' = [s \in Space |-> [w \in VPage |->
                    IF s = current /\ w = v THEN f ELSE WalkFrom(s, w)]]
    BY <1>2, <1>3 DEF Found, Space
  <2>2. Found' = [Found EXCEPT ![current][v] = f]
    BY <2>1, <1>1, <1>3 DEF Found, Space
  <2>3. M!Change
    BY <2>2, <1>1, <1>4 DEF M!Change
  <2>4. QED
    BY <2>3 DEF M!Next
<1>5. CASE ~ vmm_is_user_address(v)
  <2>1. f = 0
    BY <1>1, <1>5 DEF IInv, Shape, CallsCurrent, v, f
  <2>2. WalkFrom(current, v) = 0
    BY <1>1, <1>3, <1>5 DEF IInv, KernelPagesUnmapped
  <2>3. Found' = Found
    BY <2>1, <2>2, <1>2, <1>3, FoundKept
  <2>4. QED
    BY <2>3, <1>1
<1>6. QED
  BY <1>4, <1>5

LEMMA SpaceCreateImplements ==
  ASSUME IInv, CarefulUse, NEW t \in Thread, address_space_create(t)
  PROVE  M!Create
<1>1. PICK f : f = Min(free)
  OBVIOUS
<1>2. f \in Pool \ Space /\ Space' = Space \cup {f} /\ UNCHANGED current
  BY <1>1, SpaceCreated
<1>3. \A s \in Space, v \in VPage : WalkFrom(s, v)' = WalkFrom(s, v)
  BY <1>1, SpaceCreatedWalks
<1>4. \A v \in VPage : WalkFrom(f, v)' = IF v < Entries THEN v ELSE 0
  BY <1>1, SpaceCreatedWalks
<1> DEFINE Given == [v \in VPage |-> IF v < Entries THEN v ELSE 0]
<1>5. DOMAIN Found = Space /\ \A s \in Space : Found[s] = [v \in VPage |-> WalkFrom(s, v)]
  BY DEF Found, Space
<1>6. Found' = [s \in Space \cup {f} |-> [v \in VPage |-> WalkFrom(s, v)']]
  BY <1>2 DEF Found, Space
<1>7. ASSUME NEW s \in Space \cup {f}
      PROVE  [v \in VPage |-> WalkFrom(s, v)'] = IF s = f THEN Given ELSE Found[s]
  BY <1>2, <1>3, <1>4, <1>5
<1>8. Found' = [s \in Space \cup {f} |-> IF s = f THEN Given ELSE Found[s]]
  BY <1>6, <1>7
<1>9. QED
  BY <1>2, <1>5, <1>8 DEF M!Create

LEMMA DestroyImplements ==
  ASSUME IInv, NEW t \in Thread, NEW s \in Space, address_space_destroy(t, s)
  PROVE  M!Destroy
<1>1. /\ Space' = Space \ {s} /\ s \notin {KernelDirectory, current}
      /\ \A r, v : WalkFrom(r, v)' = WalkFrom(r, v)
      /\ UNCHANGED current
  BY DestroyStep DEF address_space_destroy
<1>2. Found' = [r \in Space \ {s} |-> [v \in VPage |-> WalkFrom(r, v)]]
  BY <1>1 DEF Found, Space
<1>3. DOMAIN Found = Space /\ \A r \in Space : Found[r] = [v \in VPage |-> WalkFrom(r, v)]
  BY DEF Found, Space
<1>4. Found' = [r \in DOMAIN Found \ {s} |-> Found[r]]
  BY <1>2, <1>3
<1>5. QED
  BY <1>1, <1>3, <1>4 DEF M!Destroy

(* The other steps change no entry that anybody would find; a switch may   *)
(* make another address space the current one.                             *)
LEMMA OthersImplement ==
  ASSUME IInv, IInv', UNCHANGED <<mem, tables, free>>
  PROVE  [M!Next]_<<Found, current>>
<1>1. Found' = Found
  BY EntriesKept, FoundKept
<1>2. current' \in DOMAIN Found
  BY EntriesKept DEF Found, Space, IInv, Shape, TypeOK
<1>3. QED
  BY <1>1, <1>2 DEF M!Next, M!Activate

LEMMA StepImplements ==
  ASSUME IInv, IInv', CarefulUse, [Next]_vars
  PROVE  [M!Next]_<<Found, current>>
<1>1. ASSUME NEW t \in Thread, address_space_create(t) PROVE M!Next
  BY <1>1, SpaceCreateImplements DEF M!Next
<1>2. ASSUME NEW t \in Thread, NEW s \in Space, address_space_destroy(t, s) PROVE M!Next
  BY <1>2, DestroyImplements DEF M!Next
<1>3. ASSUME NEW t \in Thread, StoreEntry(t) PROVE [M!Next]_<<Found, current>>
  BY <1>3, StoreImplements
<1>4. ASSUME NEW t \in Thread, vmm_create_page_table(t) PROVE [M!Next]_<<Found, current>>
  <2>1. CASE free = {}
    BY <1>4, <2>1, OthersImplement DEF vmm_create_page_table
  <2>2. CASE free # {}
    <3>1. UNCHANGED current
      BY <1>4, <2>2, Created
    <3>2. Space' = Space
      BY <1>4, <2>2, Created DEF Space, IInv, Shape, TypeOK
    <3>3. \A s \in Space, v \in VPage : WalkFrom(s, v)' = WalkFrom(s, v)
      BY <1>4, <2>2, CreatedWalks
    <3>4. QED
      BY <3>1, <3>2, <3>3, FoundKept
  <2>3. QED
    BY <2>1, <2>2
<1>5. CASE Fill
  BY <1>5, OthersImplement DEF Fill
<1>6. ASSUME NEW t \in Thread, Switch(t) PROVE [M!Next]_<<Found, current>>
  BY <1>6, OthersImplement DEF Switch
<1>7. ASSUME NEW t \in Thread, NEW s \in Space, Restart(t, s) PROVE [M!Next]_<<Found, current>>
  BY <1>7, OthersImplement DEF Restart
<1>8. ASSUME NEW t \in Thread, NEW m \in MapInput, vmm_map_page(t, m[1], m[2])
      PROVE  [M!Next]_<<Found, current>>
  BY <1>8, OthersImplement DEF vmm_map_page
<1>9. ASSUME NEW t \in Thread, NEW v \in UnmapInput, vmm_unmap_page(t, v)
      PROVE  [M!Next]_<<Found, current>>
  BY <1>9, OthersImplement DEF vmm_unmap_page
<1>10. ASSUME NEW t \in Thread, vmm_invalidate_page(t) PROVE [M!Next]_<<Found, current>>
  BY <1>10, OthersImplement DEF vmm_invalidate_page
<1>11. CASE UNCHANGED vars
  BY <1>11, OthersImplement DEF vars
<1>12. QED
  BY <1>1, <1>2, <1>3, <1>4, <1>5, <1>6, <1>7, <1>8, <1>9, <1>10, <1>11 DEF Next, Space

(* At first there is the kernel's address space, which maps the low pages. *)
LEMMA InitImplements ==
  ASSUME Init
  PROVE  M!Init
<1>1. IInv /\ Space = {KernelDirectory} /\ current = KernelDirectory
  BY InitHolds DEF Init, Space
<1>2. ASSUME NEW v \in VPage
      PROVE  WalkFrom(KernelDirectory, v) = IF v < Entries THEN v ELSE 0
  <2>1. v \in 0 .. Entries * Entries - 1
    BY Constants
  <2>2. CASE v < Entries
    BY <2>1, <2>2, <1>1, Walks DEF IInv, Shape
  <2>3. CASE ~ (v < Entries)
    <3>1. DirIndex(v) \in 1 .. Entries - 1
      BY <2>1, <2>3, IndexFacts, Constants
    <3>2. tables[KernelDirectory][DirIndex(v)] = 0
      BY <3>1, Constants DEF Init, BootDirectory, Zeros
    <3>3. mem[KernelDirectory] = tables[KernelDirectory]
      BY <1>1 DEF IInv, Shape, CopiesAgree
    <3>4. QED
      BY <2>3, <3>2, <3>3 DEF WalkFrom
  <2>4. QED
    BY <2>2, <2>3
<1>3. Found = [s \in {KernelDirectory} |-> [v \in VPage |-> IF v < Entries THEN v ELSE 0]]
  BY <1>1, <1>2 DEF Found, Space
<1>4. QED
  BY <1>1, <1>3 DEF M!Init

(* The tables implement the mappings: address spaces are isolated from     *)
(* each other and from what their frames held before, and a call changes   *)
(* one page of the current one.                                            *)
THEOREM TablesImplementMappings ==
  ASSUME CarefulUse
  PROVE  Spec => ImplementsMappings
<1>1. Init => M!Init
  BY InitImplements
<1>2. IInv /\ IInv' /\ [Next]_vars => [M!Next]_<<Found, current>>
  BY StepImplements
<1>3. QED
  BY <1>1, <1>2, Inductive, PTL DEF Spec, ImplementsMappings, M!Spec
=============================================================================
