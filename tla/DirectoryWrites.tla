--------------------------- MODULE DirectoryWrites ---------------------------
(***************************************************************************)
(* The commands touch, mkdir, rm, rmdir and mv of Directories once more,   *)
(* as the sequences of sector writes they are: the table entries of        *)
(* kernel/fs/fat32.c and the slots of kernel/fs/directory.c.  A write may  *)
(* fail, with the sector as it was or already written, and the machine may *)
(* stop between two writes.  The shell runs one command at a time, so the  *)
(* lookups before the first write are one step with it.                    *)
(***************************************************************************)
EXTENDS Fat32, Slots, FiniteSets

CONSTANTS
  Name,
  Bytes,       \* what a slot of a cluster with a file's text looks like
  Faults,      \* where a command may fail, and how: <<kind, pc, fault>>,
               \* fault one of "write", "late", "stop"
  MaxFaults    \* bound: the faults of one behaviour

ASSUME DirectoryWritesAssumption ==
  /\ Zero = End
  /\ ClusterSize \in Nat \ {0, 1}
  /\ MaxFaults \in Nat

VARIABLES
  op,          \* the command in progress, with its local variables
  faults,
  slots,       \* what the disk shows: the slots of the directory that begins
               \* with each cluster,
  shown        \* and the nodes, as NodesOf has them

vars == <<volume, op, faults, slots, shown>>

Root == 2      \* fat32_fs.root_cluster

(* The slots of the directory that begins with cluster c of a volume.      *)
SlotsOn(table, sectors, c) ==
  LET chain == SelectSeq(Chain_in(table, c), LAMBDA d : d \in Clusters)
  IN  FlattenSeq([i \in DOMAIN chain |-> sectors[chain[i]]])

NoOp == [pc |-> "idle", kind |-> "none"]

Init ==
  /\ fat = [c \in Clusters |-> IF c = Root THEN Eoc ELSE Free]
  /\ data = [c \in Clusters \cup {Boot} |-> Zeroed]
  /\ op = NoOp
  /\ faults = 0
  /\ slots = [c \in Clusters |-> Zeroed]
  /\ shown = NodesOf(slots, Root, TotalClusters)

-----------------------------------------------------------------------------

At(pc) == op.pc = pc
Goto(pc) == op' = [op EXCEPT !.pc = pc]
Return == op' = NoOp
NoFault == UNCHANGED faults

Fault(kind) ==
  /\ <<op.kind, op.pc, kind>> \in Faults /\ faults < MaxFaults
  /\ faults' = faults + 1

(* A sector is written, and the command goes on, or gives up: disk_write   *)
(* returns an error also when only the flush after the write has failed.   *)
Sector(written, next, failed) ==
  \/ written /\ NoFault /\ next
  \/ Fault("write") /\ UNCHANGED volume /\ failed
  \/ Fault("late") /\ written /\ failed

(* Another entry in slot n of the directory c.                             *)
Put(c, n, e) ==
  LET sector == Chain(c)[((n - 1) \div ClusterSize) + 1]
  IN  Write_cluster(sector, [data[sector] EXCEPT ![((n - 1) % ClusterSize) + 1] = e])

-----------------------------------------------------------------------------
(* The commands, up to their first write.                                  *)

Dirs == {x \in shown : x.kind = "dir"}

Vacant(x, n) == SlotOf(slots[x.first], n) = 0

(* directory_create_entry_in_cluster: an unused slot, or a new cluster.    *)
Place(c) == IF Unused(slots[c]) = {} THEN "claim" ELSE "add"

(* parent is the directory that gets the entry, from the one that has the  *)
(* entry called name; new is the cluster that is being allocated, made the *)
(* first cluster of a new directory, cur the one to be freed next.         *)
Command(kind, pc, parent, entry) ==
  [kind |-> kind, pc |-> pc, parent |-> parent, entry |-> entry,
   from |-> 0, name |-> "", new |-> 0, made |-> 0, cur |-> 0]

Touch(x, n) ==
  /\ Vacant(x, n)
  /\ op' = Command("touch", Place(x.first), x.first, Entry("file", n, 0))

Mkdir(x, n) ==
  /\ Vacant(x, n)
  /\ op' = Command("mkdir", "claim", x.first, Entry("dir", n, 0))

(* file_delete and directory_delete: the clusters, then the entry.         *)
Removal(kind, y) ==
  [Command(kind, IF y.first = 0 THEN "delete" ELSE "free", 0, End)
     EXCEPT !.from = y.in, !.name = Last(y.path), !.cur = y.first]

Rm(y) == y.kind = "file" /\ op' = Removal("rm", y)

Rmdir(y) ==
  /\ y.kind = "dir" /\ y.path # <<>>
  /\ OnlyDots(slots[y.first])
  /\ op' = Removal("rmdir", y)

(* file_move: in one directory the entry is rewritten, between two it is   *)
(* added first and deleted then.                                           *)
Mv(y, x, n) ==
  /\ y.kind = "file" \/ y.in = x.first
  /\ y.path # <<>> /\ Vacant(x, n)
  /\ op' = [Command("mv", IF y.in = x.first THEN "rename" ELSE Place(x.first),
                    x.first, Entry(y.kind, n, y.first))
              EXCEPT !.from = y.in, !.name = Last(y.path)]

Begin ==
  /\ At("idle")
  /\ \/ \E x \in Dirs, n \in Name : Touch(x, n) \/ Mkdir(x, n)
     \/ \E y \in shown : Rm(y) \/ Rmdir(y)
     \/ \E y \in shown, x \in Dirs, n \in Name : Mv(y, x, n)
  /\ UNCHANGED <<volume, faults>>

(* file_write gives an empty file a cluster and bytes; Files has its steps. *)
Write(y) ==
  /\ At("idle")
  /\ y.kind = "file" /\ y.first = 0 /\ FreeClusters # {}
  /\ LET c == First_free(FreeClusters)
         n == SlotOf(slots[y.in], Last(y.path))
         sector == Chain(y.in)[((n - 1) \div ClusterSize) + 1]
     IN  /\ fat' = [fat EXCEPT ![c] = Eoc]
         /\ data' = [data EXCEPT ![c] = [i \in 1 .. ClusterSize |-> Bytes],
                                 ![sector][((n - 1) % ClusterSize) + 1].first = c]
  /\ UNCHANGED <<op, faults>>

-----------------------------------------------------------------------------
(* What follows a step.                                                    *)

(* The command frees a chain on its way out.                               *)
Dispose(c) == op' = [op EXCEPT !.pc = "free", !.cur = c]

(* Mutant: mkdir keeps the cluster of a directory it could not enter.      *)
FailedKeeps == Return

(* directory_create_entry_in_cluster has failed: mkdir frees the cluster   *)
(* of its directory, the others just return.                               *)
EntryFailed == IF op.made # 0 THEN Dispose(op.made) ELSE Return

(* It has succeeded: mkdir goes on with the dots, mv with the old entry.   *)
EntryMade ==
  CASE op.kind = "mkdir" -> Goto("dot")
    [] op.kind = "mv" -> Goto("delete")
    [] OTHER -> Return

(* fat32_allocate_cluster gave a cluster: mkdir's first is the directory,  *)
(* any other goes to the end of the parent.                                *)
ForDirectory == op.kind = "mkdir" /\ op.made = 0

Allocated ==
  IF ForDirectory
    THEN op' = [op EXCEPT !.pc = Place(op.parent), !.made = op.new, !.entry.first = op.new]
    ELSE Goto("link")

NotAllocated == IF ForDirectory THEN Return ELSE EntryFailed

(* A chain is freed: rm and rmdir go on with the entry; the cluster that   *)
(* could not be appended is followed by that of mkdir's directory.         *)
ChainFreed ==
  CASE op.kind \in {"rm", "rmdir"} -> Goto("delete")
    [] op.kind = "mkdir" /\ op.cur # op.made -> Dispose(op.made)
    [] OTHER -> Return

ChainNotFreed == IF op.kind \in {"rm", "rmdir"} THEN Return ELSE ChainFreed

-----------------------------------------------------------------------------
(* The writes.                                                             *)

(* fat32_allocate_cluster: the cluster is taken, zeroed, and given back    *)
(* when that fails.                                                        *)
Claim ==
  /\ At("claim")
  /\ IF FreeClusters = {}
       THEN NotAllocated /\ NoFault /\ UNCHANGED volume
       ELSE LET c == First_free(FreeClusters) IN
            Sector(Write_fat_entry(c, Eoc),
                   op' = [op EXCEPT !.pc = "zero", !.new = c], NotAllocated)

(* Mutant: the cluster keeps its old bytes.                                *)
ZeroForgotten == At("zero") /\ Allocated /\ NoFault /\ UNCHANGED volume

Zero_new ==
  /\ At("zero")
  /\ Sector(Write_cluster(op.new, Zeroed), Allocated, Goto("unclaim"))

Unclaim ==
  /\ At("unclaim")
  /\ Sector(Write_fat_entry(op.new, Free), NotAllocated, NotAllocated)

(* fat32_append_cluster.  When it fails, the new cluster is freed.         *)
Link ==
  /\ At("link")
  /\ Sector(Write_fat_entry(Last(Chain(op.parent)), op.new), Goto("mark"), Dispose(op.new))

Mark ==
  /\ At("mark")
  /\ Sector(Write_fat_entry(op.new, Eoc), Goto("rezero"), Dispose(op.new))

Rezero ==
  /\ At("rezero")
  /\ Sector(Write_cluster(op.new, Zeroed), Goto("add"), Dispose(op.new))

(* The entry goes into the first unused slot.                              *)
Add ==
  /\ At("add")
  /\ Sector(Put(op.parent, Least(Unused(slots[op.parent])), op.entry), EntryMade, EntryFailed)

(* directory_create's two entries in the new directory.                    *)
WriteDot ==
  /\ At("dot")
  /\ Sector(Put(op.made, 1, Entry("dir", ".", op.made)), Goto("dotdot"), Return)

WriteDotDot ==
  /\ At("dotdot")
  /\ Sector(Put(op.made, 2, Entry("dir", "..", op.parent)), Return, Return)

(* fat32_free_cluster_chain.                                               *)
FreeNext ==
  /\ At("free")
  /\ Sector(Write_fat_entry(op.cur, Free),
            IF fat[op.cur] \in Clusters THEN op' = [op EXCEPT !.cur = fat[op.cur]]
                                        ELSE ChainFreed,
            ChainNotFreed)

(* Mutant: the test of the result is inverted.                             *)
DeleteInverted ==
  /\ At("delete")
  /\ LET n == SlotOf(slots[op.from], op.name)
         undo == IF op.kind = "mv" THEN Goto("undo") ELSE Return
     IN  IF n = 0 THEN Return /\ NoFault /\ UNCHANGED volume
                  ELSE Sector(Put(op.from, n, Deleted), undo, Return)

(* directory_delete_in_cluster of the old entry; when that fails,          *)
(* directory_move_entry deletes the new one.                               *)
Delete ==
  /\ At("delete")
  /\ LET n == SlotOf(slots[op.from], op.name)
         undo == IF op.kind = "mv" THEN Goto("undo") ELSE Return
     IN  IF n = 0 THEN undo /\ NoFault /\ UNCHANGED volume
                  ELSE Sector(Put(op.from, n, Deleted), Return, undo)

Undo ==
  /\ At("undo")
  /\ LET n == SlotOf(slots[op.parent], op.entry.name) IN
       IF n = 0 THEN Return /\ NoFault /\ UNCHANGED volume
                ELSE Sector(Put(op.parent, n, Deleted), Return, Return)

(* directory_rename_entry.                                                 *)
Rename ==
  /\ At("rename")
  /\ Sector(Put(op.from, SlotOf(slots[op.from], op.name), op.entry), Return, Return)

(* The machine stops in the middle of a command.                           *)
Stop ==
  /\ ~ At("idle")
  /\ Fault("stop") /\ Return
  /\ UNCHANGED volume

Step ==
  \/ Begin \/ \E y \in shown : Write(y)
  \/ Claim \/ Zero_new \/ Unclaim \/ Link \/ Mark \/ Rezero \/ Add
  \/ WriteDot \/ WriteDotDot \/ FreeNext \/ Delete \/ Undo \/ Rename \/ Stop

Next ==
  /\ Step
  /\ slots' = [c \in Clusters |-> SlotsOn(fat', data', c)]
  /\ shown' = NodesOf(slots', Root, TotalClusters)

Spec == Init /\ [][Next]_vars

-----------------------------------------------------------------------------
(* Properties.                                                             *)

(* Whatever fails, the tree that the disk shows changes by one node at a   *)
(* time: no write of a command hides what is beside or below its node, and *)
(* no new directory shows what was in its cluster before.                  *)
Shown == INSTANCE Tree WITH tree <- TreeOf(shown), here <- <<>>

OneNodeAtATime == Shown!Spec

(* The nodes but for the one whose name or clusters a command takes away.  *)
Leaving(x) ==
  /\ op.kind \in {"rm", "rmdir"} \/ op.pc \in {"delete", "undo"}
  /\ x.path # <<>> /\ x.in = op.from /\ Last(x.path) = op.name
Kept == {x \in shown : ~ Leaving(x)}

ChainOf(x) == IF x.first = 0 THEN {} ELSE ToSet(Chain(x.first))

(* The entries on the disk own their clusters: chains end, no two entries  *)
(* lead to one cluster, also after a failed command; and a cluster is lost *)
(* only when something failed.                                             *)
EntriesOwn ==
  /\ \A x \in Kept : x.first # 0 => Last(Chain(x.first)) \in Clusters
                                    /\ fat[Last(Chain(x.first))] = Eoc
  /\ \A x, y \in Kept : x # y => ChainOf(x) \cap ChainOf(y) = {}
  /\ At("idle") /\ faults = 0 =>
       {c \in Clusters : fat[c] # Free} = UNION {ChainOf(x) : x \in shown}

(* Only rm and rmdir take the last name from clusters: a move that fails   *)
(* or is cut short leaves the file under its old or its new name.          *)
NothingVanishes ==
  [][op.kind \notin {"rm", "rmdir"} =>
       {x.first : x \in shown} \ {0} \subseteq {x.first : x \in shown'}]_vars
=============================================================================
