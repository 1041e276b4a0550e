----------------------------- MODULE Directories -----------------------------
(***************************************************************************)
(* The directories of kernel/fs/directory.c, the current directory of      *)
(* kernel/fs/fs.c, and the shell commands mkdir, touch, rm, rmdir, mv and  *)
(* cd.  The shell runs one command at a time, and a command is one step: a *)
(* function of the disk, which gives the disk as it was when it fails      *)
(* without a write.  The files are empty; Files has their clusters.        *)
(***************************************************************************)
EXTENDS Paths, Slots, TLC

CONSTANTS
  Name,           \* names in the form the disk has them
  Stored,         \* directory_set_name: the stored form of a typed name, or
  Rejected,       \*   Rejected
  TotalClusters, ClusterSize,   \* ClusterSize in entries
  Input           \* the paths each command is given; for mv, pairs of them

VARIABLES
  disk,           \* the directories and the number of free clusters
  cwd,            \* filesystem.current_directory_cluster
  path,           \* filesystem.current_path, by its components
  shown           \* history: the tree that the names on the disk show

vars == <<disk, cwd, path, shown>>

(* A directory is known by its first cluster.  It is the sequence of the   *)
(* entries in its chain, as long as a number of clusters; which clusters   *)
(* follow the first makes no difference.  Free clusters are counted.       *)
Cluster == 2 .. TotalClusters + 1
Root == 2                       \* fat32_fs.root_cluster
Zeroed == [i \in 1 .. ClusterSize |-> End]

ASSUME DirectoriesAssumption ==
  /\ TotalClusters \in Nat \ {0} /\ ClusterSize \in Nat \ {0, 1}
  /\ Name \subseteq DOMAIN Stored /\ Rejected \notin Name
  /\ \A n \in DOMAIN Stored : Stored[n] \in Name \cup {Rejected}

Init ==
  /\ disk = [dirs |-> (Root :> Zeroed), free |-> TotalClusters - 1]
  /\ cwd = Root
  /\ path = <<>>
  /\ shown = (<<>> :> "dir")

-----------------------------------------------------------------------------
(* What the driver and the loops of directory.c do to a disk d.            *)

(* fat32_allocate_cluster, which zeroes it, for the directory c.           *)
NewCluster(d) == CHOOSE c \in Cluster \ DOMAIN d.dirs :
                   \A e \in Cluster \ DOMAIN d.dirs : c <= e

Allocated(d, c) == [dirs |-> (c :> Zeroed) @@ d.dirs, free |-> d.free - 1]

(* fat32_free_cluster_chain.                                               *)
FreeChain(d, c) ==
  [dirs |-> [e \in DOMAIN d.dirs \ {c} |-> d.dirs[e]],
   free |-> d.free + (Len(d.dirs[c]) \div ClusterSize)]

(* directory_find_in_cluster; End when there is no such name.              *)
Find(d, c, name) ==
  LET n == SlotOf(d.dirs[c], name) IN IF n = 0 THEN End ELSE d.dirs[c][n]

(* directory_delete_in_cluster and directory_rename_entry: another entry   *)
(* in the slot of a name.                                                  *)
Replaced(d, c, name, e) ==
  LET n == SlotOf(d.dirs[c], name) IN IF n = 0 THEN d ELSE [d EXCEPT !.dirs[c][n] = e]

(* Mutant: only the first cluster of a directory is looked at.             *)
EmptyAtFirst(d, c) ==
  \A n \in Listed(d.dirs[c]) : n <= ClusterSize => d.dirs[c][n].name \in {Dot, DotDot}

directory_is_empty(d, c) == OnlyDots(d.dirs[c])

(* directory_create_entry_in_cluster: the first unused slot, or the first  *)
(* slot of a new cluster behind the others.                                *)
CanAdd(d, c) == Unused(d.dirs[c]) # {} \/ d.free > 0

WithEntry(d, c, e) ==
  LET s == d.dirs[c] IN
  IF Unused(s) # {}
    THEN [d EXCEPT !.dirs[c][Least(Unused(s))] = e]
    ELSE [dirs |-> [d.dirs EXCEPT ![c] = s \o [Zeroed EXCEPT ![1] = e]],
          free |-> d.free - 1]

-----------------------------------------------------------------------------
(* path_lookup: the cluster the last component is looked up in (0 when it  *)
(* is not reached), the entry (End when there is none), and the last name. *)

Follow(d, from, names) ==
  FoldLeft(LAMBDA c, n : LET e == IF c = 0 THEN End ELSE Find(d, c, n)
                         IN  IF e.kind = "dir" THEN e.first ELSE 0,
           from, names)

Looked(parent, entry, leaf) == [parent |-> parent, entry |-> entry, leaf |-> leaf]

RootEntry == Entry("dir", "", Root)

Lookup(p) ==
  LET q == path_normalize(p)
      names == q.components
      parent == Follow(disk, IF q.absolute THEN Root ELSE cwd, Front(names))
  IN  IF ~ Splits(p) THEN Looked(0, End, "")
      ELSE IF ~ q.absolute /\ names = <<DotDot>> /\ cwd = Root
             THEN Looked(Root, RootEntry, DotDot)
      ELSE IF names = <<>>
             THEN IF q.absolute THEN Looked(Root, RootEntry, "") ELSE Looked(0, End, "")
      ELSE Looked(parent, IF parent = 0 THEN End ELSE Find(disk, parent, Last(names)),
                  Last(names))

Found(p) == Lookup(p).entry # End

-----------------------------------------------------------------------------
(* The commands.  All of them fail, and change nothing, when a guard does  *)
(* not hold.                                                               *)

Unmoved == UNCHANGED <<cwd, path>>

(* What directory_create and file_create ask for first.                    *)
IsNew(at) == at.entry = End /\ at.parent # 0 /\ at.leaf # ""

(* Mutant: the parent of a new directory is the current one.               *)
DotsOfCurrent(d, c, parent) ==
  WithEntry(WithEntry(d, c, Entry("dir", Dot, c)), c, Entry("dir", DotDot, cwd))

(* The two entries a directory begins with.                                *)
WithDots(d, c, parent) ==
  WithEntry(WithEntry(d, c, Entry("dir", Dot, c)), c, Entry("dir", DotDot, parent))

(* directory_create: the cluster is taken before the name is checked and   *)
(* the entry is made, and given back when that fails.                      *)
Mkdir(p) ==
  LET at == Lookup(p)
      new == NewCluster(disk)
      taken == Allocated(disk, new)
  IN  /\ IsNew(at) /\ disk.free > 0
      /\ disk' = IF Stored[at.leaf] = Rejected \/ ~ CanAdd(taken, at.parent)
                   THEN FreeChain(taken, new)
                   ELSE WithDots(WithEntry(taken, at.parent,
                                           Entry("dir", Stored[at.leaf], new)),
                                 new, at.parent)
      /\ Unmoved

(* file_create.                                                            *)
Touch(p) ==
  LET at == Lookup(p) IN
  /\ IsNew(at) /\ Stored[at.leaf] # Rejected
  /\ CanAdd(disk, at.parent)
  /\ disk' = WithEntry(disk, at.parent, Entry("file", Stored[at.leaf], 0))
  /\ Unmoved

(* file_delete, of a file without clusters.                                *)
Rm(p) ==
  LET at == Lookup(p) IN
  /\ at.entry.kind = "file"
  /\ disk' = Replaced(disk, at.parent, at.leaf, Deleted)
  /\ Unmoved

(* directory_delete: the clusters are freed, then the entry is deleted.    *)
Rmdir(p) ==
  LET at == Lookup(p) IN
  /\ at.entry.kind = "dir"
  /\ directory_is_empty(disk, at.entry.first)
  /\ disk' = Replaced(FreeChain(disk, at.entry.first), at.parent, at.leaf, Deleted)
  /\ Unmoved

(* file_resolve_destination: a single component goes into the current      *)
(* directory, with a leading "/" or not.  Otherwise path_lookup gives the  *)
(* cluster that the directory part itself was found in; an absolute        *)
(* directory part is put together with two leading "/".                    *)
Destination(p) ==
  LET q == path_normalize(p)
      names == q.components
      directory == Lookup(Path(q.absolute, (IF q.absolute THEN <<"">> ELSE <<>>)
                                             \o Front(names)))
  IN  IF ~ Splits(p) \/ names = <<>> THEN Looked(0, End, "")
      ELSE IF Len(names) = 1 THEN Looked(cwd, End, names[1])
      ELSE IF directory.entry = End THEN Looked(0, End, "")
      ELSE Looked(directory.parent, directory.entry, Last(names))

(* file_move, with directory_rename_entry in one directory and             *)
(* directory_move_entry between two: the new entry is made, then the old   *)
(* one deleted, or the new one when there is no old one.                   *)
Mv(old, new) ==
  LET from == Lookup(old)
      to == Destination(new)
      entry == [from.entry EXCEPT !.name = Stored[to.leaf]]
  IN  /\ from.entry # End /\ from.leaf # ""
      /\ to.parent # 0 /\ to.leaf # "" /\ ~ Found(new)
      /\ Stored[to.leaf] # Rejected
      /\ IF from.parent = to.parent
           THEN disk' = Replaced(disk, from.parent, from.leaf, entry)
           ELSE /\ CanAdd(disk, to.parent)
                /\ disk' = LET d == WithEntry(disk, to.parent, entry) IN
                             IF SlotOf(d.dirs[from.parent], from.leaf) # 0
                               THEN Replaced(d, from.parent, from.leaf, Deleted)
                               ELSE Replaced(d, to.parent, entry.name, Deleted)
      /\ Unmoved

(* directory_change and fs_set_current_directory.                          *)
Cd(p) ==
  LET at == Lookup(p) IN
  /\ at.entry.kind = "dir"
  /\ Builds(path, p)
  /\ cwd' = at.entry.first
  /\ path' = path_build_absolute(path, p)
  /\ UNCHANGED disk

-----------------------------------------------------------------------------

Nodes(d) == NodesOf(d.dirs, Root, TotalClusters)

Command ==
  \/ \E p \in Input.mkdir : Mkdir(p)
  \/ \E p \in Input.touch : Touch(p)
  \/ \E p \in Input.rm : Rm(p)
  \/ \E p \in Input.rmdir : Rmdir(p)
  \/ \E m \in Input.mv : Mv(m[1], m[2])
  \/ \E p \in Input.cd : Cd(p)

Next == Command /\ shown' = TreeOf(Nodes(disk'))

Spec == Init /\ [][Next]_vars

-----------------------------------------------------------------------------
(* Properties.                                                             *)

Dirs == {x \in Nodes(disk) : x.kind = "dir"}

(* "." and ".." of every directory but the root are itself and the         *)
(* directory that its entry is in.                                         *)
DotsAgree ==
  \A x \in Dirs : x.path # <<>> =>
    /\ Find(disk, x.first, Dot).first = x.first
    /\ Find(disk, x.first, DotDot).first = x.in

(* What pwd prints leads to the current directory.                         *)
CwdAgrees == Follow(disk, Root, path) = cwd

(* A command changes one node of the tree that a user sees.                *)
Shown == INSTANCE Tree WITH tree <- shown, here <- path

ImplementsTree == Shown!Spec

(* What mv has moved is found where it was to go.                          *)
MovesWhereTold ==
  [][\A m \in Input.mv : Mv(m[1], m[2]) => Found(m[2])']_vars
=============================================================================
