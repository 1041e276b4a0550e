-------------------------------- MODULE Files --------------------------------
(***************************************************************************)
(* The files of kernel/fs/file.c on a FAT32 volume: file_create,           *)
(* file_write, file_append, file_copy and file_delete, as the sequence of  *)
(* sector writes they are.  The shell runs one call at a time.  A sector   *)
(* access may fail, and the machine may stop between two writes: RAM is    *)
(* then lost and the disk stays as it is.  The directory is external to    *)
(* this module: one entry for each name, updated by one sector write.      *)
(***************************************************************************)
EXTENDS Fat32

CONSTANTS
  Name,
  Text, Added, \* what a call writes, or appends: sets of sequences of bytes
  MaxSize,     \* bound: no append to a longer file
  Calls,       \* the calls that are made
  Faults,      \* the faults that happen: pairs of a call and one of "read",
               \* "write", "late", "stop"
  MaxFaults,   \* bound: the faults of one behaviour
  Accountable, \* do appends and copies that store bytes in the wrong cluster count?
  Absent, Unknown

ASSUME FilesAssumption ==
  /\ MaxSize \in Nat /\ MaxFaults \in Nat
  /\ Calls \subseteq {"write", "append", "copy", "delete"}
  /\ Faults \subseteq Calls \X {"read", "write", "late", "stop"}
  /\ Accountable \in BOOLEAN

Bytes == {Zero} \cup UNION {ToSet(t) : t \in Text \cup Added}

ASSUME TextAssumption ==
  /\ Text \cup Added \subseteq Seq(Bytes)
  /\ Absent # Unknown
  /\ {Absent, Unknown} \cap Seq(Bytes) = {}
  /\ Absent \notin [first : Clusters \cup {0}, size : Nat]

VARIABLES
  dir,         \* the directory entry of each name, on the disk
  op,          \* the call in progress: its file_t and its local variables
  faults,
  contents     \* what the calls that succeeded have put into each file

vars == <<volume, dir, op, faults, contents>>

NoOp == [pc |-> "idle", kind |-> "none"]

Entry(first, size) == [first |-> first, size |-> size]

Init ==
  /\ FatInit
  /\ dir = [n \in Name |-> Absent]
  /\ op = NoOp
  /\ faults = 0
  /\ contents = [n \in Name |-> Absent]

-----------------------------------------------------------------------------

At(pc) == op.pc = pc
Goto(pc) == op' = [op EXCEPT !.pc = pc]

Fault(kind) ==
  /\ <<op.kind, kind>> \in Faults /\ faults < MaxFaults
  /\ faults' = faults + 1

NoFault == UNCHANGED faults

(* disk_write returns an error: the sector is as it was, or it is written  *)
(* and only the flush behind it has failed.                                *)
FailedWrite(written, same) ==
  \/ Fault("write") /\ same
  \/ Fault("late") /\ written

(* The call returns.  It succeeds when the file now has the text t, and    *)
(* promises nothing about the file otherwise.                              *)
Noted(n, t) == contents' = [contents EXCEPT ![n] = t]

Succeed(n, t) == op' = NoOp /\ Noted(n, IF op.excused THEN Unknown ELSE t)
Fail == op' = NoOp /\ Noted(op.name, Unknown)

(* fat32_next_cluster as the code sees it: a sector that cannot be read    *)
(* looks like the end of the chain.  A call that was told so is excused:   *)
(* it succeeds with the bytes in the wrong place.                          *)
Follow(c, next) ==
  \/ next = Next_cluster(c) /\ NoFault
  \/ next = Invalid /\ Fault("read")

(* The loops that follow a chain to its end, in file_append and in         *)
(* fat32_append_cluster.                                                   *)
WalkToEnd(c, end) ==
  \/ end = Last(Chain(c)) /\ NoFault
  \/ end \in ToSet(Chain(c)) /\ Fault("read")

-----------------------------------------------------------------------------
(* The calls.                                                              *)

(* file_create: an entry without a cluster.                                *)
Create(n) ==
  /\ At("idle")
  /\ dir[n] = Absent
  /\ dir' = [dir EXCEPT ![n] = Entry(0, 0)]
  /\ Noted(n, <<>>)
  /\ UNCHANGED <<volume, op, faults>>

(* The file_t of file_open, and the locals of file_write_internal: todo is *)
(* what is still to be written, new the cluster fat32_allocate_cluster is  *)
(* preparing.  source is the file_t that file_copy reads from.             *)
Opened(kind, n) ==
  [pc |-> "open", kind |-> kind, name |-> n,
   first |-> dir[n].first, cur |-> dir[n].first, size |-> dir[n].size,
   pos |-> 0, text |-> <<>>, todo |-> <<>>, new |-> 0, source |-> <<>>,
   excused |-> FALSE]

(* file_write_internal's first test.                                       *)
Begin(o) == [o EXCEPT !.pc = IF o.first = 0 THEN "claim" ELSE "fill"]

(* Mutant: the file_t keeps the old size.                                  *)
WriteKeepsSize(n, text) ==
  /\ "write" \in Calls
  /\ At("idle") /\ dir[n] # Absent
  /\ op' = [Opened("write", n) EXCEPT !.text = text, !.todo = text]
  /\ UNCHANGED <<volume, dir, faults, contents>>

Write(n, text) ==
  /\ "write" \in Calls
  /\ At("idle") /\ dir[n] # Absent
  /\ op' = [Opened("write", n) EXCEPT !.size = 0, !.text = text, !.todo = text]
  /\ UNCHANGED <<volume, dir, faults, contents>>

(* file_write empties the entry first; the clusters stay with the file.    *)
Empty ==
  /\ At("open") /\ op.kind = "write"
  /\ LET written == dir' = [dir EXCEPT ![op.name].size = 0] IN
       \/ written /\ NoFault /\ op' = Begin(op) /\ UNCHANGED contents
       \/ FailedWrite(written, UNCHANGED dir) /\ Fail
  /\ UNCHANGED volume

(* file_append: position and cluster go to the end.  That is one place     *)
(* unless the chain ends with a full cluster, or the file was longer once; *)
(* the bytes are then stored where nobody looks for them.                  *)
InOnePlace(o) ==
  o.first # 0 => Len(Chain(o.first)) = (o.size \div ClusterSize) + 1

ToEnd(o, text, end) ==
  Begin([o EXCEPT !.pos = o.size, !.cur = end, !.text = text, !.todo = text,
                  !.excused = @ \/ end # Last(Chain(o.first))
                                \/ ~ (Accountable \/ InOnePlace(o))])

StartAppend(n, text) ==
  /\ "append" \in Calls
  /\ At("idle") /\ dir[n] # Absent /\ dir[n].size + Len(text) <= MaxSize
  /\ op' = [Opened("append", n) EXCEPT !.pc = "seek", !.text = text]
  /\ UNCHANGED <<volume, dir, faults, contents>>

Seek ==
  /\ At("seek")
  /\ \E end \in Clusters \cup {Boot} :
       WalkToEnd(op.first, end) /\ op' = ToEnd(op, op.text, end)
  /\ UNCHANGED <<volume, dir, contents>>

-----------------------------------------------------------------------------
(* file_write_internal, with the allocation it calls.                      *)

(* Mutant: the table is not told that the cluster is taken.                *)
ClaimUnmarked ==
  /\ At("claim")
  /\ FreeClusters # {}
  /\ op' = [op EXCEPT !.pc = "zero", !.new = First_free(FreeClusters)]
  /\ NoFault
  /\ UNCHANGED <<volume, dir, contents>>

(* fat32_allocate_cluster, first write: the cluster is taken.  A table     *)
(* sector that cannot be read hides its free clusters.                     *)
Claim ==
  /\ At("claim")
  /\ \/ /\ \E c \in FreeClusters :
             /\ \/ c = First_free(FreeClusters) /\ NoFault
                \/ c # First_free(FreeClusters) /\ Fault("read")
             /\ Write_fat_entry(c, Eoc)
             /\ op' = [op EXCEPT !.pc = "zero", !.new = c]
        /\ UNCHANGED contents
     \/ /\ FreeClusters # {}
        /\ FailedWrite(Write_fat_entry(First_free(FreeClusters), Eoc), UNCHANGED volume)
        /\ Fail
     \/ /\ (FreeClusters = {} /\ NoFault) \/ Fault("read")
        /\ Fail /\ UNCHANGED volume
  /\ UNCHANGED dir

(* Mutant: the file_t is not moved to its first cluster.                   *)
ZeroNotMoved ==
  /\ At("zero")
  /\ Write_cluster(op.new, Zeroed) /\ NoFault
  /\ op' = IF op.first = 0 THEN [op EXCEPT !.pc = "fill", !.first = op.new]
                           ELSE [op EXCEPT !.pc = "link"]
  /\ UNCHANGED <<dir, contents>>

(* Second write: the cluster is zeroed.  The file's first cluster goes     *)
(* into the file_t, another one is linked to the chain.                    *)
ZeroNew ==
  /\ At("zero")
  /\ \/ /\ Write_cluster(op.new, Zeroed) /\ NoFault
        /\ op' = IF op.first = 0
                   THEN [op EXCEPT !.pc = "fill", !.first = op.new, !.cur = op.new]
                   ELSE [op EXCEPT !.pc = "link"]
        /\ UNCHANGED <<dir, contents>>
     \/ /\ FailedWrite(Write_cluster(op.new, Zeroed), UNCHANGED volume)
        /\ Goto("unclaim") /\ UNCHANGED <<dir, contents>>

(* ... and given back when that fails.                                     *)
Unclaim ==
  /\ At("unclaim")
  /\ LET written == Write_fat_entry(op.new, Free) IN
       (written /\ NoFault) \/ FailedWrite(written, UNCHANGED volume)
  /\ Fail
  /\ UNCHANGED dir

(* The body of the loop: the bytes that go into the current cluster.       *)
Fits(o) == LET room == ClusterSize - (o.pos % ClusterSize)
           IN  IF Len(o.todo) > room THEN room ELSE Len(o.todo)

Filled(o) ==
  LET at == o.pos % ClusterSize IN
  [i \in 1 .. ClusterSize |->
     IF i > at /\ i <= at + Fits(o) THEN o.todo[i - at] ELSE data[o.cur][i]]

Moved(o) ==
  [o EXCEPT !.pos = @ + Fits(o), !.todo = SubSeq(@, Fits(o) + 1, Len(@))]

(* What follows a cluster that was written.                                *)
Extend(o, next) ==
  IF next = Invalid
    THEN [o EXCEPT !.pc = "claim", !.excused = @ \/ Next_cluster(o.cur) # Invalid]
    ELSE [o EXCEPT !.pc = "fill", !.cur = next]

Fill ==
  /\ At("fill") /\ op.todo # <<>>
  /\ \/ /\ Write_cluster(op.cur, Filled(op))
        /\ IF Moved(op).todo = <<>>
             THEN op' = [Moved(op) EXCEPT !.pc = "close"] /\ NoFault
             ELSE \E next \in Clusters \cup {Boot, Invalid} :
                    Follow(op.cur, next) /\ op' = Extend(Moved(op), next)
        /\ UNCHANGED <<dir, contents>>
     \/ /\ \/ Fault("read") /\ UNCHANGED volume
           \/ FailedWrite(Write_cluster(op.cur, Filled(op)), UNCHANGED volume)
        /\ Fail
        /\ UNCHANGED dir

NothingToFill ==
  /\ At("fill") /\ op.todo = <<>>
  /\ Goto("close")
  /\ UNCHANGED <<volume, dir, faults, contents>>

(* fat32_append_cluster: the new cluster behind the last one, its own      *)
(* entry written once more, and zeroed once more.  An early return of      *)
(* file_write_internal leaves the directory entry as it was.               *)
Link ==
  /\ At("link")
  /\ \/ \E end \in Clusters \cup {Boot} :
          /\ WalkToEnd(op.cur, end)
          /\ IF end \in Clusters
               THEN /\ Write_fat_entry(end, op.new)
                    /\ op' = [op EXCEPT !.pc = "mark",
                                        !.excused = @ \/ end # Last(Chain(op.cur))]
                    /\ UNCHANGED contents
               ELSE Fail /\ UNCHANGED volume
     \/ LET end == Last(Chain(op.cur)) IN
          FailedWrite(Write_fat_entry(end, op.new), UNCHANGED volume) /\ Fail
  /\ UNCHANGED dir

Mark ==
  /\ At("mark")
  /\ LET written == Write_fat_entry(op.new, Eoc) IN
       \/ written /\ NoFault /\ Goto("rezero") /\ UNCHANGED contents
       \/ FailedWrite(written, UNCHANGED volume) /\ Fail
  /\ UNCHANGED dir

Rezero ==
  /\ At("rezero")
  /\ LET written == Write_cluster(op.new, Zeroed) IN
       \/ /\ written /\ NoFault
          /\ op' = [op EXCEPT !.pc = "fill", !.cur = op.new] /\ UNCHANGED contents
       \/ FailedWrite(written, UNCHANGED volume) /\ Fail
  /\ UNCHANGED dir

(* directory_update_entry with the new size and the first cluster.         *)
NewSize(o) == IF o.pos > o.size THEN o.pos ELSE o.size

Expected(o) ==
  CASE o.kind = "write" -> o.text
    [] o.kind = "append" /\ contents[o.name] # Unknown -> contents[o.name] \o o.text
    [] OTHER -> Unknown

Close ==
  /\ At("close")
  /\ LET written == dir' = [dir EXCEPT ![op.name] = Entry(op.first, NewSize(op))] IN
       \/ /\ written /\ NoFault
          /\ IF op.kind = "copy"
               THEN op' = [op EXCEPT !.pc = "copy", !.size = NewSize(op)]
                    /\ UNCHANGED contents
               ELSE Succeed(op.name, Expected(op))
       \/ FailedWrite(written, UNCHANGED dir) /\ Fail
  /\ UNCHANGED volume

-----------------------------------------------------------------------------
(* file_copy: file_read of one cluster and file_append of what it gave,    *)
(* until nothing is left.                                                  *)

SourceFile(n) ==
  [name |-> n, cur |-> dir[n].first, pos |-> 0, size |-> dir[n].size]

StartCopy(n, m) ==
  /\ "copy" \in Calls
  /\ At("idle") /\ dir[n] # Absent /\ dir[m] = Absent
  /\ dir' = [dir EXCEPT ![m] = Entry(0, 0)]
  /\ op' = [pc |-> "copy", kind |-> "copy", name |-> m, first |-> 0, cur |-> 0,
            size |-> 0, pos |-> 0, text |-> <<>>, todo |-> <<>>, new |-> 0,
            source |-> SourceFile(n),
            excused |-> ~ Accountable /\ dir[n].size > ClusterSize]
  /\ UNCHANGED <<volume, faults, contents>>

(* file_read of at most a cluster's bytes, at the start of a cluster: it   *)
(* goes on to the next cluster only when more bytes are still wanted.      *)
ReadChunk(f) ==
  LET left == f.size - f.pos
      n == IF left < ClusterSize THEN left ELSE ClusterSize
  IN  [bytes |-> SubSeq(data[f.cur], 1, n), file |-> [f EXCEPT !.pos = @ + n]]

Copy ==
  /\ At("copy")
  /\ UNCHANGED <<volume, dir>>
  /\ \/ /\ op.source.pos >= op.source.size
        /\ NoFault
        /\ Succeed(op.name, contents[op.source.name])
     \/ /\ op.source.pos < op.source.size
        /\ LET chunk == ReadChunk(op.source) IN
             \E end \in Clusters \cup {Boot} :
               /\ WalkToEnd(op.first, end)
               /\ op' = [ToEnd(op, chunk.bytes, end) EXCEPT !.source = chunk.file]
        /\ UNCHANGED contents
     \/ /\ op.source.pos < op.source.size
        /\ Fault("read") /\ Fail

-----------------------------------------------------------------------------
(* file_delete: fat32_free_cluster_chain, then the directory entry.        *)

StartDelete(n) ==
  /\ "delete" \in Calls
  /\ At("idle") /\ dir[n] # Absent
  /\ op' = [Opened("delete", n) EXCEPT !.pc = IF dir[n].first = 0 THEN "remove" ELSE "free"]
  /\ UNCHANGED <<volume, dir, faults, contents>>

(* Mutant: only the first cluster is freed.                                *)
FreeFirst ==
  /\ At("free")
  /\ op.cur \in Clusters
  /\ Write_fat_entry(op.cur, Free) /\ NoFault
  /\ op' = [op EXCEPT !.pc = "remove"]
  /\ UNCHANGED <<dir, contents>>

FreeNext ==
  /\ At("free")
  /\ UNCHANGED dir
  /\ \/ /\ op.cur \in Clusters
        /\ Write_fat_entry(op.cur, Free) /\ NoFault
        /\ op' = IF fat[op.cur] = Eoc THEN [op EXCEPT !.pc = "remove"]
                                      ELSE [op EXCEPT !.cur = fat[op.cur]]
        /\ UNCHANGED contents
     \/ /\ op.cur \notin Clusters
        /\ Goto("remove") /\ NoFault /\ UNCHANGED <<volume, contents>>
     \/ /\ \/ Fault("read") /\ UNCHANGED volume
           \/ FailedWrite(Write_fat_entry(op.cur, Free), UNCHANGED volume)
        /\ Fail

RemoveEntry ==
  /\ At("remove")
  /\ LET written == dir' = [dir EXCEPT ![op.name] = Absent] IN
       \/ written /\ NoFault /\ Succeed(op.name, Absent)
       \/ FailedWrite(written, UNCHANGED dir) /\ Fail
  /\ UNCHANGED volume

-----------------------------------------------------------------------------

(* The machine stops in the middle of a call.                              *)
Stop ==
  /\ ~ At("idle")
  /\ Fault("stop") /\ Fail
  /\ UNCHANGED <<volume, dir>>

Next ==
  \/ \E n \in Name : Create(n) \/ StartDelete(n)
  \/ \E n \in Name, text \in Text : Write(n, text)
  \/ \E n \in Name, text \in Added : StartAppend(n, text)
  \/ \E n, m \in Name : StartCopy(n, m)
  \/ Seek \/ Empty \/ Claim \/ ZeroNew \/ Unclaim \/ Fill \/ NothingToFill
  \/ Link \/ Mark \/ Rezero \/ Close \/ Copy \/ FreeNext \/ RemoveEntry \/ Stop

Spec == Init /\ [][Next]_vars

-----------------------------------------------------------------------------

Files == {n \in Name : dir[n] # Absent}

(* The clusters of a file, but for the file that is being deleted.         *)
Deleting(n) == op.pc \in {"free", "remove"} /\ op.name = n
ClustersOf(first) == IF first = 0 THEN {} ELSE ToSet(Chain(first))
Whole == {n \in Files : ~ Deleting(n)}

(* Every file's chain ends at an end mark; in particular it passes no free *)
(* cluster, whose 0 the driver would follow into the boot sector.          *)
ChainsEnd ==
  \A n \in Whole :
    dir[n].first # 0 =>
      LET chain == Chain(dir[n].first)
      IN  Last(chain) \in Clusters /\ fat[Last(chain)] = Eoc

(* No cluster belongs to two files, or to a file and to the call that      *)
(* prepares it for another one.                                            *)
NoSharedCluster ==
  /\ \A n, m \in Whole :
       n # m => ClustersOf(dir[n].first) \cap ClustersOf(dir[m].first) = {}
  /\ \A n \in Whole :
       At("zero") \/ At("unclaim") => op.new \notin ClustersOf(dir[n].first)

(* The files own their clusters, whatever failed before: the loops of      *)
(* fat32_append_cluster and file_append, which do not count, end, and no   *)
(* call writes into the clusters of another file.                          *)
ChainsOwned == ChainsEnd /\ NoSharedCluster

(* No call writes a file's bytes to the boot sector.                       *)
BootUntouched == data[Boot] = Zeroed

(* What reading a file from its beginning gives: byte i of a chain, and    *)
(* the bytes of the file's chain up to the size in its entry.              *)
ByteOf(chain, i) ==
  data[chain[((i - 1) \div ClusterSize) + 1]][((i - 1) % ClusterSize) + 1]

Stored(n) ==
  LET chain == Chain(dir[n].first)
  IN  [i \in {j \in 1 .. dir[n].size : j <= ClusterSize * Len(chain)} |-> ByteOf(chain, i)]

(* A file reads back as the bytes that the calls which succeeded wrote.    *)
ReadsBack ==
  At("idle") =>
    \A n \in Name :
      contents[n] # Unknown =>
        IF contents[n] = Absent THEN dir[n] = Absent
                                ELSE dir[n] # Absent /\ Stored(n) = contents[n]

(* What a file or the call in progress leads to, and what nothing does.    *)
Reachable ==
  (UNION {ClustersOf(dir[n].first) : n \in Files})
    \cup IF At("idle") THEN {} ELSE ClustersOf(op.first) \cup {op.new}
                                      \cup ClustersOf(op.cur)

Lost == {c \in Clusters : fat[c] # Free} \ Reachable

(* A step that does not give up on its call loses no cluster: a cluster in *)
(* use stays reachable from a file or from the call in progress.           *)
NothingLost ==
  [][(op' = NoOp /\ ~ At("idle")
         => contents'[op.name] # Unknown)
       => Lost' \subseteq Lost]_vars
-----------------------------------------------------------------------------
(* What the proofs rest on: no fault hits a deletion.                      *)

CarefulUse == \A f \in Faults : f[1] # "delete"

Nodes == Clusters \cup {Boot}

Steps == {"open", "seek", "claim", "zero", "unclaim", "fill", "link", "mark",
          "rezero", "close", "copy", "free", "remove"}

Operation ==
  [pc : Steps, kind : {"write", "append", "copy", "delete"}, name : Name,
   first : Nodes, cur : Nodes, size : Nat, pos : Nat,
   text : Seq(Bytes), todo : Seq(Bytes), new : Nodes,
   source : {<<>>} \cup [name : Name, cur : Nodes, pos : Nat, size : Nat],
   excused : BOOLEAN]

TypeOK ==
  /\ fat \in [Clusters -> Clusters \cup {Free, Eoc}]
  /\ data \in [Nodes -> [1 .. ClusterSize -> Bytes]]
  /\ dir \in [Name -> {Absent} \cup [first : Nodes, size : Nat]]
  /\ op \in {NoOp} \cup Operation
  /\ faults \in 0 .. MaxFaults
  /\ DOMAIN contents = Name

(* A chain starts at a cluster that is in use and that no other leads to.  *)
Starts(t, c) == c \in Clusters /\ t[c] # Free /\ \A d \in Clusters : t[d] # c

(* No cluster leads to a free one, and no two lead to the same.            *)
Sound(t) ==
  \A c \in Clusters :
    t[c] \in Clusters => /\ t[t[c]] # Free
                        /\ \A d \in Clusters : t[d] = t[c] => d = c

FirstOfNone(c) == \A n \in Whole : dir[n].first # c

FilesSound ==
  \A n \in Whole :
    dir[n].first # 0 =>
      /\ Starts(fat, dir[n].first)
      /\ \A m \in Whole : dir[m].first = dir[n].first => m = n

(* A call that writes: its file_t agrees with the directory, its current   *)
(* cluster is one of its chain, and the cluster it prepares is nobody's.   *)
Writing == op.pc \in Steps \ {"free", "remove"}
Preparing == op.pc \in {"zero", "unclaim", "link"}

CallSound ==
  Writing =>
    /\ op.kind # "delete"
    /\ op.kind = "copy" => op.source # <<>>
    /\ op.pc = "copy" => op.kind = "copy" /\ dir[op.name].first = op.first
    /\ dir[op.name] # Absent
    /\ dir[op.name].first # 0 => op.first = dir[op.name].first
    /\ IF op.first = 0
         THEN /\ op.cur = 0
              /\ op.pc \in {"open", "seek", "claim", "zero", "unclaim", "copy"}
         ELSE /\ Starts(fat, op.first)
              /\ \A n \in Whole : dir[n].first = op.first => n = op.name
              /\ op.cur \in ToSet(Chain(op.first))
    /\ IF Preparing
         THEN Starts(fat, op.new) /\ FirstOfNone(op.new) /\ op.new # op.first
         ELSE op.new = 0 \/ (op.first # 0 /\ op.new \in ToSet(Chain(op.first)))
    /\ Preparing \/ op.pc \in {"mark", "rezero"} => op.new \in Clusters /\ fat[op.new] = Eoc

(* A deletion frees the chain from its start.                              *)
DeletionSound ==
  op.pc \in {"free", "remove"} =>
    /\ op.kind = "delete" /\ op.new = 0
    /\ dir[op.name] # Absent /\ dir[op.name].first = op.first
    /\ op.pc = "free" =>
         /\ Starts(fat, op.cur) /\ FirstOfNone(op.cur)
         /\ op.first = op.cur \/ (op.first \in Clusters /\ fat[op.first] = Free)
    /\ op.pc = "remove" =>
         \A c \in {op.first, op.cur} : c # 0 => c \in Clusters /\ fat[c] = Free

(* A call goes for a new cluster at the end of its chain, unless it could  *)
(* not read the chain.                                                     *)
ToldTheTruth ==
  op.pc \in {"claim", "zero", "link"} /\ op.first # 0 =>
    Next_cluster(op.cur) = Invalid \/ faults > 0

VolumeInv == TypeOK /\ Sound(fat) /\ FilesSound /\ CallSound /\ DeletionSound
             /\ BootUntouched /\ ToldTheTruth

(* The chain at first begins with the first n bytes of t.                  *)
Holds(first, t, n) ==
  n > 0 => /\ first # 0 /\ n <= ClusterSize * Len(Chain(first))
           /\ \A i \in 1 .. n : ByteOf(Chain(first), i) = t[i]

(* A file that no call is writing holds what the calls put into it.        *)
FileHolds(n) ==
  contents[n] # Unknown =>
    IF contents[n] = Absent
      THEN dir[n] = Absent
      ELSE /\ dir[n] # Absent /\ dir[n].size = Len(contents[n])
           /\ Holds(dir[n].first, contents[n], dir[n].size)

ContentsHeld == \A n \in Name : At("idle") \/ op.name # n => FileHolds(n)

(* What the file has in it when the call returns.                          *)
Goal ==
  CASE op.kind = "write" -> op.text
    [] op.kind = "append" /\ contents[op.name] # Unknown -> contents[op.name] \o op.text
    [] op.kind = "copy" -> contents[op.source.name]
    [] OTHER -> Unknown

(* A call that did what it was told knows where it is: pos bytes of the    *)
(* text are in the chain, and the current cluster takes the next one.      *)
Filling == op.pc \in Steps \ {"seek", "copy", "free", "remove"}

WritesGoal ==
  Filling /\ ~ op.excused /\ Goal # Unknown =>
    LET at == op.pos \div ClusterSize
        chain == Chain(op.first)
    IN  /\ op.pos <= Len(Goal) /\ op.size <= Len(Goal)
        /\ op.todo = SubSeq(Goal, op.pos + 1, Len(Goal))
        /\ Holds(op.first, Goal, op.pos)
        /\ op.pc \in {"claim", "zero", "link", "unclaim"} /\ op.first # 0 =>
             op.cur = Last(chain) /\ op.pos = ClusterSize * Len(chain)
        /\ op.pc \in {"mark", "rezero"} =>
             op.new = Last(chain) /\ op.pos = ClusterSize * (Len(chain) - 1)
        /\ op.pc \in {"open", "fill"} /\ op.first # 0 /\ op.todo # <<>> =>
             at < Len(chain) /\ op.cur = chain[at + 1]
        /\ op.first = 0 => op.pos = 0
        /\ op.pc = "close" => op.todo = <<>>

(* file_append has the file as it was, file_copy the source.               *)
SeekSound ==
  /\ op.pc = "seek" => /\ op.kind = "append" /\ FileHolds(op.name)
                       /\ op.first = dir[op.name].first /\ op.size = dir[op.name].size
  /\ Writing /\ op.kind = "append" => contents[op.name] # Absent

CopySound ==
  op.kind = "copy" =>
    LET f == op.source IN
      /\ f.name # op.name /\ dir[f.name] # Absent
      /\ f.cur = dir[f.name].first /\ f.size = dir[f.name].size
      /\ ~ op.excused => f.size <= ClusterSize
      /\ ~ op.excused /\ op.pc # "copy" => f.pos = f.size
      /\ op.pc = "copy" =>
           /\ dir[op.name] = Entry(op.first, op.size)
           /\ ~ op.excused =>
                \/ f.pos = 0 /\ op.size = 0 /\ op.first = 0
                \/ /\ f.pos = f.size
                   /\ Goal # Unknown =>
                        op.size = Len(Goal) /\ Holds(op.first, Goal, op.size)

ContentsInv ==
  /\ contents \in [Name -> {Absent, Unknown} \cup Seq(Bytes)]
  /\ ContentsHeld /\ WritesGoal /\ SeekSound /\ CopySound

=============================================================================
