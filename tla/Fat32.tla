-------------------------------- MODULE Fat32 --------------------------------
(***************************************************************************)
(* The volume of kernel/fs/fat32.c: the file allocation table and the      *)
(* clusters, as the disk holds them, and what the functions of the driver  *)
(* read from it.  A sector write is atomic; whether a write happens at all *)
(* is decided by the modules that use this one.                            *)
(***************************************************************************)
EXTENDS Integers, Sequences, SequencesExt

CONSTANTS
  TotalClusters,  \* fat32_fs.total_clusters
  ClusterSize,    \* bytes of a cluster
  Zero            \* the byte 0

Free == 0         \* FAT32_CLUSTER_FREE
Eoc == -1         \* FAT32_CLUSTER_EOC
Invalid == -2     \* FAT32_INVALID_CLUSTER

(* The clusters with a table entry.  Cluster 0 is no cluster: its number   *)
(* is the mark of a free entry, and fat32_cluster_to_sector sends it to    *)
(* sector 0, the boot sector.                                              *)
Clusters == 2 .. TotalClusters + 1
Boot == 0

ASSUME VolumeAssumption ==
  /\ TotalClusters \in Nat \ {0}
  /\ ClusterSize \in Nat \ {0}

VARIABLES fat, data

volume == <<fat, data>>

Zeroed == [i \in 1 .. ClusterSize |-> Zero]

(* A volume that was just formatted.                                       *)
FatInit ==
  /\ fat = [c \in Clusters |-> Free]
  /\ data = [c \in Clusters \cup {Boot} |-> Zeroed]

-----------------------------------------------------------------------------
(* fat32_next_cluster on the table t, when the sector can be read: the     *)
(* end of a chain, and a number that is no cluster, give                   *)
(* FAT32_INVALID_CLUSTER.                                                  *)
Next_in(t, c) == IF c \notin Clusters \/ t[c] = Eoc THEN Invalid ELSE t[c]
Next_cluster(c) == Next_in(fat, c)

(* The clusters that following fat32_next_cluster from c passes, up to     *)
(* FAT32_INVALID_CLUSTER.  The bound only cuts a chain with a cycle, which *)
(* the code would follow forever.                                          *)
Walk(t, c) ==
  LET walk[n \in 0 .. TotalClusters] ==
        IF n = 0 THEN <<c>>
        ELSE LET before == walk[n - 1]
                 next == Next_in(t, Last(before))
             IN  IF next = Invalid THEN before ELSE Append(before, next)
  IN  walk
Chain_in(t, c) == Walk(t, c)[TotalClusters]
Chain(c) == Chain_in(fat, c)

(* fat32_find_free_cluster: the first free cluster.                        *)
FreeClusters == {c \in Clusters : fat[c] = Free}

First_free(S) == CHOOSE c \in S : \A d \in S : c <= d

(* fat32_write_fat_entry, for a cluster that has an entry.                 *)
Write_fat_entry(c, value) ==
  /\ c \in Clusters
  /\ fat' = [fat EXCEPT ![c] = value]
  /\ UNCHANGED data

(* fat32_zero_cluster and the writers of file.c.                           *)
Write_cluster(c, bytes) ==
  /\ data' = [data EXCEPT ![c] = bytes]
  /\ UNCHANGED fat
=============================================================================
