---------------------------- MODULE MCPageTables ----------------------------
(* PageTables with tables of eight entries: frames 1 to 7 are mapped to    *)
(* themselves, pages 8 to 23 are the processes'.                           *)
EXTENDS PageTables, TLC

CONSTANTS t1, t2

TwoThreads == {t1, t2}
Alike == Permutations(TwoThreads)

LowPool == 3 .. 5
DataFrames == {8, 9}

(* Two pages of one table, one below and one above the addresses of        *)
(* processes.                                                              *)
MapCalls == {<<2, 8>>, <<8, 8>>, <<8, 9>>, <<9, 9>>, <<24, 8>>}
UnmapCalls == {8, 9, 24}

(* The switches that do no harm.                                           *)
Tolerated == {"store", "flush"}

(* A switch before the new table is known: NoStaleTranslation does not     *)
(* hold, mappings are lost with the table that another one replaces.       *)
InCreate == {"create", "store", "flush"}

(* Tables in frames that the low table does not map: the machine stops     *)
(* with a page fault.                                                      *)
HighPool == {3, 4, 10}
=============================================================================
