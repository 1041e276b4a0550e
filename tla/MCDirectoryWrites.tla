-------------------------- MODULE MCDirectoryWrites --------------------------
(* Commands with a fault on a volume of four clusters of two slots: the    *)
(* root grows with its third name, a directory with its first.             *)
EXTENDS DirectoryWrites, TLC

CONSTANTS n1, n2

TwoNames == {n1, n2}
Text == Entry("file", "text", 0)

(* The code treats all names alike.                                        *)
Alike == Permutations(TwoNames)

Points ==
  {"touch", "mkdir", "mv"} \X {"claim", "zero", "unclaim", "link", "mark", "rezero", "add"}
  \cup {"mkdir"} \X {"dot", "dotdot", "free"}
  \cup {"rm", "rmdir"} \X {"free", "delete"}
  \cup {"mv"} \X {"delete", "undo", "rename", "free"}
At_(points, kinds) == {<<p[1], p[2], f>> : p \in points, f \in kinds}
AllFaults == At_(Points, {"write", "late", "stop"})

(* Each of these breaks a property, see README.                            *)
FreedFirst == At_({"rm", "rmdir"} \X {"free"}, {"write", "late", "stop"})
              \cup At_({"rm", "rmdir"} \X {"delete"}, {"write", "stop"})
FreedLinked == At_({"touch", "mkdir", "mv"} \X {"link"}, {"late"})
               \cup At_({"touch", "mkdir", "mv"} \X {"mark", "rezero"}, {"write", "late"})
EnteredLate == At_({"mkdir", "mv"} \X {"add"}, {"late"})
MovedLate == {<<"mv", "delete", "late">>}
MovedHalf == {<<"mv", "delete", "stop">>}

Careful == AllFaults \ (FreedFirst \cup FreedLinked \cup EnteredLate \cup MovedLate \cup MovedHalf)
=============================================================================
