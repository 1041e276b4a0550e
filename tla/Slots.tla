-------------------------------- MODULE Slots --------------------------------
(***************************************************************************)
(* The slots of a directory (kernel/fs/directory.c): entries, deleted      *)
(* slots and the end mark, and what the loops over them find.              *)
(***************************************************************************)
EXTENDS Integers, Sequences

Entry(kind, name, first) == [kind |-> kind, name |-> name, first |-> first]

(* An entry whose name begins with 0 ends the directory; one whose name    *)
(* begins with 0xE5 is deleted.                                            *)
End == Entry("end", "", 0)
Deleted == Entry("deleted", "", 0)

IsUnused(e) == e.kind \in {"end", "deleted"}

(* The slots the loops look at: those before the first that ends the       *)
(* directory, except the deleted ones.                                     *)
Listed(s) == {n \in DOMAIN s : /\ \A m \in 1 .. n : s[m].kind # "end"
                               /\ s[n].kind # "deleted"}

Least(S) == CHOOSE n \in S : \A m \in S : n <= m

(* The slot of a name: the first that has it, 0 if there is none.          *)
SlotOf(s, name) ==
  LET found == {n \in Listed(s) : s[n].name = name}
  IN  IF found = {} THEN 0 ELSE Least(found)

(* The slots that a new entry may go to.                                   *)
Unused(s) == {n \in DOMAIN s : IsUnused(s[n])}

Dots == {".", ".."}

OnlyDots(s) == \A n \in Listed(s) : s[n].name \in Dots

(* The nodes that the names lead to from the root: path, kind, cluster,    *)
(* and the directory they are in.  dirs has the slots of the directories   *)
(* by their first cluster, and depth bounds the names of a path.           *)
NodesOf(dirs, root, depth) ==
  LET Entries(s) == {s[n] : n \in {m \in Listed(s) : s[m].name \notin Dots}}
      Children(x) ==
        {[path |-> Append(x.path, e.name), kind |-> e.kind, first |-> e.first, in |-> x.first] :
           e \in Entries(dirs[x.first])}
      level[n \in 0 .. depth] ==
        IF n = 0 THEN {[path |-> <<>>, kind |-> "dir", first |-> root, in |-> 0]}
        ELSE UNION {Children(x) : x \in {y \in level[n - 1] : y.kind = "dir"}}
  IN  UNION {level[n] : n \in 0 .. depth}

TreeOf(nodes) ==
  [p \in {x.path : x \in nodes} |-> (CHOOSE x \in nodes : x.path = p).kind]
=============================================================================
