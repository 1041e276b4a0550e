--------------------------------- MODULE Tree ---------------------------------
(***************************************************************************)
(* What a user of the shell relies on: a tree of names, of which one       *)
(* command changes one node, and a current directory that is part of it.   *)
(***************************************************************************)
EXTENDS Sequences, SequencesExt, TLC

CONSTANT Name

VARIABLES tree,   \* the kind of each node, "dir" or "file", by its path
          here    \* the path of the current directory

Init == tree = (<<>> :> "dir") /\ here = <<>>

IsDir(p) == p \in DOMAIN tree /\ tree[p] = "dir"
Below(p) == {q \in DOMAIN tree : IsStrictPrefix(p, q)}

AddNode ==
  \E p \in DOMAIN tree, n \in Name, kind \in {"dir", "file"} :
    /\ IsDir(p) /\ Append(p, n) \notin DOMAIN tree
    /\ tree' = tree @@ (Append(p, n) :> kind)
    /\ UNCHANGED here

(* A file, or a directory with nothing in it that nobody is in.            *)
RemoveNode ==
  \E p \in DOMAIN tree \ {<<>>, here} :
    /\ Below(p) = {}
    /\ tree' = [q \in DOMAIN tree \ {p} |-> tree[q]]
    /\ UNCHANGED here

(* The node takes its subtree along.                                       *)
MoveNode ==
  \E p \in DOMAIN tree \ {<<>>}, q \in DOMAIN tree, n \in Name :
    LET to == Append(q, n)
        moved == {p} \cup Below(p)
        Before(r) == p \o SubSeq(r, Len(to) + 1, Len(r))
        new == {to \o SubSeq(r, Len(p) + 1, Len(r)) : r \in moved}
    IN  /\ IsDir(q) /\ to \notin DOMAIN tree
        /\ ~ IsPrefix(p, here) /\ ~ IsPrefix(p, q)
        /\ tree' = [r \in (DOMAIN tree \ moved) \cup new |->
                      IF r \in new THEN tree[Before(r)] ELSE tree[r]]
        /\ UNCHANGED here

Enter ==
  \E p \in DOMAIN tree :
    /\ IsDir(p)
    /\ here' = p
    /\ UNCHANGED tree

Next == AddNode \/ RemoveNode \/ MoveNode \/ Enter

Spec == Init /\ [][Next]_<<tree, here>>
===============================================================================
