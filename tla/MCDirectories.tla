---------------------------- MODULE MCDirectories ----------------------------
(* Directories on a volume of four clusters of three entries: a directory  *)
(* that is not the root grows with its second name.                        *)
EXTENDS Directories

A == "A"
B == "B"
C == "C"
Names == {A, B, C}
Forms == [n \in Names \cup {DotDot} |-> IF n = DotDot THEN "rejected" ELSE n]

Rel(names) == Path(FALSE, names)
Abs(names) == Path(TRUE, names)

(* A and B are directories or files, C is a file.  Directories are removed *)
(* and renamed from where they are; a file is moved to where the shell is; *)
(* the other commands take paths of all forms.                             *)
CarefulInput ==
  [mkdir |-> {Rel(<<A>>), Rel(<<DotDot, B>>), Abs(<<A>>), Rel(<<DotDot, DotDot>>),
              Rel(<<Dot, B>>)},
   touch |-> {Rel(<<C>>), Rel(<<DotDot, C>>), Abs(<<B, A>>)},
   rm |-> {Rel(<<A>>), Abs(<<B, A>>), Rel(<<C>>)},
   rmdir |-> {Rel(<<A>>), Rel(<<B>>)},
   mv |-> {<<Rel(<<A>>), Rel(<<B>>)>>, <<Rel(<<DotDot, C>>), Rel(<<C>>)>>},
   cd |-> {Rel(<<A>>), Rel(<<DotDot>>), Abs(<<>>), Rel(<<DotDot, B>>), Abs(<<A, B>>)}]

(* A file is moved into a directory.                                       *)
MoveInto ==
  [mkdir |-> {Rel(<<A>>)}, touch |-> {Rel(<<B>>)}, rm |-> {Rel(<<B>>)}, rmdir |-> {Rel(<<A>>)},
   mv |-> {<<Rel(<<B>>), Rel(<<A, C>>)>>}, cd |-> {Rel(<<A>>), Rel(<<DotDot>>)}]
=============================================================================
