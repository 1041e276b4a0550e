-------------------------------- MODULE Paths --------------------------------
(***************************************************************************)
(* The paths of kernel/fs/path.c.  A path is a sequence of components and  *)
(* a flag: a leading "/" was there.  Text is not taken apart here: a path  *)
(* is what path_split makes of it, an empty component for a second "/".    *)
(***************************************************************************)
EXTENDS Naturals, Sequences, SequencesExt

CONSTANT MaxComponents   \* PATH_MAX_COMPONENTS

ASSUME PathsAssumption == MaxComponents \in Nat

Path(absolute, components) == [absolute |-> absolute, components |-> components]

Dot == "."
DotDot == ".."

(* path_split succeeds.                                                    *)
Splits(p) == Len(p.components) <= MaxComponents

(* One turn of the loop of path_normalize: the components that are kept so *)
(* far, and the next one.                                                  *)
Keep(absolute, kept, component) ==
  CASE component = Dot -> kept
    [] component = DotDot /\ kept # <<>> /\ Last(kept) # DotDot -> Front(kept)
    [] component = DotDot /\ (kept = <<>> \/ Last(kept) = DotDot) ->
         IF absolute THEN kept ELSE Append(kept, DotDot)
    [] OTHER -> Append(kept, component)

path_normalize(p) ==
  [p EXCEPT !.components =
     FoldLeft(LAMBDA kept, c : Keep(p.absolute, kept, c), <<>>, p.components)]

(* The path before path_build_absolute normalizes it.                      *)
Joined(current, p) ==
  IF p.absolute THEN p ELSE Path(TRUE, current \o p.components)

(* Mutant: .. is dropped when the path is put together.                    *)
BuildsUpwards(current, p) ==
  path_normalize(Joined(current, Path(p.absolute,
    SelectSeq(p.components, LAMBDA c : c # DotDot)))).components

(* path_build_absolute, from the components of the current path: what it   *)
(* gives, and when it does.  Names of eight and three characters keep the  *)
(* output below its capacity of 256.                                       *)
path_build_absolute(current, p) == path_normalize(Joined(current, p)).components

Builds(current, p) == Splits(p) /\ Splits(Joined(current, p))
=============================================================================
