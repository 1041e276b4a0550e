------------------------------ MODULE Mappings ------------------------------
(***************************************************************************)
(* What address spaces promise: each has a mapping of its own from pages   *)
(* to frames, new ones map what is given to all, and a call changes one    *)
(* page of the current one.  PageTables implements it with directories and *)
(* tables in frames that are used again.                                   *)
(***************************************************************************)
CONSTANTS
  Kernel, Space,
  VPage,      \* the pages that calls change
  Frame, Unmapped,
  Given       \* the mapping of an address space that nobody has changed

VARIABLES maps,     \* of every address space, the frame of each page
          current

Init == maps = [s \in {Kernel} |-> Given] /\ current = Kernel

Create ==
  \E s \in Space \ DOMAIN maps :
    /\ maps' = [r \in DOMAIN maps \cup {s} |-> IF r = s THEN Given ELSE maps[r]]
    /\ UNCHANGED current

Destroy ==
  \E s \in DOMAIN maps \ {Kernel, current} :
    /\ maps' = [r \in DOMAIN maps \ {s} |-> maps[r]]
    /\ UNCHANGED current

Change ==
  \E v \in VPage, f \in Frame \cup {Unmapped} :
    /\ maps' = [maps EXCEPT ![current][v] = f]
    /\ UNCHANGED current

Activate == current' \in DOMAIN maps /\ UNCHANGED maps

Next == Create \/ Destroy \/ Change \/ Activate

Spec == Init /\ [][Next]_<<maps, current>>
=============================================================================
