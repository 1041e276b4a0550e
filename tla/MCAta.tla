-------------------------------- MODULE MCAta --------------------------------
(* Ata with one caller, two words to a sector, and registers that hold a   *)
(* bit each: 16 addresses, of which the disks have 14 and 11.              *)
EXTENDS Ata, TLC

CONSTANTS c1, c2

OneCaller == {c1}
TwoCallers == {c1, c2}

Texts == {<<"a", "b">>, <<"b", "a">>}
Empty == <<"0", "0">>

(* The digits differ, and one address is the number of sectors of a drive. *)
Addresses == {0, 4, 11}
Capacities == 0 :> 14 @@ 1 :> 11

Connected == [Drive -> {"disk", "absent", "atapi"}]

(* An empty channel whose lines float: CallReturns does not hold.          *)
Floating == [Drive -> {"floating"}]
==============================================================================
