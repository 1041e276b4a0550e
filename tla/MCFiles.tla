------------------------------- MODULE MCFiles -------------------------------
(* Files on a volume of three clusters of two bytes.                       *)
EXTENDS Files

CONSTANTS n1, n2

TwoNames == {n1, n2}

(* A call writes nothing, or more than a cluster; and appends less.        *)
Texts == {<<>>, <<"a", "b", "b">>}
Additions == {<<"b">>}

AllCalls == {"write", "append", "copy", "delete"}
Copies == {"write", "copy"}

(* A deletion that fails half way leaves an entry that leads to free       *)
(* clusters: BootUntouched and ChainsOwned do not hold with AllFaults.     *)
AllFaults == AllCalls \X {"read", "write", "late", "stop"}
Careful == (AllCalls \ {"delete"}) \X {"read", "write", "late", "stop"}
NoFaults == {}

(* The code treats all names alike.                                        *)
Alike == Permutations({n1, n2})
=============================================================================
