------------------------------- MODULE Sectors -------------------------------
(***************************************************************************)
(* What the file system takes a disk for: sectors that are read and        *)
(* written as a whole, by calls that succeed or fail.  A successful read   *)
(* is what the sector holds, a successful write is stored, a call that     *)
(* fails may have stored its own text in its own sector, and nothing else  *)
(* ever changes.  Ata implements it with registers and a drive that is     *)
(* busy when it likes.                                                     *)
(***************************************************************************)
EXTENDS Naturals

CONSTANTS Caller, Drive, Lba, Text, Capacity, Nothing, Failed

VARIABLES stored,   \* the text of every sector
          request   \* of each caller: Nothing, what it asks for, or its answer

Request == [op : {"read", "write"}, drive : Drive, lba : Lba, text : Text]

Waits(c) == request[c] \in Request
Holds(r) == stored[r.drive][r.lba]
InRange(r) == r.lba < Capacity[r.drive]

Init == request = [c \in Caller |-> Nothing]

Ask(c) ==
  /\ ~ Waits(c)
  /\ \E r \in Request : request' = [request EXCEPT ![c] = r]
  /\ UNCHANGED stored

Store(c) ==
  LET r == request[c] IN
  /\ Waits(c) /\ r.op = "write" /\ InRange(r)
  /\ stored' = [stored EXCEPT ![r.drive][r.lba] = r.text]
  /\ UNCHANGED request

Answer(c) ==
  LET r == request[c] IN
  /\ Waits(c)
  /\ \/ request' = [request EXCEPT ![c] = Failed]
     \/ /\ InRange(r) /\ (r.op = "write" => Holds(r) = r.text)
        /\ request' = [request EXCEPT ![c] = [text |-> Holds(r)]]
  /\ UNCHANGED stored

Next == \E c \in Caller : Ask(c) \/ Store(c) \/ Answer(c)

Spec == Init /\ [][Next]_<<stored, request>>
=============================================================================
