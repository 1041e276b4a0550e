------------------------------ MODULE AtaProofs ------------------------------
(***************************************************************************)
(* Proofs about Ata, for any sectors, registers and kinds of drives: the   *)
(* driver implements sectors that are read and written as a whole, under   *)
(* CarefulUse.                                                             *)
(***************************************************************************)
EXTENDS Ata, SequenceTheorems, TLAPS

-----------------------------------------------------------------------------
(* The digits of an address.                                               *)

LEMMA DivMod ==
  ASSUME NEW a \in Nat, NEW b \in Nat \ {0}
  PROVE  a \div b \in Nat /\ a % b \in 0 .. b - 1 /\ a = b * (a \div b) + (a % b)
<1>1. a % b \in 0 .. b - 1 /\ a \div b \in Int /\ a = b * (a \div b) + (a % b)
  OBVIOUS
<1>2. a \div b >= 0
  BY <1>1
<1>3. QED
  BY <1>1, <1>2

LEMMA DivUnique ==
  ASSUME NEW b \in Nat \ {0}, NEW q \in Nat, NEW r \in 0 .. b - 1
  PROVE  (b * q + r) \div b = q
<1> DEFINE a == b * q + r
<1>1. a \in Nat
  OBVIOUS
<1>2. a \div b \in Nat /\ a % b \in 0 .. b - 1 /\ a = b * (a \div b) + (a % b)
  BY <1>1, DivMod
<1> HIDE DEF a
<1>3. ASSUME NEW p \in Nat, NEW s \in 0 .. b - 1, b * p + s = b * q + r PROVE p = q
  <2>1. ~ p < q
    <3>1. SUFFICES ASSUME p < q PROVE FALSE
      OBVIOUS
    <3>2. b * q = b * p + b * (q - p) /\ b * (q - p) >= b
      BY <3>1
    <3>3. QED
      BY <3>2, <1>3
  <2>2. ~ q < p
    <3>1. SUFFICES ASSUME q < p PROVE FALSE
      OBVIOUS
    <3>2. b * p = b * q + b * (p - q) /\ b * (p - q) >= b
      BY <3>1
    <3>3. QED
      BY <3>2, <1>3
  <2>3. QED
    BY <2>1, <2>2
<1>4. a = b * q + r
  BY DEF a
<1>5. a \div b = q
  BY <1>2, <1>3, <1>4
<1>6. QED
  BY <1>5 DEF a

LEMMA DivDiv ==
  ASSUME NEW a \in Nat, NEW b \in Nat \ {0}, NEW c \in Nat \ {0}
  PROVE  a \div (b * c) = (a \div b) \div c
<1> DEFINE p == a \div b
           q == p \div c
           r == b * (p % c) + (a % b)
<1>1. p \in Nat /\ a % b \in 0 .. b - 1 /\ a = b * p + (a % b)
  BY DivMod
<1>2. q \in Nat /\ p % c \in 0 .. c - 1 /\ p = c * q + (p % c)
  BY <1>1, DivMod
<1>3. b * c \in Nat \ {0}
  OBVIOUS
<1>4. r \in 0 .. b * c - 1
  <2>1. (p % c) + 1 <= c /\ b * ((p % c) + 1) <= b * c
    BY <1>2
  <2>2. b * ((p % c) + 1) = b * (p % c) + b
    BY <1>2
  <2>3. b * (p % c) >= 0
    BY <1>2
  <2>4. QED
    BY <1>1, <1>2, <2>1, <2>2, <2>3
<1>5. a = (b * c) * q + r
  <2> DEFINE y == p % c
  <2>1. p = c * q + y /\ y \in Nat
    BY <1>2
  <2> HIDE DEF p, q, y
  <2>2. b * (c * q + y) = (b * c) * q + b * y
    BY <1>2, <2>1
  <2>3. (b * c) * q \in Int /\ b * y \in Int
    BY <1>2, <2>1
  <2>4. a = ((b * c) * q + b * y) + (a % b)
    BY <1>1, <2>1, <2>2
  <2>5. r = b * y + (a % b)
    BY DEF y
  <2> HIDE DEF r
  <2>6. QED
    BY <1>1, <2>3, <2>4, <2>5
<1> HIDE DEF q, r
<1>6. a \div (b * c) = q
  BY <1>2, <1>3, <1>4, <1>5, DivUnique
<1>7. QED
  BY <1>6 DEF q

LEMMA DigitTypes ==
  ASSUME NEW lba \in Nat
  PROVE  Digits(lba) \in [low : Nat, mid : Nat, high : Nat, top : Nat]
<1>1. Base \in Nat \ {0} /\ Sides \in Nat \ {0}
  BY AtaAssumption
<1>2. Base * Base \in Nat \ {0} /\ Base * Base * Base \in Nat \ {0}
  BY <1>1
<1>3. /\ lba \div Base \in Nat /\ lba \div (Base * Base) \in Nat
      /\ lba \div (Base * Base * Base) \in Nat
  BY <1>1, <1>2, DivMod
<1>4. \A a \in Nat : a % Base \in Nat /\ a % Sides \in Nat
  BY <1>1, DivMod
<1>5. QED
  BY <1>3, <1>4 DEF Digits

(* The digits that the driver writes name the sector it is asked for, if   *)
(* the sector is one of a drive.                                           *)
LEMMA DigitsName ==
  ASSUME NEW lba \in Nat, NEW d \in Drive, lba < Capacity[d],
         NEW r, r.top = Digits(lba).top, r.low = Digits(lba).low,
         r.mid = Digits(lba).mid, r.high = Digits(lba).high
  PROVE  Addressed(r) = lba
<1> DEFINE p == lba \div Base
           q == p \div Base
           s == q \div Base
<1>1. Base \in Nat \ {0} /\ Sides \in Nat \ {0} /\ lba < Base * Base * Base * Sides
  BY AtaAssumption
<1>2. p \in Nat /\ lba % Base \in 0 .. Base - 1 /\ lba = Base * p + (lba % Base)
  BY <1>1, DivMod
<1>3. q \in Nat /\ p % Base \in 0 .. Base - 1 /\ p = Base * q + (p % Base)
  BY <1>1, <1>2, DivMod
<1>4. s \in Nat /\ q % Base \in 0 .. Base - 1 /\ q = Base * s + (q % Base)
  BY <1>1, <1>3, DivMod
<1>5. lba \div (Base * Base) = q
  BY <1>1, DivDiv
<1>6. lba \div (Base * Base * Base) = s
  <2>1. Base * Base \in Nat \ {0}
    BY <1>1
  <2>2. lba \div ((Base * Base) * Base) = (lba \div (Base * Base)) \div Base
    BY <1>1, <2>1, DivDiv
  <2>3. QED
    BY <2>2, <1>5
<1>7. s % Sides = s
  <2> DEFINE cube == Base * Base * Base
  <2>1. cube \in Nat \ {0}
    BY <1>1
  <2>2. lba = cube * s + (lba % cube) /\ lba % cube >= 0
    <3>1. s = lba \div cube
      BY <1>6
    <3> HIDE DEF cube, s
    <3>2. QED
      BY <2>1, <3>1, DivMod
  <2>3. lba < cube * Sides
    BY <1>1
  <2> HIDE DEF cube, s
  <2>4. s < Sides
    <3>1. SUFFICES ASSUME s >= Sides PROVE FALSE
      BY <1>1, <1>4
    <3>2. cube * s >= cube * Sides
      BY <3>1, <2>1, <1>1, <1>4
    <3>3. cube * s \in Int /\ cube * Sides \in Int /\ lba % cube \in Int
      BY <2>1, <1>1, <1>4
    <3>4. QED
      BY <3>2, <3>3, <2>2, <2>3
  <2>5. QED
    BY <2>4, <1>1, <1>4
<1>8. Digits(lba) = [low |-> lba % Base, mid |-> p % Base, high |-> q % Base, top |-> s]
  BY <1>5, <1>6, <1>7 DEF Digits
<1> HIDE DEF p, q, s
<1>9. Addressed(r) = (lba % Base) + Base * ((p % Base) + Base * ((q % Base) + Base * s))
  BY <1>8 DEF Addressed
<1>10. QED
  BY <1>1, <1>2, <1>3, <1>4, <1>9

-----------------------------------------------------------------------------
(* What the invariant says of one drive and one call.                      *)

LEMMA Contents ==
  ASSUME NEW t \in [1 .. Words -> STRING]
  PROVE  t \in Seq(STRING) /\ Len(t) = Words /\ t # <<>>
<1>1. Words \in Nat \ {0}
  BY AtaAssumption
<1>2. t \in Seq(STRING)
  BY <1>1, SeqDef
<1>3. Len(t) = Words
  BY <1>1, <1>2, LenProperties
<1>4. QED
  BY <1>1, <1>2, <1>3, EmptySeq

LEMMA StoredText ==
  ASSUME TypeOK, NEW d \in Drive, NEW lba \in Nat, lba < Capacity[d]
  PROVE  /\ stored[d][lba] \in Seq(STRING)
         /\ Len(stored[d][lba]) = Words /\ stored[d][lba] # <<>>
<1>1. lba \in 0 .. Capacity[d] - 1
  BY AtaAssumption
<1>2. stored[d][lba] \in [1 .. Words -> STRING]
  BY <1>1 DEF TypeOK
<1>3. QED
  BY <1>2, Contents

LEMMA NotAsked ==
  /\ Nothing \notin S!Request /\ Failed \notin S!Request
  /\ \A x : [text |-> x] \notin S!Request
<1>1. Nothing \notin S!Request /\ Failed \notin S!Request
  BY AtaAssumption DEF S!Request
<1>2. \A x : [text |-> x] \notin S!Request
  <2>1. \A x : "op" \notin DOMAIN [text |-> x]
    OBVIOUS
  <2>2. \A r \in S!Request : "op" \in DOMAIN r
    BY DEF S!Request
  <2>3. QED
    BY <2>1, <2>2
<1>3. QED
  BY <1>1, <1>2

LEMMA Asked ==
  ASSUME NEW c, S!Waits(c)
  PROVE  LET r == request[c] IN
         /\ r \in S!Request /\ r.op \in {"read", "write"} /\ r.drive \in Drive /\ r.lba \in Nat
         /\ r.text \in Seq(STRING) /\ Len(r.text) = Words /\ r.text \in [1 .. Words -> STRING]
BY Contents, AtaAssumption DEF S!Waits, S!Request

(* What a drive may be doing, field by field.                              *)
LEMMA UnitFields ==
  ASSUME TypeOK, NEW d \in Drive
  PROVE  LET u == unit[d] IN
         /\ u.kind \in Kind /\ u.err \in BOOLEAN /\ u.st \in {"ready", "busy", "in", "out"}
         /\ u.st = "busy" => u.kind \in {"disk", "atapi"}
         /\ u.st \in {"in", "out"} => u.kind = "disk"
         /\ u.st # "ready" => /\ u.err = FALSE /\ u.lba \in Nat /\ u.words \in Seq(STRING)
                              /\ u.cmd \in {"identify", "read", "write", "store", "flush"}
BY DEF TypeOK, Unit, Kind

(* A drive that moves data is the selected one, and works for detection or *)
(* for the one call that is in progress.                                   *)
LEMMA Moves ==
  ASSUME IInv, NEW d \in Drive, ~ Quiet(d)
  PROVE  /\ d = regs.drive
         /\ \/ /\ detect.pc # "select" /\ detect.drive \in Drive
               /\ \A c \in Caller : At(c, "idle")
               /\ Doing(d, "busy", "identify") \/ Doing(d, "in", "identify")
            \/ \E c \in Caller : InCommand(c) /\ request[c].drive = d
<1>1. d = regs.drive /\ (detect.pc # "select" \/ \E c \in Caller : InCommand(c))
  BY DEF IInv, QuietUnlessUsed
<1>2. CASE detect.pc # "select"
  <2>1. detect.drive \in Drive /\ \A c \in Caller : At(c, "idle")
    BY <1>1, <1>2 DEF IInv, TypeOK, Unit, Detects
  <2>2. QED
    BY <1>1, <1>2, <2>1 DEF IInv, Detects
<1>3. ASSUME NEW c \in Caller, InCommand(c) PROVE request[c].drive = d
  BY <1>1, <1>3 DEF IInv, CallAgrees, InCommand
<1>4. QED
  BY <1>1, <1>2, <1>3

LEMMA StatusFacts ==
  ASSUME TypeOK, NEW d \in Drive
  PROVE  LET u == unit[d] IN
         /\ Status(d) = {} <=> u.kind = "absent"
         /\ "BSY" \in Status(d) <=> u.kind = "floating" \/ u.st = "busy"
         /\ "ERR" \in Status(d) <=> u.kind = "floating" \/ (u.kind # "absent" /\ u.err)
         /\ "DRQ" \in Status(d) <=> u.kind = "floating" \/ u.st \in {"in", "out"}
<1> DEFINE u == unit[d]
<1>1. u.kind \in Kind /\ (u.kind \in {"absent", "floating"} => u.st = "ready")
  BY UnitFields DEF Kind
<1>2. CASE u.kind = "absent"
  BY <1>1, <1>2 DEF Status
<1>3. CASE u.kind = "floating"
  BY <1>1, <1>3 DEF Status
<1>4. CASE u.kind \notin {"absent", "floating"}
  <2>1. Status(d) = {"DRDY"} \cup (IF u.st = "busy" THEN {"BSY"} ELSE {})
                      \cup (IF u.st \in {"in", "out"} THEN {"DRQ"} ELSE {})
                      \cup (IF u.err THEN {"ERR"} ELSE {})
    BY <1>4 DEF Status
  <2>2. "DRDY" \in Status(d)
    BY <2>1
  <2>3. "BSY" \in Status(d) <=> u.st = "busy"
    BY <2>1
  <2>4. "DRQ" \in Status(d) <=> u.st \in {"in", "out"}
    BY <2>1
  <2>5. "ERR" \in Status(d) <=> u.err
    BY <2>1
  <2>6. QED
    BY <1>4, <2>2, <2>3, <2>4, <2>5
<1>5. QED
  BY <1>2, <1>3, <1>4

-----------------------------------------------------------------------------
(* The drives' steps.                                                      *)

(* What is left to show when a busy drive goes on.                         *)
LEMMA DeviceStep ==
  ASSUME IInv, NEW d \in Drive, unit[d].st = "busy",
         \A e \in Drive \ {d} : unit'[e] = unit[e], unit'[d].kind = unit[d].kind,
         UNCHANGED <<regs, detect, devices, call, request>>, TypeOK',
         detect.pc # "select" => Quiet(d)' \/ Doing(d, "in", "identify")',
         \A c \in Caller : InCommand(c) => CallAgrees(c)'
  PROVE  IInv'
<1>1. /\ d = regs.drive
      /\ detect.pc # "select" \/ \E c \in Caller : InCommand(c)
  BY DEF IInv, QuietUnlessUsed, Quiet
<1>2. QuietUnlessUsed'
  BY <1>1 DEF IInv, QuietUnlessUsed, InCommand, Quiet
<1>3. Detects'
  BY <1>1 DEF IInv, TypeOK, Unit, Detects, At, Signature
<1>4. ASSUME NEW c \in Caller, ~ InCommand(c) PROVE CallAgrees(c)'
  <2>1. CallAgrees(c) /\ (S!Waits(c) <=> S!Waits(c)')
    BY DEF IInv, S!Waits
  <2>2. QED
    BY <1>4, <2>1 DEF CallAgrees, InCommand, Addressed
<1>5. QED
  BY <1>2, <1>3, <1>4 DEF IInv

LEMMA RefuseStep ==
  ASSUME IInv, CarefulUse, NEW d \in Drive, Refuse(d)
  PROVE  IInv' /\ UNCHANGED <<stored, request>>
<1>1. /\ unit[d].st = "busy" /\ unit[d].cmd # "store"
      /\ unit' = [unit EXCEPT ![d] = Ready(unit[d].kind, TRUE)]
      /\ UNCHANGED <<regs, stored, detect, devices, call, request>>
  BY DEF Refuse, Becomes, CarefulUse
<1>2. unit'[d] = Ready(unit[d].kind, TRUE) /\ \A e \in Drive \ {d} : unit'[e] = unit[e]
  BY <1>1 DEF IInv, TypeOK, Unit
<1>3. TypeOK'
  BY <1>1, UnitFields DEF IInv, TypeOK, Unit, Ready
<1>4. Quiet(d)' /\ unit'[d].kind = unit[d].kind
  BY <1>2 DEF Quiet, Ready
<1>5. ASSUME NEW c \in Caller, InCommand(c) PROVE CallAgrees(c)'
  <2>1. CallAgrees(c) /\ (S!Waits(c) <=> S!Waits(c)')
    BY <1>1 DEF IInv, S!Waits
  <2>2. request[c].drive = d
    BY <1>1, <1>5, <2>1 DEF CallAgrees, InCommand, IInv, QuietUnlessUsed, Quiet
  <2>3. call[c].pc # "data"
    BY <2>1, <2>2, <1>1 DEF CallAgrees, Doing
  <2>4. QED
    BY <1>1, <1>4, <1>5, <2>1, <2>2, <2>3 DEF CallAgrees, Doing, InCommand
<1>6. QED
  BY <1>1, <1>2, <1>3, <1>4, <1>5, DeviceStep

(* The one call is in progress, or none is.                                *)
LEMMA Calling ==
  ASSUME IInv, CarefulUse, NEW c \in Caller, ~ At(c, "idle")
  PROVE  /\ detect.drive \notin Drive /\ detect.pc = "select" /\ S!Waits(c)
         /\ \A e \in Caller : e = c
         /\ InCommand(c) \/ \A d \in Drive : Quiet(d)
<1>1. detect.drive \notin Drive /\ S!Waits(c) /\ \A e \in Caller : e = c
  BY DEF IInv, Detects, CallAgrees, At, CarefulUse
<1>2. detect.pc = "select"
  BY <1>1 DEF IInv, TypeOK, Unit, Detects
<1>3. QED
  BY <1>1, <1>2 DEF IInv, QuietUnlessUsed

LEMMA SignStep ==
  ASSUME IInv, CarefulUse, NEW d \in Drive, Sign(d)
  PROVE  IInv' /\ UNCHANGED <<stored, request>>
<1>1. /\ unit[d].st = "busy" /\ unit[d].kind = "atapi" /\ d = regs.drive
      /\ unit' = [unit EXCEPT ![d] = Ready("atapi", TRUE)]
      /\ regs' = [regs EXCEPT !.mid = Base - 1]
      /\ UNCHANGED <<stored, detect, devices, call, request>>
  BY DEF Sign, Becomes, IInv, QuietUnlessUsed, Quiet
<1>2. unit'[d] = Ready("atapi", TRUE) /\ \A e \in Drive \ {d} : unit'[e] = unit[e]
  BY <1>1 DEF IInv, TypeOK, Unit
<1>3. Base - 1 \in Nat
  BY AtaAssumption
<1>4. TypeOK' /\ regs'.drive = regs.drive /\ regs'.top = regs.top
  BY <1>1, <1>3 DEF IInv, TypeOK, Unit, Ready, Kind
<1>5. /\ Quiet(d)' /\ unit'[d].kind = unit[d].kind
      /\ \A e \in Drive \ {d} : Quiet(e)' <=> Quiet(e)
  BY <1>1, <1>2 DEF Quiet, Ready
<1>6. QuietUnlessUsed'
  BY <1>1, <1>4, <1>5 DEF IInv, QuietUnlessUsed, InCommand
<1>7. Detects'
  BY <1>1, <1>4, <1>5 DEF IInv, TypeOK, Unit, Detects, At
<1>8. ASSUME NEW c \in Caller PROVE CallAgrees(c)'
  <2>1. CallAgrees(c) /\ (S!Waits(c) <=> S!Waits(c)')
    BY <1>1 DEF IInv, S!Waits
  <2>2. CASE At(c, "idle")
    BY <1>1, <2>1, <2>2 DEF CallAgrees, At
  <2>3. CASE ~ At(c, "idle")
    <3>1. InCommand(c)
      BY <1>1, <2>3, Calling DEF Quiet
    <3>2. request[c].drive = d
      BY <1>1, <2>1, <3>1 DEF CallAgrees, InCommand
    <3>3. ASSUME call[c].pc \in {"flush", "wait"} PROVE unit[d].cmd = "flush"
      <4>1. \/ Doing(d, "busy", "store") /\ unit[d].kind = "disk"
            \/ Quiet(d) \/ Doing(d, "busy", "flush")
        BY <2>1, <3>2, <3>3 DEF CallAgrees
      <4>2. QED
        BY <4>1, <1>1 DEF Doing, Quiet
    <3>4. QED
      BY <1>1, <1>4, <1>5, <2>1, <3>1, <3>2, <3>3 DEF CallAgrees, Doing, InCommand
  <2>4. QED
    BY <2>2, <2>3
<1>9. QED
  BY <1>1, <1>4, <1>6, <1>7, <1>8 DEF IInv

(* A drive does what it was told, and the words of a write that it has     *)
(* taken are stored as a whole, by the call that sent them.                *)
LEMMA WorkStep ==
  ASSUME IInv, CarefulUse, NEW d \in Drive, Work(d)
  PROVE  IInv' /\ [S!Next]_<<stored, request>>
<1> DEFINE u == unit[d]
<1>1. /\ u.st = "busy" /\ u.kind = "disk" /\ d = regs.drive
      /\ UNCHANGED <<regs, detect, devices, call, request>>
  BY DEF Work, IInv, QuietUnlessUsed, Quiet
<1>2. u \in [kind : {"disk", "atapi"}, st : {"busy"}, err : {FALSE}, lba : Nat, words : Seq(STRING),
             cmd : {"identify", "read", "write", "store", "flush"}]
  BY <1>1 DEF IInv, TypeOK, Unit
<1>3. ASSUME NEW c \in Caller, InCommand(c)
      PROVE  /\ CallAgrees(c) /\ request[c].drive = d /\ S!Waits(c) /\ (S!Waits(c))'
             /\ request[c].op \in {"read", "write"} /\ request[c].lba \in Nat
             /\ request[c].lba < Capacity[d]
             /\ \/ call[c].pc = "poll" /\ u.cmd = request[c].op /\ u.lba = request[c].lba
                                       /\ u.words = <<>>
                \/ /\ call[c].pc \in {"flush", "wait"} /\ request[c].op = "write"
                   /\ \/ /\ u.cmd = "store" /\ u.lba = request[c].lba
                         /\ u.words = request[c].text
                      \/ u.cmd = "flush" /\ stored[d][request[c].lba] = request[c].text
  <2>1. CallAgrees(c) /\ request[c].drive = d /\ S!Waits(c)
    BY <1>1, <1>3 DEF IInv, CallAgrees, InCommand
  <2>2. request[c].op \in {"read", "write"} /\ request[c].lba \in Nat
    BY <2>1, Asked
  <2>3. (S!Waits(c))'
    BY <1>1, <2>1 DEF S!Waits
  <2>4. QED
    BY <1>1, <1>3, <2>1, <2>2, <2>3 DEF CallAgrees, InCommand, Doing, Quiet
<1>4. \/ /\ detect.pc # "select" /\ u.cmd = "identify" /\ \A c \in Caller : ~ InCommand(c)
      \/ detect.pc = "select" /\ \E c \in Caller : InCommand(c)
  <2>1. ASSUME detect.pc # "select"
        PROVE  u.cmd = "identify" /\ \A c \in Caller : ~ InCommand(c)
    BY <1>1, <2>1 DEF IInv, TypeOK, Unit, Detects, At, InCommand, Doing, Quiet
  <2>2. QED
    BY <1>1, <2>1 DEF IInv, QuietUnlessUsed, Quiet
<1>5. CASE u.cmd = "identify"
  <2>1. unit' = [unit EXCEPT ![d] = [u EXCEPT !.st = "in"]] /\ UNCHANGED stored
    BY <1>5 DEF Work, Becomes
  <2>2. \A c \in Caller : ~ InCommand(c)
    BY <1>3, <1>5
  <2>3. unit'[d] = [u EXCEPT !.st = "in"] /\ \A e \in Drive \ {d} : unit'[e] = unit[e]
    BY <2>1 DEF IInv, TypeOK, Unit
  <2>4. TypeOK'
    BY <1>1, <1>2, <1>5, <2>1 DEF IInv, TypeOK, Unit
  <2>5. unit'[d].kind = u.kind /\ Doing(d, "in", "identify")'
    BY <1>2, <1>5, <2>3 DEF Doing
  <2> HIDE DEF u
  <2>6. IInv'
    BY <1>1, <2>2, <2>3, <2>4, <2>5, DeviceStep DEF u
  <2>7. QED
    BY <1>1, <2>1, <2>6
<1>6. CASE u.cmd = "read"
  <2>1. PICK c \in Caller : InCommand(c)
    BY <1>4, <1>6
  <2>2. /\ u.lba < Capacity[d] /\ UNCHANGED stored
        /\ unit' = [unit EXCEPT ![d] = [u EXCEPT !.st = "in", !.words = stored[d][u.lba]]]
    BY <1>6 DEF Work, Becomes
  <2>3. stored[d][u.lba] \in Seq(STRING)
    <3>1. Capacity[d] \in Nat
      BY AtaAssumption
    <3>2. stored[d][u.lba] \in [1 .. Words -> STRING]
      BY <1>2, <2>2, <3>1 DEF IInv, TypeOK, Unit
    <3>3. QED
      BY <3>2, Contents
  <2>4. /\ unit'[d] = [u EXCEPT !.st = "in", !.words = stored[d][u.lba]]
        /\ \A e \in Drive \ {d} : unit'[e] = unit[e]
    BY <2>2 DEF IInv, TypeOK, Unit
  <2>5. TypeOK'
    BY <1>1, <1>2, <1>6, <2>2, <2>3 DEF IInv, TypeOK, Unit
  <2>6. /\ unit'[d].kind = u.kind /\ unit'[d].lba = u.lba
        /\ Doing(d, "in", "read")' /\ unit'[d].words = stored[d][u.lba]
    BY <1>2, <1>6, <2>4 DEF Doing
  <2> HIDE DEF u
  <2>7. ASSUME NEW e \in Caller, InCommand(e) PROVE CallAgrees(e)'
    BY <1>1, <1>3, <1>6, <2>2, <2>6, <2>7 DEF CallAgrees, InCommand
  <2>8. IInv'
    BY <1>1, <1>4, <1>6, <2>4, <2>5, <2>6, <2>7, DeviceStep DEF u
  <2>9. QED
    BY <1>1, <2>2, <2>8
<1>7. CASE u.cmd = "write"
  <2>1. unit' = [unit EXCEPT ![d] = [u EXCEPT !.st = "out"]] /\ UNCHANGED stored
    BY <1>7 DEF Work, Becomes
  <2>2. unit'[d] = [u EXCEPT !.st = "out"] /\ \A e \in Drive \ {d} : unit'[e] = unit[e]
    BY <2>1 DEF IInv, TypeOK, Unit
  <2>3. TypeOK'
    BY <1>1, <1>2, <1>7, <2>1 DEF IInv, TypeOK, Unit
  <2>4. /\ unit'[d].kind = u.kind /\ unit'[d].lba = u.lba
        /\ Doing(d, "out", "write")' /\ unit'[d].words = u.words
    BY <1>2, <1>7, <2>2 DEF Doing
  <2> HIDE DEF u
  <2>5. ASSUME NEW e \in Caller, InCommand(e) PROVE CallAgrees(e)'
    BY <1>1, <1>3, <1>7, <2>1, <2>4, <2>5 DEF CallAgrees, InCommand
  <2>6. IInv'
    BY <1>1, <1>4, <1>7, <2>2, <2>3, <2>4, <2>5, DeviceStep DEF u
  <2>7. QED
    BY <1>1, <2>1, <2>6
<1>8. CASE u.cmd = "store"
  <2>1. PICK c \in Caller : InCommand(c)
    BY <1>4, <1>8
  <2> DEFINE r == request[c]
  <2>2. /\ S!Waits(c) /\ r.drive = d /\ r.op = "write" /\ r.lba < Capacity[d] /\ r.lba \in Nat
        /\ u.lba = r.lba /\ u.words = r.text
    BY <1>3, <1>8, <2>1
  <2>3. /\ stored' = [stored EXCEPT ![d][r.lba] = r.text]
        /\ unit' = [unit EXCEPT ![d] = Ready("disk", FALSE)]
    BY <1>8, <2>2 DEF Work, Becomes
  <2>4. unit'[d] = Ready("disk", FALSE) /\ \A e \in Drive \ {d} : unit'[e] = unit[e]
    BY <2>3 DEF IInv, TypeOK, Unit
  <2>5. r.text \in [1 .. Words -> STRING] /\ Capacity[d] \in Nat
    BY <2>2, Asked, AtaAssumption
  <2>6. /\ stored' = [e \in Drive |-> stored'[e]]
        /\ \A e \in Drive : stored'[e] \in [0 .. Capacity[e] - 1 -> [1 .. Words -> STRING]]
        /\ stored'[d][r.lba] = r.text
    <3>1. /\ stored = [e \in Drive |-> stored[e]]
          /\ \A e \in Drive : stored[e] \in [0 .. Capacity[e] - 1 -> [1 .. Words -> STRING]]
      BY DEF IInv, TypeOK, Unit
    <3>2. r.lba \in 0 .. Capacity[d] - 1
      BY <2>2, <2>5
    <3>3. stored'[d] = [stored[d] EXCEPT ![r.lba] = r.text]
      BY <2>3, <3>1
    <3>4. \A e \in Drive \ {d} : stored'[e] = stored[e]
      BY <2>3, <3>1
    <3>5. stored' = [e \in Drive |-> stored'[e]]
      BY <2>3, <3>1
    <3> HIDE DEF r
    <3>6. stored'[d] \in [0 .. Capacity[d] - 1 -> [1 .. Words -> STRING]]
      BY <2>5, <3>1, <3>3
    <3>7. stored'[d][r.lba] = r.text
      BY <3>1, <3>2, <3>3
    <3>8. QED
      BY <3>1, <3>4, <3>5, <3>6, <3>7 DEF r
  <2>7. TypeOK'
    BY <1>1, <2>3, <2>6 DEF IInv, TypeOK, Unit, Ready, Kind
  <2>8. Quiet(d)' /\ unit'[d].kind = u.kind
    BY <1>1, <2>4 DEF Quiet, Ready
  <2>9. S!Store(c)
    BY <1>1, <2>2, <2>3 DEF S!Store, S!InRange
  <2> HIDE DEF u
  <2>10. ASSUME NEW e \in Caller, InCommand(e) PROVE CallAgrees(e)'
    <3>1. e = c
      BY DEF CarefulUse
    <3> HIDE DEF r
    <3>2. call[c].pc \in {"flush", "wait"}
      BY <1>3, <1>8, <2>1
    <3>3. QED
      BY <1>1, <1>3, <2>1, <2>2, <2>6, <2>8, <3>1, <3>2 DEF r, CallAgrees
  <2>11. IInv'
    BY <1>1, <1>4, <1>8, <2>4, <2>7, <2>8, <2>10, DeviceStep DEF u
  <2>12. QED
    BY <2>9, <2>11 DEF S!Next
<1>9. CASE u.cmd = "flush"
  <2>1. unit' = [unit EXCEPT ![d] = Ready("disk", FALSE)] /\ UNCHANGED stored
    BY <1>9 DEF Work, Becomes
  <2>2. unit'[d] = Ready("disk", FALSE) /\ \A e \in Drive \ {d} : unit'[e] = unit[e]
    BY <2>1 DEF IInv, TypeOK, Unit
  <2>3. TypeOK'
    BY <1>1, <2>1 DEF IInv, TypeOK, Unit, Ready, Kind
  <2>4. Quiet(d)' /\ unit'[d].kind = u.kind
    BY <1>1, <2>2 DEF Quiet, Ready
  <2> HIDE DEF u
  <2>5. ASSUME NEW e \in Caller, InCommand(e) PROVE CallAgrees(e)'
    <3>1. call[e].pc \in {"flush", "wait"} /\ stored[d][request[e].lba] = request[e].text
      BY <1>3, <1>9, <2>5
    <3>2. QED
      BY <1>1, <1>3, <2>1, <2>4, <2>5, <3>1 DEF CallAgrees
  <2>6. IInv'
    BY <1>1, <1>4, <1>9, <2>2, <2>3, <2>4, <2>5, DeviceStep DEF u
  <2>7. QED
    BY <1>1, <2>1, <2>6
<1>10. QED
  BY <1>2, <1>5, <1>6, <1>7, <1>8, <1>9

-----------------------------------------------------------------------------
(* Detection.                                                              *)

LEMMA InitHolds == Init => IInv /\ S!Init
<1> SUFFICES ASSUME Init PROVE IInv /\ S!Init
  OBVIOUS
<1>1. PICK kinds \in Kinds : unit = [d \in Drive |-> Ready(kinds[d], FALSE)]
  BY DEF Init
<1>2. kinds \in [Drive -> Kind] /\ Blank \in [1 .. Words -> STRING]
  <2>1. Kinds \subseteq [Drive -> Kind] /\ Text \cup {Blank} \subseteq [1 .. Words -> STRING]
    BY AtaAssumption
  <2>2. QED
    BY <2>1, Zenon
<1>3. unit \in [Drive -> [kind : Kind, st : {"ready"}, err : BOOLEAN]]
  BY <1>1, <1>2 DEF Ready
<1>4. stored = [d \in Drive |-> [s \in 0 .. Capacity[d] - 1 |-> Blank]]
  BY DEF Init
<1>5. TypeOK
  <2>1. /\ stored = [d \in Drive |-> stored[d]]
        /\ \A d \in Drive : stored[d] \in [0 .. Capacity[d] - 1 -> [1 .. Words -> STRING]]
    BY <1>2, <1>4
  <2>2. /\ regs \in [drive : Drive, top : Nat, low : Nat, mid : Nat, high : Nat]
        /\ detect \in [drive : 0 .. 2, pc : {"select", "busy", "data"}]
        /\ devices \in [Drive -> [present : BOOLEAN, sector_count : Nat]]
    BY DEF Init, Drive
  <2>3. /\ call \in [Caller -> [pc : {"idle", "refused", "select", "address", "command", "poll"}]]
        /\ request = [c \in Caller |-> request[c]]
    BY DEF Init
  <2>4. QED
    BY <1>3, <2>1, <2>2, <2>3 DEF TypeOK, Unit
<1>6. \A d \in Drive : Quiet(d)
  BY <1>3 DEF Quiet
<1>7. QuietUnlessUsed /\ Detects
  BY <1>6 DEF Init, QuietUnlessUsed, Detects, At
<1>8. ASSUME NEW c \in Caller PROVE CallAgrees(c)
  <2>1. call[c].pc = "idle" /\ ~ S!Waits(c)
    BY NotAsked DEF Init, S!Waits
  <2>2. QED
    BY <2>1 DEF CallAgrees
<1>9. QED
  BY <1>5, <1>7, <1>8 DEF IInv, S!Init, Init

(* What is left to show of a step of detection: no call is affected.       *)
LEMMA DetectionStep ==
  ASSUME IInv, detect.drive \in Drive, UNCHANGED <<stored, call, request>>,
         TypeOK', QuietUnlessUsed', Detects'
  PROVE  IInv' /\ UNCHANGED <<stored, request>>
<1>1. ASSUME NEW c \in Caller PROVE CallAgrees(c)'
  <2>1. call[c].pc = "idle" /\ ~ S!Waits(c) /\ (S!Waits(c)' <=> S!Waits(c))
    BY DEF IInv, Detects, CallAgrees, At, S!Waits
  <2>2. QED
    BY <2>1 DEF CallAgrees
<1>2. QED
  BY <1>1 DEF IInv

LEMMA IdentifyStep ==
  ASSUME IInv, Identify
  PROVE  IInv' /\ UNCHANGED <<stored, request>>
<1>1. /\ detect.drive \in Drive /\ detect.pc = "select"
      /\ regs' = [drive |-> detect.drive, top |-> 0, low |-> 0, mid |-> 0, high |-> 0]
      /\ detect' = [detect EXCEPT !.pc = "busy"]
      /\ unit' = Commanded(regs', "identify")
      /\ UNCHANGED <<stored, devices, call, request>>
  BY DEF Identify, Detecting
<1> DEFINE d == detect.drive
<1>2. \A e \in Drive : Quiet(e)
  BY <1>1 DEF IInv, QuietUnlessUsed, Detects, InCommand, At
<1>3. regs'.drive = d /\ Addressed(regs') \in Nat
  BY <1>1, AtaAssumption DEF Addressed
<1>4. detect'.drive = d /\ detect'.pc = "busy"
  BY <1>1 DEF IInv, TypeOK, Unit
<1>5. \A e \in Drive \ {d} : Quiet(e)'
  BY <1>1, <1>2, <1>3 DEF Commanded, IInv, TypeOK, Unit, Quiet
<1>6. CASE unit' = unit
  <2>1. TypeOK'
    BY <1>1, <1>6 DEF IInv, TypeOK, Unit
  <2>2. Quiet(d)'
    BY <1>1, <1>2, <1>6 DEF Quiet
  <2>3. QuietUnlessUsed' /\ Detects'
    BY <1>1, <1>3, <1>4, <1>5, <2>2 DEF IInv, QuietUnlessUsed, Detects, Signature, At
  <2>4. QED
    BY <1>1, <2>1, <2>3, DetectionStep
<1>7. CASE unit' # unit
  <2>1. /\ unit[d].kind \notin {"absent", "floating"}
        /\ unit' = [unit EXCEPT ![d] = [kind |-> unit[d].kind, st |-> "busy", err |-> FALSE,
                      cmd |-> "identify", lba |-> Addressed(regs'), words |-> <<>>]]
    BY <1>1, <1>3, <1>7 DEF Commanded
  <2>2. unit[d].kind \in {"disk", "atapi"} /\ unit'[d].st = "busy" /\ unit'[d].cmd = "identify"
    <3>1. unit[d].kind \in Kind
      BY <1>1, UnitFields DEF IInv
    <3>2. unit[d].kind \in {"disk", "atapi"}
      BY <2>1, <3>1 DEF Kind
    <3>3. unit'[d].st = "busy" /\ unit'[d].cmd = "identify"
      BY <1>1, <2>1 DEF IInv, TypeOK, Unit
    <3>4. QED
      BY <3>2, <3>3
  <2>3. TypeOK'
    <3>1. unit' \in [Drive -> Unit]
      <4> DEFINE v == [kind |-> unit[d].kind, st |-> "busy", err |-> FALSE,
                       cmd |-> "identify", lba |-> Addressed(regs'), words |-> <<>>]
      <4>1. v \in [kind : {"disk", "atapi"}, st : {"busy"}, err : {FALSE}, lba : Nat,
                   words : Seq(STRING), cmd : {"identify", "read", "write", "store", "flush"}]
        BY <1>3, <2>2
      <4>2. unit' = [unit EXCEPT ![d] = v]
        BY <2>1
      <4> HIDE DEF v
      <4>3. QED
        BY <4>1, <4>2 DEF IInv, TypeOK, Unit
    <3>2. QED
      BY <1>1, <3>1 DEF IInv, TypeOK, Unit
  <2>4. QuietUnlessUsed' /\ Detects'
    BY <1>1, <1>3, <1>4, <1>5, <2>2 DEF IInv, QuietUnlessUsed, Detects, Signature, At, Doing
  <2>5. QED
    BY <1>1, <2>3, <2>4, DetectionStep
<1>8. QED
  BY <1>6, <1>7

LEMMA IdentifyWaitStep ==
  ASSUME IInv, IdentifyWait
  PROVE  IInv' /\ UNCHANGED <<stored, request>>
<1> DEFINE d == detect.drive
<1>1. /\ d \in Drive /\ detect.pc = "busy" /\ d = regs.drive
      /\ UNCHANGED <<regs, unit, stored, call, request>>
  BY DEF IdentifyWait, Detecting, IInv, TypeOK, Unit, Detects
<1>2. \A e \in Drive \ {d} : Quiet(e)
  BY <1>1 DEF IInv, QuietUnlessUsed
<1>3. \A e \in Drive : Quiet(e)' <=> Quiet(e)
  BY <1>1 DEF Quiet
<1>4. d + 1 \in 0 .. 2
  BY <1>1 DEF Drive
<1>5. CASE Absent
  <2>1. Quiet(d)
    <3>1. CASE Status(d) = {}
      BY <1>1, <3>1, StatusFacts, UnitFields DEF IInv, Quiet
    <3>2. CASE Signature /\ "BSY" \notin Status(d)
      <4>1. unit[d].kind = "atapi"
        BY <1>1, <3>2 DEF IInv, Detects
      <4>2. unit[d].st # "busy"
        BY <1>1, <3>2, StatusFacts DEF IInv
      <4>3. QED
        BY <1>1, <4>1, <4>2, UnitFields DEF IInv, Quiet
    <3>3. CASE detect' = [detect EXCEPT !.pc = "data"]
      BY <1>1, <1>4, <1>5, <3>3 DEF IInv, TypeOK, Unit, Absent, NextDrive
    <3>4. QED
      BY <3>1, <3>2, <3>3 DEF IdentifyWait, Answers
  <2>2. detect' = [drive |-> d + 1, pc |-> "select"]
        /\ devices' = [devices EXCEPT ![d].present = FALSE]
    BY <1>5 DEF Absent, NextDrive
  <2>3. /\ devices' \in [Drive -> [present : BOOLEAN, sector_count : Nat]]
        /\ \A e \in Drive : devices'[e].present => devices'[e].sector_count = Capacity[e]
    <3>1. devices \in [Drive -> [present : BOOLEAN, sector_count : Nat]]
      BY DEF IInv, TypeOK, Unit
    <3>2. \A e \in Drive : devices[e].present => devices[e].sector_count = Capacity[e]
      BY DEF IInv, Detects
    <3> HIDE DEF d
    <3>3. QED
      BY <1>1, <2>2, <3>1, <3>2
  <2>4. TypeOK'
    BY <1>1, <1>4, <2>2, <2>3 DEF IInv, TypeOK, Unit
  <2>5. QuietUnlessUsed' /\ Detects'
    BY <1>1, <1>2, <1>3, <2>1, <2>2, <2>3 DEF IInv, QuietUnlessUsed, Detects, At
  <2>6. QED
    BY <1>1, <2>4, <2>5, DetectionStep
<1>6. CASE ~ Absent
  <2>1. /\ detect' = [detect EXCEPT !.pc = "data"] /\ UNCHANGED devices
        /\ "BSY" \notin Status(d)
    BY <1>6 DEF IdentifyWait
  <2>2. unit[d].st # "busy"
    BY <1>1, <2>1, StatusFacts DEF IInv
  <2>3. detect'.drive = d /\ detect'.pc = "data"
    BY <2>1 DEF IInv, TypeOK, Unit
  <2>4. TypeOK'
    BY <1>1, <2>1 DEF IInv, TypeOK, Unit
  <2>5. QuietUnlessUsed' /\ Detects'
    BY <1>1, <1>2, <1>3, <2>1, <2>2, <2>3
    DEF IInv, QuietUnlessUsed, Detects, At, Signature, Doing
  <2>6. QED
    BY <1>1, <2>4, <2>5, DetectionStep
<1>7. QED
  BY <1>5, <1>6

LEMMA IdentifyDataStep ==
  ASSUME IInv, IdentifyData
  PROVE  IInv' /\ UNCHANGED <<stored, request>>
<1> DEFINE d == detect.drive
<1>1. /\ d \in Drive /\ detect.pc = "data" /\ d = regs.drive
      /\ UNCHANGED <<regs, stored, call, request>>
      /\ detect' = [drive |-> d + 1, pc |-> "select"]
  BY DEF IdentifyData, Detecting, IInv, TypeOK, Unit, Detects, Absent, NextDrive
<1>2. \A e \in Drive \ {d} : Quiet(e)
  BY <1>1 DEF IInv, QuietUnlessUsed
<1>3. d + 1 \in 0 .. 2
  BY <1>1 DEF Drive
<1>4. Capacity[d] \in Nat
  BY <1>1, AtaAssumption
<1>5. /\ TypeOK' /\ \A e \in Drive : Quiet(e)'
      /\ \A e \in Drive : devices'[e].present => devices'[e].sector_count = Capacity[e]
  <2>1. CASE "ERR" \in Status(d) /\ Absent /\ UNCHANGED unit
    <3>1. unit[d].kind = "floating" \/ unit[d].err
      BY <1>1, <2>1, StatusFacts DEF IInv
    <3>2. Quiet(d)
      BY <1>1, <3>1, UnitFields DEF IInv, Quiet
    <3>3. devices' = [devices EXCEPT ![d].present = FALSE]
      BY <2>1 DEF Absent
    <3>4. /\ devices' \in [Drive -> [present : BOOLEAN, sector_count : Nat]]
          /\ \A e \in Drive : devices'[e].present => devices'[e].sector_count = Capacity[e]
      <4>1. devices \in [Drive -> [present : BOOLEAN, sector_count : Nat]]
        BY DEF IInv, TypeOK, Unit
      <4>2. \A e \in Drive : devices[e].present => devices[e].sector_count = Capacity[e]
        BY DEF IInv, Detects
      <4> HIDE DEF d
      <4>3. QED
        BY <3>3, <4>1, <4>2
    <3>5. TypeOK'
      BY <1>1, <1>3, <2>1, <3>4 DEF IInv, TypeOK, Unit
    <3>6. \A e \in Drive : Quiet(e)'
      BY <1>2, <2>1, <3>2 DEF Quiet
    <3>7. QED
      BY <3>4, <3>5, <3>6
  <2>2. CASE /\ devices' = [devices EXCEPT ![d] = [present |-> TRUE, sector_count |-> Capacity[d]]]
             /\ unit' = [unit EXCEPT ![d] = Ready("disk", FALSE)]
    <3>1. \A e \in Drive : Quiet(e)'
      BY <1>1, <1>2, <2>2 DEF IInv, TypeOK, Unit, Quiet, Ready
    <3>2. TypeOK'
      BY <1>1, <1>3, <1>4, <2>2 DEF IInv, TypeOK, Unit, Ready, Kind
    <3>3. QED
      BY <1>1, <2>2, <3>1, <3>2 DEF IInv, TypeOK, Unit, Detects
  <2>3. QED
    BY <2>1, <2>2 DEF IdentifyData, Becomes
<1>6. QuietUnlessUsed' /\ Detects'
  BY <1>1, <1>5 DEF IInv, QuietUnlessUsed, Detects, At
<1>7. QED
  BY <1>1, <1>5, <1>6, DetectionStep

-----------------------------------------------------------------------------
(* The calls.                                                              *)

(* What is left to show of a step of a call.                               *)
LEMMA CallStep ==
  ASSUME IInv, CarefulUse, NEW c \in Caller, detect.drive \notin Drive,
         UNCHANGED <<stored, detect, devices>>, TypeOK',
         \A d \in Drive : ~ Quiet(d)' => d = regs'.drive /\ InCommand(c)',
         CallAgrees(c)'
  PROVE  IInv'
<1>1. \A e \in Caller : e = c
  BY DEF CarefulUse
<1>2. detect.pc = "select"
  BY DEF IInv, TypeOK, Unit, Detects
<1>3. QuietUnlessUsed'
  BY DEF QuietUnlessUsed
<1>4. Detects'
  BY <1>2 DEF IInv, Detects
<1>5. QED
  BY <1>1, <1>3, <1>4 DEF IInv

(* A call that returns leaves the drives quiet.                            *)
LEMMA ReturnStep ==
  ASSUME IInv, CarefulUse, NEW c \in Caller, ~ At(c, "idle"), NEW answer,
         answer = Failed \/ \E x : answer = [text |-> x], Return(c, answer),
         UNCHANGED <<regs, stored, detect, devices>>,
         unit' = [d \in Drive |-> unit'[d]],
         \A d \in Drive : unit'[d] \in [kind : Kind, st : {"ready"}, err : BOOLEAN]
  PROVE  IInv'
<1>1. detect.drive \notin Drive
  BY Calling
<1>2. /\ call' = [call EXCEPT ![c] = [pc |-> "idle"]]
      /\ request' = [request EXCEPT ![c] = answer]
  BY DEF Return, Go
<1>3. call'[c] = [pc |-> "idle"] /\ request'[c] = answer
  BY <1>2 DEF IInv, TypeOK, Unit
<1>4. TypeOK'
  BY <1>2 DEF IInv, TypeOK, Unit
<1>5. CallAgrees(c)'
  BY <1>3, NotAsked DEF CallAgrees, S!Waits
<1>6. \A d \in Drive : Quiet(d)'
  BY DEF Quiet
<1>7. QED
  BY <1>1, <1>4, <1>5, <1>6, CallStep

LEMMA QuietUnits ==
  ASSUME TypeOK, NEW d \in Drive, Quiet(d)
  PROVE  unit[d] \in [kind : Kind, st : {"ready"}, err : BOOLEAN]
BY DEF TypeOK, Unit, Quiet

LEMMA FailStep ==
  ASSUME IInv, CarefulUse, NEW c \in Caller, ~ At(c, "idle"), Return(c, Failed),
         UNCHANGED <<regs, unit, stored, detect, devices>>,
         \A d \in Drive : Quiet(d)
  PROVE  IInv' /\ [S!Next]_<<stored, request>>
<1>1. unit' = [d \in Drive |-> unit'[d]]
  BY DEF IInv, TypeOK, Unit
<1>2. \A d \in Drive : unit'[d] \in [kind : Kind, st : {"ready"}, err : BOOLEAN]
  BY QuietUnits DEF IInv
<1>3. IInv'
  BY <1>1, <1>2, ReturnStep
<1>4. S!Waits(c)
  BY Calling
<1>5. S!Answer(c)
  BY <1>4 DEF S!Answer, Return
<1>6. QED
  BY <1>3, <1>5 DEF S!Next

LEMMA StartStep ==
  ASSUME IInv, CarefulUse, NEW c \in Caller, NEW op \in {"read", "write"}, NEW d \in Drive,
         NEW lba \in Lba, NEW text \in Text, Start(c, op, d, lba, text)
  PROVE  IInv' /\ [S!Next]_<<stored, request>>
<1> DEFINE r == [op |-> op, drive |-> d, lba |-> lba, text |-> text]
           pc == IF Present(d, lba) THEN "select" ELSE "refused"
<1>1. /\ detect.drive \notin Drive /\ At(c, "idle") /\ request' = [request EXCEPT ![c] = r]
      /\ call' = [call EXCEPT ![c] = [pc |-> pc]]
      /\ UNCHANGED <<regs, unit, stored, detect, devices>>
  BY DEF Start, Go
<1>2. r \in S!Request /\ ~ S!Waits(c)
  BY <1>1 DEF S!Request, IInv, CallAgrees, At
<1>3. request'[c] = r /\ call'[c] = [pc |-> pc]
  BY <1>1 DEF IInv, TypeOK, Unit
<1>4. TypeOK'
  BY <1>1 DEF IInv, TypeOK, Unit
<1>5. \A e \in Drive : Quiet(e)'
  <2>1. \A e \in Caller : ~ InCommand(e)
    BY <1>1 DEF CarefulUse, InCommand, At
  <2>2. detect.pc = "select"
    BY <1>1 DEF IInv, TypeOK, Unit, Detects
  <2>3. QED
    BY <1>1, <2>1, <2>2 DEF IInv, QuietUnlessUsed, Quiet
<1>6. pc = "select" => lba < Capacity[d]
  BY DEF Present, IInv, Detects
<1>7. CallAgrees(c)'
  <2>1. S!Waits(c)'
    BY <1>2, <1>3 DEF S!Waits
  <2>2. r.drive = d /\ r.lba = lba
    OBVIOUS
  <2>3. pc \in {"select", "refused"} /\ call'[c].pc = pc
    BY <1>3
  <2> HIDE DEF r, pc
  <2>4. QED
    BY <1>3, <1>6, <2>1, <2>2, <2>3 DEF CallAgrees
<1>8. S!Ask(c)
  BY <1>1, <1>2 DEF S!Ask
<1>9. QED
  BY <1>1, <1>4, <1>5, <1>7, <1>8, CallStep DEF S!Next

LEMMA RefusedStep ==
  ASSUME IInv, CarefulUse, NEW c \in Caller, Refused(c)
  PROVE  IInv' /\ [S!Next]_<<stored, request>>
<1>1. ~ At(c, "idle") /\ ~ InCommand(c)
  BY DEF Refused, At, InCommand
<1>2. \A d \in Drive : Quiet(d)
  BY <1>1, Calling
<1>3. QED
  BY <1>1, <1>2, FailStep DEF Refused

(* Select, Address and Command: the registers come to name the sector.     *)
LEMMA SelectStep ==
  ASSUME IInv, CarefulUse, NEW c \in Caller, Select(c)
  PROVE  IInv' /\ UNCHANGED <<stored, request>>
<1> DEFINE r == request[c]
           top == Digits(r.lba).top
<1>1. /\ regs' = [regs EXCEPT !.drive = r.drive, !.top = top]
      /\ call' = [call EXCEPT ![c] = [pc |-> "address"]]
      /\ UNCHANGED <<unit, stored, detect, devices, request>>
      /\ call[c].pc = "select"
  BY DEF Select, Go, At
<1>2. CallAgrees(c) /\ S!Waits(c) /\ (S!Waits(c))' /\ detect.drive \notin Drive
      /\ \A d \in Drive : Quiet(d)
  BY <1>1, Calling DEF IInv, At, InCommand, S!Waits
<1>3. r.drive \in Drive /\ r.lba \in Nat
  BY <1>2, Asked
<1>4. top \in Nat
  BY <1>3, DigitTypes
<1> HIDE DEF top
<1>5. TypeOK' /\ regs'.drive = r.drive /\ regs'.top = top /\ call'[c] = [pc |-> "address"]
  BY <1>1, <1>3, <1>4 DEF IInv, TypeOK, Unit
<1>6. CallAgrees(c)'
  <2>1. Digits(r.lba)'.top = top
    BY <1>1 DEF top, Digits
  <2>2. r.lba < Capacity[r.drive]
    BY <1>1, <1>2 DEF CallAgrees
  <2>3. UNCHANGED r /\ call'[c].pc = "address"
    BY <1>1, <1>5
  <2> HIDE DEF r
  <2>4. QED
    BY <1>2, <1>5, <2>1, <2>2, <2>3 DEF CallAgrees, r
<1>7. \A d \in Drive : Quiet(d)'
  BY <1>1, <1>2 DEF Quiet
<1>8. QED
  BY <1>1, <1>2, <1>5, <1>6, <1>7, CallStep

LEMMA AddressStep ==
  ASSUME IInv, CarefulUse, NEW c \in Caller, Address(c)
  PROVE  IInv' /\ UNCHANGED <<stored, request>>
<1> DEFINE r == request[c]
           digits == Digits(r.lba)
<1>1. /\ regs' = [regs EXCEPT !.low = digits.low, !.mid = digits.mid, !.high = digits.high]
      /\ call' = [call EXCEPT ![c] = [pc |-> "command"]]
      /\ UNCHANGED <<unit, stored, detect, devices, request>>
      /\ call[c].pc = "address"
  BY DEF Address, Go, At
<1>2. CallAgrees(c) /\ S!Waits(c) /\ (S!Waits(c))' /\ detect.drive \notin Drive
      /\ \A d \in Drive : Quiet(d)
  BY <1>1, Calling DEF IInv, At, InCommand, S!Waits
<1>3. r.drive \in Drive /\ r.lba \in Nat
  BY <1>2, Asked
<1>4. digits.low \in Nat /\ digits.mid \in Nat /\ digits.high \in Nat
  BY <1>3, DigitTypes
<1> HIDE DEF digits
<1>5. /\ TypeOK' /\ regs'.drive = regs.drive /\ regs'.top = regs.top /\ call'[c] = [pc |-> "command"]
      /\ regs'.low = digits.low /\ regs'.mid = digits.mid /\ regs'.high = digits.high
  BY <1>1, <1>3, <1>4 DEF IInv, TypeOK, Unit
<1>6. /\ regs.top = Digits(r.lba).top /\ regs.drive = r.drive
      /\ r.lba < Capacity[r.drive]
  BY <1>1, <1>2 DEF CallAgrees
<1>7. Addressed(regs') = r.lba
  BY <1>3, <1>5, <1>6, DigitsName DEF digits
<1>8. CallAgrees(c)'
  <2>1. Addressed(regs)' = r.lba
    BY <1>7 DEF Addressed
  <2>2. UNCHANGED r /\ call'[c].pc = "command"
    BY <1>1, <1>5
  <2> HIDE DEF r
  <2>3. QED
    BY <1>2, <1>5, <1>6, <2>1, <2>2 DEF CallAgrees, r
<1>9. \A d \in Drive : Quiet(d)'
  BY <1>1, <1>2 DEF Quiet
<1>10. QED
  BY <1>1, <1>2, <1>5, <1>8, <1>9, CallStep

LEMMA CommandStep ==
  ASSUME IInv, CarefulUse, NEW c \in Caller, Command(c)
  PROVE  IInv' /\ UNCHANGED <<stored, request>>
<1> DEFINE r == request[c]
           d == r.drive
           v == [kind |-> unit[d].kind, st |-> "busy", err |-> FALSE,
                 cmd |-> r.op, lba |-> r.lba, words |-> <<>>]
<1>1. /\ unit' = Commanded(regs, r.op)
      /\ call' = [call EXCEPT ![c] = [pc |-> "poll"]]
      /\ UNCHANGED <<regs, stored, detect, devices, request>>
      /\ call[c].pc = "command"
  BY DEF Command, Go, At
<1>2. CallAgrees(c) /\ S!Waits(c) /\ (S!Waits(c))' /\ detect.drive \notin Drive
      /\ \A e \in Drive : Quiet(e)
  BY <1>1, Calling DEF IInv, At, InCommand, S!Waits
<1>3. d \in Drive /\ r.lba \in Nat /\ r.op \in {"read", "write"}
  BY <1>2, Asked
<1>4. regs.drive = d /\ Addressed(regs) = r.lba /\ r.lba < Capacity[d]
  BY <1>1, <1>2 DEF CallAgrees
<1>5. call'[c] = [pc |-> "poll"]
  BY <1>1 DEF IInv, TypeOK, Unit
<1>6. \/ unit' = unit
      \/ unit[d].kind \notin {"absent", "floating"} /\ unit' = [unit EXCEPT ![d] = v]
  BY <1>1, <1>4 DEF Commanded
<1> HIDE DEF d, v
<1>7. TypeOK' /\ \A e \in Drive \ {d} : unit'[e] = unit[e]
  <2>1. unit[d].kind \in Kind
    BY <1>3, UnitFields DEF IInv
  <2>2. unit[d].kind \notin {"absent", "floating"} =>
          v \in [kind : {"disk", "atapi"}, st : {"busy"}, err : {FALSE}, lba : Nat,
                 words : Seq(STRING), cmd : {"identify", "read", "write", "store", "flush"}]
    BY <1>3, <2>1 DEF v, Kind
  <2>3. unit' \in [Drive -> Unit]
    BY <1>6, <2>2 DEF IInv, TypeOK, Unit
  <2>4. \A e \in Drive \ {d} : unit'[e] = unit[e]
    BY <1>6 DEF IInv, TypeOK, Unit
  <2>5. QED
    BY <1>1, <2>3, <2>4 DEF IInv, TypeOK, Unit
<1>8. \/ unit'[d].st = "ready"
      \/ unit'[d].st = "busy" /\ unit'[d].cmd = r.op /\ unit'[d].lba = r.lba /\ unit'[d].words = <<>>
  BY <1>2, <1>3, <1>6 DEF v, IInv, TypeOK, Unit, Quiet
<1>9. CallAgrees(c)'
  <2>1. UNCHANGED r /\ call'[c].pc = "poll"
    BY <1>1, <1>5
  <2>2. Quiet(d)' \/ (Doing(d, "busy", r.op)' /\ unit'[d].lba = r.lba /\ unit'[d].words = <<>>)
    BY <1>1, <1>8 DEF Quiet, Doing, d
  <2>3. UNCHANGED regs
    BY <1>1
  <2> HIDE DEF r
  <2>4. QED
    BY <1>2, <1>4, <2>1, <2>2, <2>3 DEF CallAgrees, d, r
<1>10. \A e \in Drive : ~ Quiet(e)' => e = regs'.drive /\ InCommand(c)'
  BY <1>1, <1>2, <1>4, <1>5, <1>7 DEF Quiet, InCommand
<1>11. QED
  BY <1>1, <1>2, <1>7, <1>9, <1>10, CallStep

(* A drive that has ended a command with an error, and one that has none,  *)
(* is quiet.                                                               *)
LEMMA PollStep ==
  ASSUME IInv, CarefulUse, NEW c \in Caller, Poll(c)
  PROVE  IInv' /\ [S!Next]_<<stored, request>>
<1> DEFINE r == request[c]
           d == r.drive
           u == unit[d]
<1>1. /\ call[c].pc = "poll" /\ "BSY" \notin Status(regs.drive)
      /\ UNCHANGED <<regs, unit, stored, detect, devices>>
  BY DEF Poll, At
<1>2. CallAgrees(c) /\ S!Waits(c) /\ detect.drive \notin Drive
  BY <1>1, Calling DEF IInv, At
<1>3. d \in Drive /\ r.op \in {"read", "write"} /\ d = regs.drive
  BY <1>1, <1>2, Asked DEF CallAgrees
<1>4. u.st # "busy" /\ u.kind # "floating"
  BY <1>1, <1>3, StatusFacts DEF IInv
<1>5. \A e \in Drive \ {d} : Quiet(e)
  BY <1>3 DEF IInv, QuietUnlessUsed
<1>6. CASE Quiet(d)
  <2>1. "DRQ" \notin Status(regs.drive)
    BY <1>3, <1>4, <1>6, StatusFacts DEF IInv, Quiet
  <2>2. Return(c, Failed)
    BY <2>1 DEF Poll
  <2>3. \A e \in Drive : Quiet(e)
    BY <1>5, <1>6
  <2>4. ~ At(c, "idle")
    BY <1>1 DEF At
  <2>5. QED
    BY <1>1, <2>2, <2>3, <2>4, FailStep
<1>7. CASE ~ Quiet(d)
  <2>1. u.st \in {"in", "out"} /\ u.err = FALSE /\ u.words \in Seq(STRING)
    BY <1>3, <1>4, <1>7, UnitFields DEF IInv, Quiet
  <2>2. call' = [call EXCEPT ![c] = [pc |-> "data", words |-> <<>>]] /\ UNCHANGED request
    <3>1. "ERR" \notin Status(regs.drive) /\ "DRQ" \in Status(regs.drive)
      BY <1>3, <1>4, <2>1, StatusFacts DEF IInv
    <3>2. QED
      BY <3>1 DEF Poll, Go
  <2>3. call'[c] = [pc |-> "data", words |-> <<>>]
    BY <2>2 DEF IInv, TypeOK
  <2>4. /\ r.lba < Capacity[d] /\ r.lba \in Nat /\ u.lba = r.lba /\ Capacity[d] \in Nat
        /\ \/ Doing(d, "in", "read") /\ r.op = "read" /\ u.words = stored[d][r.lba]
           \/ Doing(d, "out", "write") /\ r.op = "write" /\ u.words = <<>>
    BY <1>1, <1>2, <1>3, <1>4, <1>7, Asked, AtaAssumption DEF CallAgrees, Doing
  <2>5. stored[d][r.lba] # <<>>
    BY <1>3, <2>4, StoredText DEF IInv
  <2>7. <<>> \o u.words = u.words
    BY <2>1, ConcatEmptySeq
  <2>8. /\ Len(<<>>) = 0 /\ 0 < Words /\ SubSeq(r.text, 1, 0) = <<>>
        /\ <<>> \in Seq(STRING)
    BY SubSeqEmpty, EmptySeq, AtaAssumption
  <2>9. TypeOK'
    BY <1>1, <2>2, <2>8 DEF IInv, TypeOK
  <2>10. CallAgrees(c)'
    <3>1. UNCHANGED r /\ call'[c].pc = "data" /\ call'[c].words = <<>> /\ (S!Waits(c))'
      BY <1>2, <2>2, <2>3 DEF S!Waits
    <3>2. \/ /\ Doing(d, "in", "read") /\ r.op = "read" /\ u.words # <<>>
             /\ <<>> \o u.words = stored[d][r.lba]
          \/ /\ Doing(d, "out", "write") /\ r.op = "write" /\ u.lba = r.lba
             /\ Len(u.words) < Words /\ u.words = <<>>
             /\ u.words = SubSeq(r.text, 1, Len(u.words))
      BY <2>4, <2>5, <2>7, <2>8
    <3> HIDE DEF r
    <3>3. QED
      BY <1>1, <1>3, <2>4, <3>1, <3>2 DEF CallAgrees, Doing, r
  <2>11. \A e \in Drive : ~ Quiet(e)' => e = regs'.drive /\ InCommand(c)'
    BY <1>1, <1>3, <1>5, <2>3 DEF Quiet, InCommand
  <2>12. QED
    BY <1>1, <1>2, <2>2, <2>9, <2>10, <2>11, CallStep
<1>8. QED
  BY <1>6, <1>7

(* Moving the head of one sequence to the end of the other.                *)
LEMMA MovedWord ==
  ASSUME NEW T, NEW s \in Seq(T), NEW t \in Seq(T), t # <<>>
  PROVE  /\ Append(s, Head(t)) \in Seq(T) /\ Tail(t) \in Seq(T)
         /\ Append(s, Head(t)) \o Tail(t) = s \o t
         /\ Len(Append(s, Head(t))) + Len(Tail(t)) = Len(s \o t)
         /\ Len(Tail(t)) = Len(t) - 1 /\ Len(t) \in Nat
         /\ Len(t) = 1 => Append(s, Head(t)) = s \o t
<1>1. /\ Head(t) \in T /\ Tail(t) \in Seq(T) /\ Len(Tail(t)) = Len(t) - 1
      /\ \A i \in 1 .. Len(Tail(t)) : Tail(t)[i] = t[i + 1]
      /\ Len(t) \in Nat /\ Len(s) \in Nat /\ Len(t) # 0
  BY HeadTailProperties, LenProperties, EmptySeq
<1>2. Head(t) = t[1]
  OBVIOUS
<1>3. /\ Append(s, Head(t)) \in Seq(T) /\ Len(Append(s, Head(t))) = Len(s) + 1
      /\ \A i \in 1 .. Len(s) : Append(s, Head(t))[i] = s[i]
      /\ Append(s, Head(t))[Len(s) + 1] = t[1]
  BY <1>1, <1>2, AppendProperties
<1> DEFINE a == Append(s, Head(t))
           b == Tail(t)
<1> HIDE DEF a, b
<1>4. /\ a \in Seq(T) /\ b \in Seq(T) /\ Len(a) = Len(s) + 1 /\ Len(b) = Len(t) - 1
      /\ \A i \in 1 .. Len(s) : a[i] = s[i]
      /\ a[Len(s) + 1] = t[1] /\ \A i \in 1 .. Len(b) : b[i] = t[i + 1]
  BY <1>1, <1>3 DEF a, b
<1>5. /\ a \o b \in Seq(T) /\ Len(a \o b) = Len(a) + Len(b)
      /\ \A i \in 1 .. Len(a) + Len(b) : (a \o b)[i] = IF i <= Len(a) THEN a[i] ELSE b[i - Len(a)]
  BY <1>4, ConcatProperties
<1>6. /\ s \o t \in Seq(T) /\ Len(s \o t) = Len(s) + Len(t)
      /\ \A i \in 1 .. Len(s) + Len(t) : (s \o t)[i] = IF i <= Len(s) THEN s[i] ELSE t[i - Len(s)]
  BY ConcatProperties
<1>7. Len(a \o b) = Len(s \o t) /\ Len(a) + Len(b) = Len(s \o t)
  BY <1>1, <1>4, <1>5, <1>6
<1>8. ASSUME NEW i \in 1 .. Len(s) + Len(t) PROVE (a \o b)[i] = (s \o t)[i]
  <2>1. i \in 1 .. Len(a) + Len(b)
    BY <1>1, <1>4
  <2>2. CASE i <= Len(s)
    BY <1>1, <1>4, <1>5, <1>6, <2>1, <2>2
  <2>3. CASE i = Len(s) + 1
    BY <1>1, <1>4, <1>5, <1>6, <2>1, <2>3
  <2>4. CASE i > Len(s) + 1
    <3> DEFINE j == i - (Len(s) + 1)
    <3>1. j \in 1 .. Len(b) /\ i - Len(a) = j /\ j + 1 = i - Len(s) /\ ~ i <= Len(a)
      BY <1>1, <1>4, <2>4
    <3>2. (a \o b)[i] = b[j]
      BY <1>5, <2>1, <3>1
    <3>3. b[j] = t[i - Len(s)]
      BY <1>4, <3>1
    <3>4. (s \o t)[i] = t[i - Len(s)]
      BY <1>1, <1>6, <2>4
    <3> HIDE DEF j
    <3>5. QED
      BY <3>2, <3>3, <3>4
  <2>5. i \in Int /\ Len(s) \in Int
    BY <1>1
  <2>6. i <= Len(s) \/ i = Len(s) + 1 \/ i > Len(s) + 1
    BY <2>5
  <2>7. QED
    BY <2>2, <2>3, <2>4, <2>6
<1>9. a \o b = s \o t
  BY <1>5, <1>6, <1>7, <1>8, SeqEqual
<1>10. ASSUME Len(t) = 1 PROVE a = s \o t
  <2>1. b = <<>>
    BY <1>1, <1>4, <1>10, EmptySeq
  <2>2. QED
    BY <1>4, <1>9, <2>1, ConcatEmptySeq
<1>11. QED
  BY <1>1, <1>3, <1>7, <1>9, <1>10 DEF a, b

LEMMA ReadWordStep ==
  ASSUME IInv, CarefulUse, NEW c \in Caller, ReadWord(c)
  PROVE  IInv' /\ [S!Next]_<<stored, request>>
<1> DEFINE r == request[c]
           d == r.drive
           u == unit[d]
           s == call[c].words
           held == stored[d][r.lba]
<1>1. /\ call[c].pc = "data" /\ r.op # "write"
      /\ UNCHANGED <<regs, stored, detect, devices>>
  BY DEF ReadWord, At, IsWrite
<1>2. CallAgrees(c) /\ S!Waits(c) /\ detect.drive \notin Drive /\ ~ At(c, "idle")
  BY <1>1, Calling DEF IInv, At
<1>3. d \in Drive /\ r.lba \in Nat /\ Capacity[d] \in Nat
  BY <1>2, Asked, AtaAssumption
<1>4. /\ d = regs.drive /\ r.lba < Capacity[d] /\ u.st = "in" /\ u.cmd = "read"
      /\ r.op = "read" /\ u.words # <<>> /\ s \o u.words = held
  BY <1>1, <1>2 DEF CallAgrees, Doing
<1>5. /\ u \in [kind : {"disk"}, st : {"in", "out"}, err : {FALSE}, lba : Nat, words : Seq(STRING),
                cmd : {"identify", "read", "write"}]
      /\ s \in Seq(STRING)
  BY <1>1, <1>3, <1>4 DEF IInv, TypeOK, Unit
<1>6. held \in Seq(STRING) /\ Len(held) = Words
  BY <1>3, <1>4, StoredText DEF IInv
<1> DEFINE w == Append(s, Head(u.words))
<1>7. /\ w \in Seq(STRING) /\ Tail(u.words) \in Seq(STRING) /\ w \o Tail(u.words) = held
      /\ Len(w) + Len(Tail(u.words)) = Words /\ Len(Tail(u.words)) = Len(u.words) - 1
      /\ Len(u.words) \in Nat /\ (Len(u.words) = 1 => w = held) /\ Len(w) \in Nat
  <2>1. u.words \in Seq(STRING)
    BY <1>5
  <2> DEFINE t == u.words
  <2>2. t \in Seq(STRING) /\ t # <<>> /\ s \in Seq(STRING) /\ s \o t = held
    BY <1>4, <1>5
  <2> HIDE DEF t, s, held
  <2>3. /\ Append(s, Head(t)) \in Seq(STRING) /\ Tail(t) \in Seq(STRING)
        /\ Append(s, Head(t)) \o Tail(t) = s \o t
        /\ Len(Append(s, Head(t))) + Len(Tail(t)) = Len(s \o t)
        /\ Len(Tail(t)) = Len(t) - 1 /\ Len(t) \in Nat
        /\ Len(t) = 1 => Append(s, Head(t)) = s \o t
    BY <2>2, MovedWord
  <2>4. Len(Append(s, Head(t))) \in Nat
    BY <2>3, LenProperties
  <2>5. QED
    BY <1>6, <2>2, <2>3, <2>4 DEF t
<1>8. \A e \in Drive \ {d} : Quiet(e)
  BY <1>4 DEF IInv, QuietUnlessUsed
<1>9. CASE Len(u.words) = 1
  <2>1. Len(w) = Words
    <3> HIDE DEF w, u
    <3>1. Len(Tail(u.words)) = 0 /\ Words \in Nat
      BY <1>7, <1>9, AtaAssumption
    <3>2. QED
      BY <1>7, <3>1
  <2>2. unit' = [unit EXCEPT ![d] = Ready("disk", FALSE)] /\ Return(c, [text |-> w])
    BY <1>4, <1>9, <2>1 DEF ReadWord, Becomes
  <2>3. /\ unit' = [e \in Drive |-> unit'[e]]
        /\ \A e \in Drive : unit'[e] \in [kind : Kind, st : {"ready"}, err : BOOLEAN]
    <3>1. \A e \in Drive \ {d} : unit[e] \in [kind : Kind, st : {"ready"}, err : BOOLEAN]
      BY <1>8, QuietUnits DEF IInv
    <3>2. Ready("disk", FALSE) \in [kind : Kind, st : {"ready"}, err : BOOLEAN]
      BY DEF Ready, Kind
    <3>3. unit = [e \in Drive |-> unit[e]]
      BY DEF IInv, TypeOK
    <3> HIDE DEF d
    <3>4. QED
      BY <2>2, <3>1, <3>2, <3>3
  <2>4. IInv'
    BY <1>1, <1>2, <2>2, <2>3, ReturnStep
  <2>5. S!Answer(c)
    <3>1. request' = [request EXCEPT ![c] = [text |-> held]]
      BY <1>7, <1>9, <2>2 DEF Return
    <3>2. QED
      BY <1>1, <1>2, <1>4, <3>1 DEF S!Answer, S!InRange, S!Holds
  <2>6. QED
    BY <2>4, <2>5 DEF S!Next
<1>10. CASE Len(u.words) # 1
  <2>1. Len(w) # Words
    <3> HIDE DEF w, u
    <3>1. Len(Tail(u.words)) \in Int /\ Len(Tail(u.words)) # 0 /\ Words \in Nat
      BY <1>7, <1>10, AtaAssumption
    <3>2. Len(w) \in Int /\ Len(w) + Len(Tail(u.words)) = Words
      BY <1>7
    <3> DEFINE m == Len(w)
               n == Len(Tail(u.words))
    <3> HIDE DEF m, n
    <3>3. m \in Int /\ n \in Int /\ n # 0 /\ m + n = Words /\ Words \in Int
      BY <3>1, <3>2 DEF m, n
    <3>4. m # Words
      BY <3>3
    <3>5. QED
      BY <3>4 DEF m
  <2>2. /\ unit' = [unit EXCEPT ![d] = [u EXCEPT !.words = Tail(u.words)]]
        /\ call' = [call EXCEPT ![c] = [pc |-> "data", words |-> w]] /\ UNCHANGED request
    BY <1>4, <1>10, <2>1 DEF ReadWord, Becomes, Go
  <2>3. call'[c] = [pc |-> "data", words |-> w]
    BY <2>2 DEF IInv, TypeOK
  <2>4. /\ unit'[d] = [u EXCEPT !.words = Tail(u.words)]
        /\ \A e \in Drive \ {d} : unit'[e] = unit[e]
    BY <1>3, <2>2 DEF IInv, TypeOK
  <2>5. unit'[d].st = "in" /\ unit'[d].cmd = "read" /\ unit'[d].words = Tail(u.words)
    BY <1>4, <1>5, <2>4
  <2>6. TypeOK'
    <3>1. [u EXCEPT !.words = Tail(u.words)] \in Unit
      BY <1>5, <1>7 DEF Unit
    <3>2. [pc |-> "data", words |-> w] \in [pc : {"data", "flush"}, words : Seq(STRING)]
      BY <1>7
    <3> DEFINE v == [u EXCEPT !.words = Tail(u.words)]
               k == [pc |-> "data", words |-> w]
    <3>3. unit' = [unit EXCEPT ![d] = v] /\ call' = [call EXCEPT ![c] = k]
      BY <2>2
    <3> HIDE DEF u, w, d, v, k
    <3>4. v \in Unit /\ k \in [pc : {"data", "flush"}, words : Seq(STRING)]
      BY <3>1, <3>2 DEF v, k
    <3>5. unit' \in [Drive -> Unit]
      BY <3>3, <3>4 DEF IInv, TypeOK
    <3>6. call' \in [Caller -> [pc : {"idle", "refused", "select", "address", "command", "poll"}]
                              \cup [pc : {"data", "flush"}, words : Seq(STRING)] \cup [pc : {"wait"}]]
      BY <3>3, <3>4 DEF IInv, TypeOK
    <3>7. QED
      BY <1>1, <2>2, <3>5, <3>6 DEF IInv, TypeOK
  <2>7. Tail(u.words) # <<>>
    <3>1. Len(Tail(u.words)) # 0
      <4> HIDE DEF u
      <4>1. QED
        BY <1>7, <1>10
    <3>2. QED
      BY <3>1, EmptySeq
  <2>8. CallAgrees(c)'
    <3>1. /\ UNCHANGED r /\ call'[c].pc = "data" /\ call'[c].words = w /\ (S!Waits(c))'
      BY <1>2, <2>2, <2>3 DEF S!Waits
    <3>2. stored'[d][r.lba] = held
      BY <1>1
    <3> HIDE DEF r, w
    <3>3. QED
      BY <1>1, <1>4, <1>7, <2>5, <2>7, <3>1, <3>2 DEF CallAgrees, Doing, r
  <2>9. \A e \in Drive : ~ Quiet(e)' => e = regs'.drive /\ InCommand(c)'
    BY <1>1, <1>4, <1>8, <2>3, <2>4 DEF Quiet, InCommand
  <2>10. QED
    BY <1>1, <1>2, <2>2, <2>6, <2>8, <2>9, CallStep
<1>11. QED
  BY <1>9, <1>10

(* The words sent so far and the next one.                                 *)
LEMMA SentWord ==
  ASSUME NEW T, NEW t \in Seq(T), NEW n \in 0 .. Len(t) - 1
  PROVE  /\ SubSeq(t, 1, n + 1) \in Seq(T) /\ Len(SubSeq(t, 1, n + 1)) = n + 1
         /\ Append(SubSeq(t, 1, n), SubSeq(t, 1, n + 1)[n + 1]) = SubSeq(t, 1, n + 1)
         /\ n + 1 = Len(t) => SubSeq(t, 1, n + 1) = t
<1> DEFINE a == SubSeq(t, 1, n)
           b == SubSeq(t, 1, n + 1)
<1>1. Len(t) \in Nat /\ \A i \in 1 .. Len(t) : t[i] \in T
  BY LenProperties, ElementOfSeq
<1>2. a \in Seq(T) /\ Len(a) = n /\ \A i \in 1 .. n : a[i] = t[i]
  <2>1. \A i \in 1 .. n : t[i] \in T
    BY <1>1
  <2>2. /\ a \in Seq(T) /\ Len(a) = IF 1 <= n THEN n - 1 + 1 ELSE 0
        /\ \A i \in 1 .. n - 1 + 1 : a[i] = t[1 + i - 1]
    BY <1>1, <2>1, SubSeqProperties
  <2> HIDE DEF a
  <2>3. Len(a) = n /\ n - 1 + 1 = n /\ \A i \in 1 .. n : 1 + i - 1 = i
    BY <1>1, <2>2
  <2>4. QED
    BY <2>2, <2>3
<1>3. b \in Seq(T) /\ Len(b) = n + 1 /\ \A i \in 1 .. n + 1 : b[i] = t[i]
  <2>1. \A i \in 1 .. n + 1 : t[i] \in T
    BY <1>1
  <2>2. /\ b \in Seq(T) /\ Len(b) = IF 1 <= n + 1 THEN n + 1 - 1 + 1 ELSE 0
        /\ \A i \in 1 .. n + 1 - 1 + 1 : b[i] = t[1 + i - 1]
    BY <1>1, <2>1, SubSeqProperties
  <2> HIDE DEF b
  <2>3. Len(b) = n + 1 /\ n + 1 - 1 + 1 = n + 1 /\ \A i \in 1 .. n + 1 : 1 + i - 1 = i
    BY <1>1, <2>2
  <2>4. QED
    BY <2>2, <2>3
<1> HIDE DEF a, b
<1>4. /\ b[n + 1] \in T /\ Append(a, b[n + 1]) \in Seq(T) /\ Len(Append(a, b[n + 1])) = n + 1
      /\ \A i \in 1 .. n : Append(a, b[n + 1])[i] = a[i]
      /\ Append(a, b[n + 1])[n + 1] = b[n + 1]
  <2>1. b[n + 1] \in T
    BY <1>1, <1>3
  <2>2. QED
    BY <1>2, <2>1, AppendProperties
<1>5. Append(a, b[n + 1]) = b
  <2>1. ASSUME NEW i \in 1 .. n + 1 PROVE Append(a, b[n + 1])[i] = b[i]
    BY <1>2, <1>3, <1>4
  <2>2. QED
    BY <1>3, <1>4, <2>1, SeqEqual
<1>6. ASSUME n + 1 = Len(t) PROVE b = t
  BY <1>6, SubSeqFull DEF b
<1>7. QED
  BY <1>3, <1>5, <1>6 DEF a, b

LEMMA WriteWordStep ==
  ASSUME IInv, CarefulUse, NEW c \in Caller, WriteWord(c)
  PROVE  IInv' /\ UNCHANGED <<stored, request>>
<1> DEFINE r == request[c]
           d == r.drive
           u == unit[d]
           n == Len(u.words)
           w == SubSeq(r.text, 1, n + 1)
<1>1. /\ call[c].pc = "data" /\ r.op = "write"
      /\ UNCHANGED <<regs, stored, detect, devices, request>>
  BY DEF WriteWord, At, IsWrite
<1>2. CallAgrees(c) /\ S!Waits(c) /\ (S!Waits(c))' /\ detect.drive \notin Drive
  BY <1>1, Calling DEF IInv, At, S!Waits
<1>3. /\ d \in Drive /\ r.lba \in Nat /\ r.text \in Seq(STRING) /\ Len(r.text) = Words
      /\ Words \in Nat
  BY <1>2, Asked, AtaAssumption
<1>4. /\ d = regs.drive /\ r.lba < Capacity[d] /\ u.st = "out" /\ u.cmd = "write"
      /\ u.lba = r.lba /\ n < Words /\ u.words = call[c].words
      /\ u.words = SubSeq(r.text, 1, n)
  BY <1>1, <1>2 DEF CallAgrees, Doing
<1>5. u \in [kind : {"disk"}, st : {"in", "out"}, err : {FALSE}, lba : Nat, words : Seq(STRING),
             cmd : {"identify", "read", "write"}]
  BY <1>3, <1>4 DEF IInv, TypeOK, Unit
<1>6. n \in 0 .. Len(r.text) - 1
  <2>1. n \in Nat
    BY <1>5, LenProperties
  <2>2. QED
    BY <2>1, <1>3, <1>4
<1>7. /\ w \in Seq(STRING) /\ Len(w) = n + 1 /\ Append(u.words, w[n + 1]) = w
      /\ n + 1 = Words => w = r.text
  <2> DEFINE t == r.text
  <2>1. t \in Seq(STRING) /\ n \in 0 .. Len(t) - 1 /\ u.words = SubSeq(t, 1, n) /\ Len(t) = Words
    BY <1>3, <1>4, <1>6
  <2> HIDE DEF t, n
  <2>2. /\ SubSeq(t, 1, n + 1) \in Seq(STRING) /\ Len(SubSeq(t, 1, n + 1)) = n + 1
        /\ Append(SubSeq(t, 1, n), SubSeq(t, 1, n + 1)[n + 1]) = SubSeq(t, 1, n + 1)
        /\ n + 1 = Len(t) => SubSeq(t, 1, n + 1) = t
    BY <2>1, SentWord
  <2>3. QED
    BY <2>1, <2>2 DEF t
<1> DEFINE v == IF n + 1 < Words THEN [u EXCEPT !.words = w]
                ELSE [u EXCEPT !.words = w, !.st = "busy", !.cmd = "store"]
           k == [pc |-> IF n + 1 = Words THEN "flush" ELSE "data", words |-> w]
<1>8. unit' = [unit EXCEPT ![d] = v] /\ call' = [call EXCEPT ![c] = k]
  <2>1. Len(call[c].words) + 1 = n + 1 /\ SubSeq(request[c].text, 1, Len(call[c].words) + 1) = w
    BY <1>4
  <2>2. unit[regs.drive] = u /\ u.st = "out" /\ regs.drive = d
    BY <1>4
  <2> DEFINE s == call[c].words
             sent == SubSeq(request[c].text, 1, Len(s) + 1)
             taken == Append(u.words, sent[Len(s) + 1])
  <2>3. sent = w /\ Len(s) + 1 = n + 1 /\ taken = w /\ Len(taken) = n + 1
    BY <1>7, <2>1
  <2>4. /\ call' = [call EXCEPT ![c] = [pc |-> IF Len(s) + 1 = Words THEN "flush" ELSE "data",
                                       words |-> sent]]
        /\ unit' = [unit EXCEPT ![d] =
                      IF Len(taken) < Words THEN [u EXCEPT !.words = taken]
                      ELSE [u EXCEPT !.words = taken, !.st = "busy", !.cmd = "store"]]
    BY <2>2, Zenon DEF WriteWord, Becomes, Go
  <2> HIDE DEF u, w, n, d, s, sent, taken
  <2>5. QED
    BY <2>3, <2>4
<1>9. v \in Unit /\ k \in [pc : {"data", "flush"}, words : Seq(STRING)]
  <2> HIDE DEF w, n, u
  <2>1. QED
    BY <1>5, <1>7 DEF Unit
<1>10. /\ v.lba = r.lba /\ v.words = w /\ v.kind = "disk"
       /\ n + 1 < Words => v.st = "out" /\ v.cmd = "write"
       /\ ~ n + 1 < Words => v.st = "busy" /\ v.cmd = "store"
  <2> HIDE DEF w, n
  <2>1. QED
    BY <1>4, <1>5
<1>11. /\ k.pc = (IF n + 1 = Words THEN "flush" ELSE "data") /\ k.words = w
       /\ ~ n + 1 < Words <=> n + 1 = Words
  BY <1>3, <1>6
<1>12. \A e \in Drive \ {d} : Quiet(e)
  BY <1>4 DEF IInv, QuietUnlessUsed
<1> HIDE DEF v, k
<1>13. /\ unit'[d] = v /\ call'[c] = k
       /\ \A e \in Drive \ {d} : unit'[e] = unit[e]
  BY <1>3, <1>8 DEF IInv, TypeOK
<1>14. TypeOK'
  <2> HIDE DEF d
  <2>1. unit' \in [Drive -> Unit]
    BY <1>8, <1>9 DEF IInv, TypeOK
  <2>2. call' \in [Caller -> [pc : {"idle", "refused", "select", "address", "command", "poll"}]
                            \cup [pc : {"data", "flush"}, words : Seq(STRING)] \cup [pc : {"wait"}]]
    BY <1>8, <1>9 DEF IInv, TypeOK
  <2>3. QED
    BY <1>1, <2>1, <2>2 DEF IInv, TypeOK
<1>15. CallAgrees(c)'
  <2>1. UNCHANGED <<r, d>>
    BY <1>1
  <2> HIDE DEF r, d, w, n
  <2>2. CASE n + 1 < Words
    <3>1. k.pc = "data" /\ v.st = "out" /\ v.cmd = "write"
      BY <1>10, <1>11, <2>2
    <3>2. Len(w) < Words /\ w = SubSeq(r.text, 1, Len(w))
      BY <1>7, <2>2 DEF w
    <3>3. QED
      BY <1>1, <1>2, <1>4, <1>10, <1>11, <1>13, <2>1, <3>1, <3>2 DEF CallAgrees, Doing, r, d
  <2>3. CASE ~ n + 1 < Words
    BY <1>1, <1>2, <1>4, <1>7, <1>10, <1>11, <1>13, <2>1, <2>3 DEF CallAgrees, Doing, r, d
  <2>4. QED
    BY <2>2, <2>3
<1>16. \A e \in Drive : ~ Quiet(e)' => e = regs'.drive /\ InCommand(c)'
  BY <1>1, <1>4, <1>11, <1>12, <1>13 DEF Quiet, InCommand
<1>17. QED
  BY <1>1, <1>2, <1>14, <1>15, <1>16, CallStep

LEMMA FlushStep ==
  ASSUME IInv, CarefulUse, NEW c \in Caller, Flush(c)
  PROVE  IInv' /\ UNCHANGED <<stored, request>>
<1> DEFINE r == request[c]
           d == r.drive
           u == unit[d]
           v == [kind |-> u.kind, st |-> "busy", err |-> FALSE,
                 cmd |-> "flush", lba |-> Addressed(regs), words |-> <<>>]
<1>1. /\ unit' = Commanded(regs, "flush")
      /\ call' = [call EXCEPT ![c] = [pc |-> "wait"]]
      /\ UNCHANGED <<regs, stored, detect, devices, request>>
      /\ call[c].pc = "flush"
  BY DEF Flush, Go, At
<1>2. CallAgrees(c) /\ S!Waits(c) /\ (S!Waits(c))' /\ detect.drive \notin Drive
  BY <1>1, Calling DEF IInv, At, S!Waits
<1>3. d \in Drive
  BY <1>2, Asked
<1>4. /\ regs.drive = d /\ r.lba < Capacity[d] /\ r.op = "write"
      /\ \/ u.st = "busy" /\ u.cmd = "store" /\ u.kind = "disk" /\ u.lba = r.lba /\ u.words = r.text
         \/ stored[d][r.lba] = r.text /\ (u.st = "ready" \/ (u.st = "busy" /\ u.cmd = "flush"))
  BY <1>1, <1>2 DEF CallAgrees, Doing, Quiet
<1>5. \A e \in Drive \ {d} : Quiet(e)
  BY <1>4 DEF IInv, QuietUnlessUsed
<1>6. Addressed(regs) \in Nat /\ u.kind \in Kind
  <2>1. regs \in [drive : Drive, top : Nat, low : Nat, mid : Nat, high : Nat]
    BY DEF IInv, TypeOK
  <2>2. Addressed(regs) \in Nat
    <3>1. Base \in Nat
      BY AtaAssumption
    <3>2. \A a, b \in Nat : a + Base * b \in Nat
      BY <3>1
    <3>3. /\ regs.top \in Nat /\ regs.low \in Nat /\ regs.mid \in Nat /\ regs.high \in Nat
      BY <2>1
    <3>4. regs.high + Base * regs.top \in Nat
      BY <3>2, <3>3
    <3>5. regs.mid + Base * (regs.high + Base * regs.top) \in Nat
      BY <3>2, <3>3, <3>4
    <3>6. QED
      BY <3>2, <3>3, <3>5 DEF Addressed
  <2>3. u.kind \in Kind
    BY <1>3, UnitFields DEF IInv
  <2>4. QED
    BY <2>2, <2>3
<1>7. \/ unit' = unit
      \/ /\ u.kind \notin {"absent", "floating"} /\ u.st = "ready"
         /\ unit' = [unit EXCEPT ![d] = v]
  BY <1>1, <1>4 DEF Commanded
<1>8. u.kind \notin {"absent", "floating"} => v \in Unit
  BY <1>6 DEF Unit, Kind
<1>9. v.st = "busy" /\ v.cmd = "flush"
  OBVIOUS
<1>10. call'[c] = [pc |-> "wait"]
  BY <1>1 DEF IInv, TypeOK
<1> HIDE DEF v
<1>11. TypeOK'
  <2>1. unit' \in [Drive -> Unit]
    BY <1>7, <1>8 DEF IInv, TypeOK
  <2>2. QED
    BY <1>1, <2>1 DEF IInv, TypeOK
<1>12. /\ \A e \in Drive \ {d} : unit'[e] = unit[e]
       /\ unit'[d] = u \/ (u.st = "ready" /\ unit'[d] = v)
  BY <1>3, <1>7 DEF IInv, TypeOK
<1>13. CallAgrees(c)'
  <2>1. UNCHANGED <<r, d>> /\ call'[c].pc = "wait"
    BY <1>1, <1>10
  <2> HIDE DEF r, d
  <2>2. CASE unit'[d] = u
    BY <1>1, <1>2, <1>4, <2>1, <2>2 DEF CallAgrees, Doing, Quiet, r, d
  <2>3. CASE u.st = "ready" /\ unit'[d] = v
    BY <1>1, <1>2, <1>4, <1>9, <2>1, <2>3 DEF CallAgrees, Doing, Quiet, r, d
  <2>4. QED
    BY <1>12, <2>2, <2>3
<1>14. \A e \in Drive : ~ Quiet(e)' => e = regs'.drive /\ InCommand(c)'
  BY <1>1, <1>4, <1>5, <1>10, <1>12 DEF Quiet, InCommand
<1>15. QED
  BY <1>1, <1>2, <1>11, <1>13, <1>14, CallStep

LEMMA WaitReadyStep ==
  ASSUME IInv, CarefulUse, NEW c \in Caller, WaitReady(c)
  PROVE  IInv' /\ [S!Next]_<<stored, request>>
<1> DEFINE r == request[c]
           d == r.drive
           u == unit[d]
<1>1. /\ call[c].pc = "wait" /\ "BSY" \notin Status(regs.drive)
      /\ UNCHANGED <<regs, unit, stored, detect, devices>>
  BY DEF WaitReady, At, Idling
<1>2. CallAgrees(c) /\ S!Waits(c) /\ detect.drive \notin Drive /\ ~ At(c, "idle")
  BY <1>1, Calling DEF IInv, At
<1>3. d \in Drive
  BY <1>2, Asked
<1>4. d = regs.drive /\ r.lba < Capacity[d] /\ r.op = "write" /\ u.st # "busy"
  BY <1>1, <1>2, <1>3, StatusFacts DEF CallAgrees, IInv
<1>5. u.st = "ready" /\ stored[d][r.lba] = r.text
  BY <1>1, <1>2, <1>4 DEF CallAgrees, Doing, Quiet
<1>6. \A e \in Drive : Quiet(e)
  BY <1>4, <1>5 DEF IInv, QuietUnlessUsed, Quiet
<1>7. CASE Return(c, Failed)
  BY <1>1, <1>2, <1>6, <1>7, FailStep
<1>8. CASE Return(c, [text |-> r.text])
  <2>1. /\ unit' = [e \in Drive |-> unit'[e]]
        /\ \A e \in Drive : unit'[e] \in [kind : Kind, st : {"ready"}, err : BOOLEAN]
    BY <1>1, <1>6, QuietUnits DEF IInv, TypeOK
  <2>2. IInv'
    BY <1>1, <1>2, <1>8, <2>1, ReturnStep
  <2>3. S!Answer(c)
    BY <1>1, <1>2, <1>4, <1>5, <1>8 DEF S!Answer, S!InRange, S!Holds, Return
  <2>4. QED
    BY <2>2, <2>3 DEF S!Next
<1>9. QED
  BY <1>7, <1>8 DEF WaitReady

-----------------------------------------------------------------------------

(* Every step keeps the invariant, and is a step of Sectors or none.       *)
LEMMA NextHolds ==
  ASSUME IInv, CarefulUse, [Next]_vars
  PROVE  IInv' /\ [S!Next]_<<stored, request>>
<1>1. ASSUME NEW d \in Drive, Refuse(d) \/ Sign(d) \/ Work(d)
      PROVE  IInv' /\ [S!Next]_<<stored, request>>
  BY <1>1, RefuseStep, SignStep, WorkStep
<1>2. CASE Detection
  BY <1>2, IdentifyStep, IdentifyWaitStep, IdentifyDataStep DEF Detection
<1>3. ASSUME NEW c \in Caller, GoOn(c)
      PROVE  IInv' /\ [S!Next]_<<stored, request>>
  BY <1>3, RefusedStep, SelectStep, AddressStep, CommandStep, PollStep, ReadWordStep,
     WriteWordStep, FlushStep, WaitReadyStep DEF GoOn
<1>4. CASE UNCHANGED vars
  <2>1. TypeOK'
    BY <1>4 DEF vars, IInv, TypeOK
  <2>2. QuietUnlessUsed'
    BY <1>4 DEF vars, IInv, QuietUnlessUsed, Quiet, InCommand
  <2>3. Detects'
    BY <1>4 DEF vars, IInv, Detects, At, Signature, Quiet, Doing
  <2>4. ASSUME NEW c \in Caller PROVE CallAgrees(c)'
    <3>1. CallAgrees(c) /\ Digits(request[c].lba)' = Digits(request[c].lba)
      BY <1>4 DEF vars, IInv, Digits
    <3>2. QED
      BY <1>4, <3>1 DEF vars, CallAgrees, Quiet, Doing, Addressed, S!Waits
  <2>5. IInv'
    BY <2>1, <2>2, <2>3, <2>4 DEF IInv
  <2>6. QED
    BY <1>4, <2>5 DEF vars
<1>5. QED
  BY <1>1, <1>2, <1>3, <1>4, StartStep DEF Next, Device

(* With one caller at a time and drives that report a failed write before  *)
(* they take the words, a call of the driver reads or writes exactly the   *)
(* sector that it was asked for, as a whole, or fails: for any sectors,    *)
(* addresses and registers.                                                *)
THEOREM DriverImplementsSectors ==
  ASSUME CarefulUse
  PROVE  Spec => ImplementsSectors
<1>1. Init => IInv /\ S!Init
  BY InitHolds
<1>2. IInv /\ [Next]_vars => IInv' /\ [S!Next]_<<stored, request>>
  BY NextHolds
<1>3. QED
  BY <1>1, <1>2, PTL DEF Spec, ImplementsSectors, S!Spec
=============================================================================
