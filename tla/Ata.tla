--------------------------------- MODULE Ata ---------------------------------
(***************************************************************************)
(* The disk driver (kernel/drivers/ata.c, disk.c) and a channel with two   *)
(* drives.  The driver writes the address digit by digit to the channel's  *)
(* registers, then a command, waits while the drive is busy, and moves the *)
(* words of the sector.  The drives take steps of their own: they are busy *)
(* as long as they like and may fail a command.  A drive ignores a command *)
(* that comes while it is busy or moves data.                              *)
(***************************************************************************)
EXTENDS Integers, Sequences

CONSTANTS
  Caller,
  Text,       \* contents of a sector: sequences of words
  Words,      \* words of a sector: 256
  Base,       \* values of a register of the address: 256
  Sides,      \* what the other four bits of the last digit hold: 16
  Lba,        \* the sectors that are asked for
  Capacity,   \* of each drive, 0 if it is no disk
  Kinds,      \* what the drives may be
  Blank, Junk,
  Nothing, Failed,
  LateErrors  \* may a drive fail a write when it has taken the words?

Drive == {0, 1}
Kind == {"disk", "absent", "atapi", "floating"}

ASSUME AtaAssumption ==
  /\ Words \in Nat \ {0} /\ Base \in Nat \ {0} /\ Sides \in Nat \ {0}
  /\ Text \cup {Blank} \subseteq [1 .. Words -> STRING] /\ Lba \subseteq Nat
  /\ {Nothing, Failed} \cap [op : {"read", "write"}, drive : Drive, lba : Lba, text : Text] = {}
  /\ \A d \in Drive : Capacity[d] \in 0 .. Base * Base * Base * Sides
  /\ Kinds \subseteq [Drive -> Kind]
  /\ LateErrors \in BOOLEAN

VARIABLES
  regs,      \* the drive selected and the digits of the address
  unit,      \* what each drive does
  stored,    \* the sectors of each drive
  detect,    \* ata_detect_devices: the drive it is at, and where
  devices,   \* ata_devices: present and sector_count
  call,      \* what each caller is doing
  request    \* the arguments of its call, then the result

vars == <<regs, unit, stored, detect, devices, call, request>>

-----------------------------------------------------------------------------
(* The drives.                                                             *)

Ready(kind, err) == [kind |-> kind, st |-> "ready", err |-> err]

Status(d) ==
  CASE unit[d].kind = "absent" -> {}
    [] unit[d].kind = "floating" -> {"BSY", "ERR", "DRQ", "DRDY"}
    [] OTHER -> {"DRDY"} \cup (IF unit[d].st = "busy" THEN {"BSY"} ELSE {})
                  \cup (IF unit[d].st \in {"in", "out"} THEN {"DRQ"} ELSE {})
                  \cup (IF unit[d].err THEN {"ERR"} ELSE {})

(* The sector that the registers name.                                     *)
Addressed(r) == r.low + Base * (r.mid + Base * (r.high + Base * r.top))

(* The selected drive gets a command.                                      *)
Commanded(r, cmd) ==
  LET u == unit[r.drive] IN
  IF u.kind \in {"absent", "floating"} \/ u.st # "ready" THEN unit
  ELSE [unit EXCEPT ![r.drive] =
         [kind |-> u.kind, st |-> "busy", err |-> FALSE, cmd |-> cmd,
          lba |-> Addressed(r), words |-> <<>>]]

Becomes(d, u) == unit' = [unit EXCEPT ![d] = u]

(* A command fails.                                                        *)
Refuse(d) ==
  /\ unit[d].st = "busy"
  /\ unit[d].cmd = "store" => LateErrors
  /\ Becomes(d, Ready(unit[d].kind, TRUE))
  /\ UNCHANGED <<regs, stored, detect, devices, call, request>>

(* A packet drive refuses to be identified, and leaves its mark.           *)
Sign(d) ==
  /\ unit[d].st = "busy" /\ unit[d].kind = "atapi"
  /\ Becomes(d, Ready("atapi", TRUE))
  /\ regs' = [regs EXCEPT !.mid = Base - 1]
  /\ UNCHANGED <<stored, detect, devices, call, request>>

(* A disk gets ready to move words, stores the words it has taken, or has  *)
(* nothing left to do.                                                     *)
Work(d) ==
  LET u == unit[d] IN
  /\ u.st = "busy" /\ u.kind = "disk"
  /\ \/ /\ u.cmd = "identify"
        /\ Becomes(d, [u EXCEPT !.st = "in"]) /\ UNCHANGED stored
     \/ /\ u.cmd = "read" /\ u.lba < Capacity[d]
        /\ Becomes(d, [u EXCEPT !.st = "in", !.words = stored[d][u.lba]]) /\ UNCHANGED stored
     \/ /\ u.cmd = "write" /\ u.lba < Capacity[d]
        /\ Becomes(d, [u EXCEPT !.st = "out"]) /\ UNCHANGED stored
     \/ /\ u.cmd = "store"
        /\ stored' = [stored EXCEPT ![d][u.lba] = u.words] /\ Becomes(d, Ready("disk", FALSE))
     \/ u.cmd = "flush" /\ Becomes(d, Ready("disk", FALSE)) /\ UNCHANGED stored
  /\ UNCHANGED <<regs, detect, devices, call, request>>

-----------------------------------------------------------------------------
(* Detection, at boot.                                                     *)

Init ==
  /\ regs = [drive |-> 0, top |-> 0, low |-> 0, mid |-> 0, high |-> 0]
  /\ \E kinds \in Kinds : unit = [d \in Drive |-> Ready(kinds[d], FALSE)]
  /\ stored = [d \in Drive |-> [s \in 0 .. Capacity[d] - 1 |-> Blank]]
  /\ detect = [drive |-> 0, pc |-> "select"]
  /\ devices = [d \in Drive |-> [present |-> FALSE, sector_count |-> 0]]
  /\ call = [c \in Caller |-> [pc |-> "idle"]]
  /\ request = [c \in Caller |-> Nothing]

Detecting(pc) == detect.drive \in Drive /\ detect.pc = pc

NextDrive == detect' = [drive |-> detect.drive + 1, pc |-> "select"]

(* Select the drive, clear the address, command: lines 66 to 74.           *)
Identify ==
  /\ Detecting("select")
  /\ regs' = [drive |-> detect.drive, top |-> 0, low |-> 0, mid |-> 0, high |-> 0]
  /\ unit' = Commanded(regs', "identify")
  /\ detect' = [detect EXCEPT !.pc = "busy"]
  /\ UNCHANGED <<stored, devices, call, request>>

Answers == Status(detect.drive) # {}

Signature == regs.mid # 0 \/ regs.high # 0

Absent ==
  /\ NextDrive
  /\ devices' = [devices EXCEPT ![detect.drive].present = FALSE]

IdentifyWait ==
  /\ Detecting("busy")
  /\ IF ~ Answers THEN Absent
     ELSE /\ "BSY" \notin Status(detect.drive)
          /\ IF Signature THEN Absent
             ELSE detect' = [detect EXCEPT !.pc = "data"] /\ UNCHANGED devices
  /\ UNCHANGED <<regs, unit, stored, call, request>>

IdentifyData ==
  /\ Detecting("data")
  /\ \/ "ERR" \in Status(detect.drive) /\ Absent /\ UNCHANGED unit
     \/ /\ "ERR" \notin Status(detect.drive) /\ "DRQ" \in Status(detect.drive)
        /\ devices' = [devices EXCEPT ![detect.drive] =
                         [present |-> TRUE, sector_count |-> Capacity[detect.drive]]]
        /\ Becomes(detect.drive, Ready("disk", FALSE))
        /\ NextDrive
  /\ UNCHANGED <<regs, stored, call, request>>

-----------------------------------------------------------------------------
(* Reading and writing a sector.                                           *)

At(c, pc) == call[c].pc = pc
Go(c, value) == call' = [call EXCEPT ![c] = value]

Return(c, answer) ==
  /\ Go(c, [pc |-> "idle"])
  /\ request' = [request EXCEPT ![c] = answer]

IsWrite(c) == request[c].op = "write"

Present(d, lba) == devices[d].present /\ lba < devices[d].sector_count

Start(c, op, d, lba, text) ==
  /\ detect.drive \notin Drive /\ At(c, "idle")
  /\ request' = [request EXCEPT ![c] = [op |-> op, drive |-> d, lba |-> lba, text |-> text]]
  /\ Go(c, [pc |-> IF Present(d, lba) THEN "select" ELSE "refused"])
  /\ UNCHANGED <<regs, unit, stored, detect, devices>>

Refused(c) ==
  /\ At(c, "refused") /\ Return(c, Failed)
  /\ UNCHANGED <<regs, unit, stored, detect, devices>>

(* Mutant: the third digit is the second again.                            *)
DigitsTwice(lba) ==
  [low |-> lba % Base, mid |-> (lba \div Base) % Base, high |-> (lba \div Base) % Base,
   top |-> (lba \div (Base * Base * Base)) % Sides]

Digits(lba) ==
  [low |-> lba % Base, mid |-> (lba \div Base) % Base, high |-> (lba \div (Base * Base)) % Base,
   top |-> (lba \div (Base * Base * Base)) % Sides]

Select(c) ==
  /\ At(c, "select")
  /\ regs' = [regs EXCEPT !.drive = request[c].drive,
                          !.top = Digits(request[c].lba).top]
  /\ Go(c, [pc |-> "address"])
  /\ UNCHANGED <<unit, stored, detect, devices, request>>

Address(c) ==
  /\ At(c, "address")
  /\ LET digits == Digits(request[c].lba) IN
       regs' = [regs EXCEPT !.low = digits.low, !.mid = digits.mid, !.high = digits.high]
  /\ Go(c, [pc |-> "command"])
  /\ UNCHANGED <<unit, stored, detect, devices, request>>

Command(c) ==
  /\ At(c, "command")
  /\ unit' = Commanded(regs, request[c].op)
  /\ Go(c, [pc |-> "poll"])
  /\ UNCHANGED <<regs, stored, detect, devices, request>>

(* Mutant: a command that failed is tried again.                           *)
PollRetries(c) ==
  LET status == Status(regs.drive) IN
  /\ At(c, "poll") /\ "BSY" \notin status
  /\ Go(c, IF "ERR" \in status \/ "DRQ" \notin status
             THEN [pc |-> "command"] ELSE [pc |-> "data", words |-> <<>>])
  /\ UNCHANGED <<regs, unit, stored, detect, devices, request>>

(* ata_poll.  The loop goes on while the drive is busy.                    *)
Poll(c) ==
  LET status == Status(regs.drive) IN
  /\ At(c, "poll") /\ "BSY" \notin status
  /\ IF "ERR" \in status \/ "DRQ" \notin status
       THEN Return(c, Failed)
       ELSE Go(c, [pc |-> "data", words |-> <<>>]) /\ UNCHANGED request
  /\ UNCHANGED <<regs, unit, stored, detect, devices>>

(* A word from the drive, or none when it has none to give.                *)
ReadWord(c) ==
  LET u == unit[regs.drive]
      has == u.st = "in" /\ u.words # <<>>
      words == Append(call[c].words, IF has THEN Head(u.words) ELSE Junk) IN
  /\ At(c, "data") /\ ~ IsWrite(c)
  /\ IF ~ has THEN UNCHANGED unit
     ELSE Becomes(regs.drive, IF Len(u.words) = 1 THEN Ready("disk", FALSE)
                              ELSE [u EXCEPT !.words = Tail(@)])
  /\ IF Len(words) = Words THEN Return(c, [text |-> words])
                           ELSE Go(c, [pc |-> "data", words |-> words]) /\ UNCHANGED request
  /\ UNCHANGED <<regs, stored, detect, devices>>

WriteWord(c) ==
  LET u == unit[regs.drive]
      sent == Len(call[c].words) + 1
      words == SubSeq(request[c].text, 1, sent) IN
  /\ At(c, "data") /\ IsWrite(c)
  /\ IF u.st # "out" THEN UNCHANGED unit
     ELSE LET taken == Append(u.words, words[sent]) IN
          Becomes(regs.drive, IF Len(taken) < Words THEN [u EXCEPT !.words = taken]
                              ELSE [u EXCEPT !.words = taken, !.st = "busy", !.cmd = "store"])
  /\ Go(c, [pc |-> IF sent = Words THEN "flush" ELSE "data", words |-> words])
  /\ UNCHANGED <<regs, stored, detect, devices, request>>

(* The command comes whether the drive is still busy with the words or not. *)
Flush(c) ==
  /\ At(c, "flush")
  /\ unit' = Commanded(regs, "flush")
  /\ Go(c, [pc |-> "wait"])
  /\ UNCHANGED <<regs, stored, detect, devices, request>>

Idling(status) == "BSY" \notin status

(* ata_wait_ready.                                                         *)
WaitReady(c) ==
  LET status == Status(regs.drive) IN
  /\ At(c, "wait") /\ Idling(status)
  /\ Return(c, IF "ERR" \in status THEN Failed ELSE [text |-> request[c].text])
  /\ UNCHANGED <<regs, unit, stored, detect, devices>>

-----------------------------------------------------------------------------

Device == \E d \in Drive : Refuse(d) \/ Sign(d) \/ Work(d)

Detection == Identify \/ IdentifyWait \/ IdentifyData

GoOn(c) ==
  \/ Refused(c) \/ Select(c) \/ Address(c) \/ Command(c) \/ Poll(c)
  \/ ReadWord(c) \/ WriteWord(c) \/ Flush(c) \/ WaitReady(c)

Next ==
  \/ Device \/ Detection
  \/ \E c \in Caller :
       \/ \E op \in {"read", "write"}, d \in Drive, lba \in Lba, text \in Text :
            Start(c, op, d, lba, text)
       \/ GoOn(c)

Spec == Init /\ [][Next]_vars

(* The CPU goes on with a call, and a busy drive ends what it is doing.    *)
FairSpec ==
  /\ Spec /\ WF_vars(Detection) /\ \A c \in Caller : WF_vars(GoOn(c))
  /\ \A d \in Drive : WF_vars(Refuse(d) \/ Sign(d) \/ Work(d))

-----------------------------------------------------------------------------

(* A call reads or writes exactly the sector it was asked for, as a whole, *)
(* or says that it failed: busy drives, drives that fail, a flush that the *)
(* drive ignores and a second drive on the channel make no difference.     *)
S == INSTANCE Sectors

ImplementsSectors == S!Spec

(* Detection ends with disks, packet drives and empty places on the        *)
(* channel, and so does every call, however often a drive fails; the       *)
(* driver's loops have no time limit.                                      *)
CallReturns ==
  /\ <>(detect.drive \notin Drive)
  /\ \A c \in Caller : ~ At(c, "idle") ~> At(c, "idle")

-----------------------------------------------------------------------------
(* Why: where the code is right, and what is then true of the channel.     *)

CarefulUse == ~ LateErrors /\ \A c, d \in Caller : c = d

Quiet(d) == unit[d].st = "ready"
Doing(d, st, cmd) == unit[d].st = st /\ unit[d].cmd = cmd

InCommand(c) == call[c].pc \in {"poll", "data", "flush", "wait"}

Unit ==
  [kind : Kind, st : {"ready"}, err : BOOLEAN]
    \cup [kind : {"disk", "atapi"}, st : {"busy"}, err : {FALSE}, lba : Nat, words : Seq(STRING),
          cmd : {"identify", "read", "write", "store", "flush"}]
    \cup [kind : {"disk"}, st : {"in", "out"}, err : {FALSE}, lba : Nat, words : Seq(STRING),
          cmd : {"identify", "read", "write"}]

TypeOK ==
  /\ regs \in [drive : Drive, top : Nat, low : Nat, mid : Nat, high : Nat]
  /\ unit \in [Drive -> Unit]
  /\ stored = [d \in Drive |-> stored[d]]
  /\ \A d \in Drive : stored[d] \in [0 .. Capacity[d] - 1 -> [1 .. Words -> STRING]]
  /\ detect \in [drive : 0 .. 2, pc : {"select", "busy", "data"}]
  /\ devices \in [Drive -> [present : BOOLEAN, sector_count : Nat]]
  /\ call \in [Caller -> [pc : {"idle", "refused", "select", "address", "command", "poll"}]
                            \cup [pc : {"data", "flush"}, words : Seq(STRING)] \cup [pc : {"wait"}]]
  /\ request = [c \in Caller |-> request[c]]

(* Only the selected drive moves data, for a command in progress.          *)
QuietUnlessUsed ==
  \A d \in Drive : ~ Quiet(d) =>
    /\ d = regs.drive
    /\ detect.pc # "select" \/ \E c \in Caller : InCommand(c)

(* Detection is over before the first call, has one drive at a time, and   *)
(* finds the size of a disk.                                               *)
Detects ==
  /\ detect.drive \in Drive => \A c \in Caller : At(c, "idle")
  /\ detect.pc # "select" =>
       /\ detect.drive = regs.drive
       /\ Signature => unit[regs.drive].kind = "atapi"
       /\ \/ Quiet(regs.drive)
          \/ detect.pc = "busy" /\ Doing(regs.drive, "busy", "identify")
          \/ Doing(regs.drive, "in", "identify")
  /\ \A d \in Drive : devices[d].present => devices[d].sector_count = Capacity[d]

(* What a call has achieved so far, drive and registers included.          *)
CallAgrees(c) ==
  LET r == request[c]
      d == r.drive
      u == unit[d]
      pc == call[c].pc
      held == stored[d][r.lba] IN
  /\ pc = "idle" <=> ~ S!Waits(c)
  /\ pc \notin {"idle", "refused"} => r.lba < Capacity[d]
  /\ pc \notin {"idle", "refused", "select"} => regs.drive = d
  /\ pc = "address" => regs.top = Digits(r.lba).top
  /\ pc = "command" => Addressed(regs) = r.lba
  /\ pc = "poll" /\ ~ Quiet(d) =>
       /\ u.lba = r.lba
       /\ \/ Doing(d, "busy", r.op) /\ u.words = <<>>
          \/ Doing(d, "in", "read") /\ r.op = "read" /\ u.words = held
          \/ Doing(d, "out", "write") /\ r.op = "write" /\ u.words = <<>>
  /\ pc = "data" =>
       \/ /\ Doing(d, "in", "read") /\ r.op = "read"
          /\ u.words # <<>> /\ call[c].words \o u.words = held
       \/ /\ Doing(d, "out", "write") /\ r.op = "write" /\ u.lba = r.lba
          /\ Len(u.words) < Words /\ u.words = call[c].words
          /\ u.words = SubSeq(r.text, 1, Len(u.words))
  /\ pc \in {"flush", "wait"} =>
       /\ r.op = "write"
       /\ \/ Doing(d, "busy", "store") /\ u.kind = "disk" /\ u.lba = r.lba /\ u.words = r.text
          \/ held = r.text /\ (Quiet(d) \/ Doing(d, "busy", "flush"))

IInv == TypeOK /\ QuietUnlessUsed /\ Detects /\ \A c \in Caller : CallAgrees(c)
=============================================================================
