------------------------------- MODULE Console -------------------------------
(***************************************************************************)
(* Console input: the keyboard interrupt with its shift state              *)
(* (kernel/arch/x86/irq.c), the ring buffer of keys                        *)
(* (kernel/drivers/keyboard.c) and the line editor of kernel_main          *)
(* (kernel/kernel.c), which empties it and draws the line on the screen.   *)
(* The interrupt runs masked and keyboard_getchar masks itself, so each is *)
(* one step; the keyboard interrupts the editor between any two keys.      *)
(***************************************************************************)
EXTENDS Screen

CONSTANTS
  Key,        \* scancodes of keys other than the shift keys
  Plain,      \* scancode_table: the character of a key, or NoChar
  Shifted,    \* scancode_table_shift
  Backspace,
  NoChar,     \* the 0 of both tables
  Size,       \* KEYBOARD_BUFFER_SIZE
  LineMax,    \* the characters a line holds, one less than its buffer
  Prompt,     \* what terminal_prompt writes
  Replies     \* what a command can write: sequences of characters and newlines

Char == ({Plain[k] : k \in Key} \cup {Shifted[k] : k \in Key}) \ {NoChar}

ASSUME ConsoleAssumption ==
  /\ Size \in Nat /\ Size > 1
  /\ LineMax \in Nat
  /\ Backspace # NewLine
  /\ NoChar \notin {Backspace, NewLine, Blank}

(* The prompt and a full line leave a row of the screen free.              *)
ASSUME ScreenHoldsLine == LineMax + Len(Prompt) <= Width * (Height - 1)

(* The prompt and the replies are texts, and the prompt is on one line.    *)
Glyph == UNION {ToSet(text) : text \in Replies \cup {Prompt}}

ASSUME TextAssumption ==
  /\ Replies \cup {Prompt} \subseteq Seq(Glyph)
  /\ NewLine \notin ToSet(Prompt)

VARIABLES
  shift_pressed,
  keyboard_buffer, buffer_head, buffer_tail,
  input,     \* input[0 .. index) of kernel_main
  screen

ring == <<keyboard_buffer, buffer_head, buffer_tail>>
vars == <<shift_pressed, ring, input, screen>>

Init ==
  /\ shift_pressed = FALSE
  /\ keyboard_buffer = [i \in 0 .. Size - 1 |-> NoChar]
  /\ buffer_head = 0 /\ buffer_tail = 0
  /\ input = <<>>
  /\ screen = Written(Cleared, Prompt)

-----------------------------------------------------------------------------
(* The keyboard interrupt.                                                 *)

(* Mutants: the head advances before the key is stored; the buffer counts  *)
(* as full one key early; it is never full.                                *)
PutBehind(c) ==
  LET next == (buffer_head + 1) % Size IN
  IF next = buffer_tail
    THEN UNCHANGED ring
    ELSE /\ keyboard_buffer' = [keyboard_buffer EXCEPT ![next] = c]
         /\ buffer_head' = next
         /\ UNCHANGED buffer_tail

PutUnlessNearlyFull(c) ==
  LET next == (buffer_head + 1) % Size IN
  IF next = buffer_tail \/ (next + 1) % Size = buffer_tail
    THEN UNCHANGED ring
    ELSE /\ keyboard_buffer' = [keyboard_buffer EXCEPT ![buffer_head] = c]
         /\ buffer_head' = next
         /\ UNCHANGED buffer_tail

PutAlways(c) ==
  /\ keyboard_buffer' = [keyboard_buffer EXCEPT ![buffer_head] = c]
  /\ buffer_head' = (buffer_head + 1) % Size
  /\ UNCHANGED buffer_tail

keyboard_buffer_put(c) ==
  LET next == (buffer_head + 1) % Size IN
  IF next = buffer_tail
    THEN UNCHANGED ring
    ELSE /\ keyboard_buffer' = [keyboard_buffer EXCEPT ![buffer_head] = c]
         /\ buffer_head' = next
         /\ UNCHANGED buffer_tail

CharOf(k) == IF shift_pressed THEN Shifted[k] ELSE Plain[k]

PressShift(pressed) ==
  /\ shift_pressed' = pressed
  /\ UNCHANGED <<ring, input, screen>>

Press(k) ==
  /\ IF CharOf(k) = NoChar THEN UNCHANGED ring ELSE keyboard_buffer_put(CharOf(k))
  /\ UNCHANGED <<shift_pressed, input, screen>>

-----------------------------------------------------------------------------
(* kernel_main's loop around keyboard_getchar.                             *)

(* keyboard_getchar when a key waits.  It returns 0 otherwise and the loop *)
(* asks again.                                                             *)
keyboard_getchar(c) ==
  /\ buffer_head # buffer_tail
  /\ c = keyboard_buffer[buffer_tail]
  /\ buffer_tail' = (buffer_tail + 1) % Size
  /\ UNCHANGED <<keyboard_buffer, buffer_head, shift_pressed>>

Erase ==
  /\ keyboard_getchar(Backspace)
  /\ IF Len(input) > 0
       THEN input' = Front(input) /\ screen' = Backspaced(screen)
       ELSE UNCHANGED <<input, screen>>

(* shell_execute moves to a new row; the command writes its reply, or      *)
(* clears the screen.                                                      *)
Shell(s) ==
  {Written(Putc(s, NewLine), reply) : reply \in Replies} \cup {Cleared}

Execute ==
  /\ keyboard_getchar(NewLine)
  /\ input' = <<>>
  /\ \E s \in Shell(screen) : screen' = Written(s, Prompt)

Type ==
  /\ \E c \in Char \ {Backspace, NewLine} :
       /\ keyboard_getchar(c)
       /\ IF Len(input) < LineMax
            THEN input' = Append(input, c) /\ screen' = Putc(screen, c)
            ELSE UNCHANGED <<input, screen>>

ReadKey == Erase \/ Execute \/ Type

-----------------------------------------------------------------------------

Next ==
  \/ ReadKey
  \/ \E pressed \in BOOLEAN : PressShift(pressed)
  \/ \E k \in Key : Press(k)

Spec == Init /\ [][Next]_vars

(* kernel_main calls keyboard_getchar in an endless loop, and a command    *)
(* returns to it.                                                          *)
FairSpec == Spec /\ WF_ring(\E c \in Char : keyboard_getchar(c))

-----------------------------------------------------------------------------

(* What the screen shows of the row and line the cursor is in: the n cells *)
(* before the cursor.                                                      *)
BeforeCursor(n) == SubSeq(screen.cell, Place(screen) - n, Place(screen) - 1)

(* The user sees the line that the next newline executes: the prompt and   *)
(* the typed characters end at the cursor, across a row's end, a scroll,   *)
(* or an erased character, and nothing is left over behind the cursor.     *)
ScreenShowsLine ==
  /\ Place(screen) > Len(Prompt) + Len(input)
  /\ BeforeCursor(Len(Prompt) + Len(input)) = Prompt \o input
  /\ \A i \in Cells : i >= Place(screen) => screen.cell[i] = Blank

(* The keys in the buffer, oldest first.                                   *)
Waiting ==
  [i \in 1 .. (buffer_head - buffer_tail) % Size |->
     keyboard_buffer[(buffer_tail + i - 1) % Size]]

Buffer == INSTANCE BoundedFifo WITH Capacity <- Size - 1, queue <- Waiting

(* The ring buffer delivers keys in the order they were pressed and never  *)
(* overwrites one that was not read, wherever head and tail wrap.          *)
BufferIsFifo == Buffer!Spec

(* A key with a character is lost only when Size - 1 keys wait: otherwise  *)
(* the interrupt puts it behind those that wait.                           *)
KeyIsKept ==
  \A k \in Key :
    CharOf(k) # NoChar /\ Len(Waiting) < Size - 1
      => ENABLED (Press(k) /\ Waiting' = Append(Waiting, CharOf(k)))

IsWaiting(i) == (i - buffer_tail) % Size < (buffer_head - buffer_tail) % Size

(* Every key that waits in the buffer is read, however fast keys come.     *)
KeysAreRead ==
  \A i \in 0 .. Size - 1 : IsWaiting(i) ~> buffer_tail = (i + 1) % Size
=============================================================================
