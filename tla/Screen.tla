------------------------------- MODULE Screen -------------------------------
(***************************************************************************)
(* The text screen of kernel/drivers/vga.c as operators on a record of the *)
(* video memory and the cursor.  One caller at a time writes to it: the    *)
(* writers of the shipped kernel all run on kernel_main's thread.          *)
(***************************************************************************)
EXTENDS Integers, Sequences, SequencesExt

CONSTANTS Width, Height, Blank, NewLine

ASSUME ScreenAssumption ==
  /\ Width \in Nat \ {0}
  /\ Height \in Nat \ {0, 1}
  /\ Blank # NewLine

Cells == 1 .. Width * Height

(* The cell of the cursor in video memory, whose cells count from 1 here.  *)
Place(s) == s.row * Width + s.col + 1

Blanks(n) == [i \in 1 .. n |-> Blank]

(* A cleared screen: what vga_clear leaves.                                *)
Cleared == [cell |-> Blanks(Width * Height), row |-> 0, col |-> 0]

(* vga_scroll: when the cursor left the last row, every row moves up one.  *)
Scrolled(s) ==
  IF s.row < Height THEN s
  ELSE [s EXCEPT !.cell = SubSeq(@, Width + 1, Width * Height) \o Blanks(Width),
                 !.row = Height - 1]

(* vga_putc.  Its bounds checks come first, as in the code.                *)
Clamped(s) ==
  LET r == IF s.row >= Height THEN Height - 1 ELSE s.row
  IN  IF s.col >= Width THEN [s EXCEPT !.row = r + 1, !.col = 0]
                        ELSE [s EXCEPT !.row = r]

Advanced(s) ==
  IF s.col + 1 >= Width THEN Scrolled([s EXCEPT !.col = 0, !.row = @ + 1])
                        ELSE [s EXCEPT !.col = @ + 1]

Putc(s, c) ==
  IF c = NewLine THEN Scrolled([s EXCEPT !.col = 0, !.row = @ + 1])
  ELSE LET t == Clamped(s) IN Advanced([t EXCEPT !.cell[Place(t)] = c])

(* Mutant: from the first column, the cursor goes to the row above, not to *)
(* its end.                                                                *)
BackToStart(s) ==
  IF s.col # 0 THEN [s EXCEPT !.col = @ - 1] ELSE [s EXCEPT !.row = @ - 1]

(* vga_backspace: the cursor goes back one place, over a row's end too,    *)
(* and the character there is blanked.                                     *)
Back(s) ==
  IF s.col # 0 THEN [s EXCEPT !.col = @ - 1]
               ELSE [s EXCEPT !.row = @ - 1, !.col = Width - 1]

Backspaced(s) ==
  IF s.row = 0 /\ s.col = 0 THEN s
  ELSE LET t == Back(s) IN [t EXCEPT !.cell[Place(t)] = Blank]

(* terminal_write.                                                         *)
Written(s, text) ==
  LET after[n \in 0 .. Len(text)] ==
        IF n = 0 THEN s ELSE Putc(after[n - 1], text[n])
  IN  after[Len(text)]
=============================================================================
