----------------------------- MODULE CommandLine -----------------------------
(***************************************************************************)
(* How the shell takes a line apart (kernel/shell.c): the command and its  *)
(* arguments, the redirection of echo, and the form directory_set_name and *)
(* directory_get_name (kernel/fs/directory.c) give to a name on its way to *)
(* the disk and back.  The line is what the editor of Console hands over;  *)
(* the shell keeps nothing from one line to the next.                      *)
(***************************************************************************)
EXTENDS Console

CONSTANTS
  Upper,       \* the characters of a line, each with its upper-case form
  MaxLine,     \* bound: the length of a line
  CommandSize, ArgsSize, NameSize,   \* command[32], args[224], filename[64],
  EchoNameSize,                      \* and echo's filename[128], without the final 0
  BaseSize, ExtensionSize            \* 8 and 3

Space == " "
Point == "."
Redirect == ">"

ASSUME CommandLineAssumption ==
  /\ {Space, Point, Redirect} \subseteq {c \in DOMAIN Upper : Upper[c] = c}
  /\ \A c \in DOMAIN Upper : Upper[c] = Space => c = Space
  /\ {CommandSize, ArgsSize, NameSize, EchoNameSize} \subseteq Nat \ {0}
  /\ {BaseSize, ExtensionSize} \subseteq Nat \ {0}
  /\ MaxLine \in Nat

(* Every line that can be typed, up to the bound.                          *)
Lines == UNION {[1 .. n -> DOMAIN Upper] : n \in 0 .. MaxLine}

-----------------------------------------------------------------------------

(* The first n characters of s, or all of it, and the rest.                *)
Upto(s, n) == SubSeq(s, 1, IF n < Len(s) THEN n ELSE Len(s))
From(s, n) == SubSeq(s, n + 1, Len(s))

(* How many characters a loop passes that ends at such a character.       *)
Before(s, Stops(_)) ==
  LET stops == {i \in DOMAIN s : Stops(s[i])}
  IN  IF stops = {} THEN Len(s) ELSE (CHOOSE i \in stops : \A j \in stops : i <= j) - 1

Trimmed(s) == From(s, Before(s, LAMBDA c : c # Space))
WordOf(s) == Upto(s, Before(s, LAMBDA c : c = Space))

(* split_command.  What does not fit into the command begins the arguments. *)
split_command(s) ==
  LET command == Upto(WordOf(Trimmed(s)), CommandSize)
  IN  [command |-> command,
       args |-> Upto(Trimmed(From(Trimmed(s), Len(command))), ArgsSize)]

(* Mutant: the rest of a long argument is taken for the next one.          *)
NextArgumentInPieces(s) ==
  LET word == Upto(WordOf(Trimmed(s)), NameSize)
  IN  [word |-> word, rest |-> From(Trimmed(s), Len(word))]

(* get_next_argument, when there is one: the word as far as it fits, and   *)
(* what is left behind the whole word.                                     *)
get_next_argument(s) ==
  LET word == WordOf(Trimmed(s))
  IN  [word |-> Upto(word, NameSize), rest |-> From(Trimmed(s), Len(word))]

(* The loop of touch, mkdir, rm and rmdir.                                 *)
Arguments(s) ==
  LET after[n \in 0 .. Len(s)] ==
        IF n = 0 THEN [names |-> <<>>, rest |-> s]
        ELSE LET so_far == after[n - 1]
                 next == get_next_argument(so_far.rest)
             IN  IF Trimmed(so_far.rest) = <<>> THEN so_far
                 ELSE [names |-> Append(so_far.names, next.word), rest |-> next.rest]
  IN  after[Len(s)].names

-----------------------------------------------------------------------------
(* The 11 characters of a short name, padded with blanks.                  *)

Padded(s, n) == [i \in 1 .. n |-> IF i <= Len(s) THEN Upper[s[i]] ELSE Space]

(* directory_set_name: one point at most, with something on both sides,    *)
(* and neither side too long.                                              *)
Accepts(name) ==
  LET base == Upto(name, Before(name, LAMBDA c : c = Point))
      extension == From(name, Len(base) + 1)
  IN  /\ Len(base) \in 1 .. BaseSize
      /\ Len(base) < Len(name) => Len(extension) \in 1 .. ExtensionSize
      /\ \A i \in DOMAIN extension : extension[i] # Point

directory_set_name(name) ==
  LET base == Upto(name, Before(name, LAMBDA c : c = Point))
  IN  Padded(base, BaseSize) \o Padded(From(name, Len(base) + 1), ExtensionSize)

directory_get_name(short) ==
  LET extension == From(short, BaseSize)
  IN  WordOf(Upto(short, BaseSize))
        \o IF extension[1] = Space THEN <<>> ELSE <<Point>> \o WordOf(extension)

-----------------------------------------------------------------------------

(* Mutant: the name begins behind one mark, in either form.                *)
EchoKeepsMark(args) ==
  LET mark == Before(args, LAMBDA c : c = Redirect)
      blanks == {n \in 0 .. mark : \A i \in n + 1 .. mark : args[i] = Space}
      append == mark + 2 <= Len(args) /\ args[mark + 2] = Redirect
  IN  [text |-> Upto(args, CHOOSE n \in blanks : \A k \in blanks : n <= k),
       append |-> append, name |-> Upto(Trimmed(From(args, mark + 1)), EchoNameSize)]

(* cmd_echo with a redirection: the text without its trailing blanks, and  *)
(* the rest of the line behind ">" or ">>" as the name.                    *)
Echoed(args) ==
  LET mark == Before(args, LAMBDA c : c = Redirect)
      blanks == {n \in 0 .. mark : \A i \in n + 1 .. mark : args[i] = Space}
      append == mark + 2 <= Len(args) /\ args[mark + 2] = Redirect
  IN  [text |-> Upto(args, CHOOSE n \in blanks : \A k \in blanks : n <= k),
       append |-> append,
       name |-> Upto(Trimmed(From(args, mark + IF append THEN 2 ELSE 1)), EchoNameSize)]

-----------------------------------------------------------------------------
(* Properties.                                                             *)

(* Where the words of a line begin, and the k-th of them.                  *)
Starts(line) == {i \in DOMAIN line : line[i] # Space /\ (i = 1 \/ line[i - 1] = Space)}
Rank(line, i) == Cardinality({j \in Starts(line) : j <= i})
Word(line, k) == WordOf(From(line, (CHOOSE i \in Starts(line) : Rank(line, i) = k) - 1))

(* The command and the arguments fit into their buffers.                   *)
FitsBuffers(line) ==
  /\ Starts(line) # {} /\ Len(Word(line, 1)) <= CommandSize
  /\ Len(Trimmed(From(Trimmed(line), Len(Word(line, 1))))) <= ArgsSize

(* These names are the words behind the command, and read back.            *)
AreArguments(line, names) ==
  LET ReadBack(name) == directory_get_name(directory_set_name(name))
      Capitals(name) == [i \in DOMAIN name |-> Upper[name[i]]]
  IN  /\ Cardinality(Starts(line)) = 1 + Len(names)
      /\ \A k \in DOMAIN names :
           /\ names[k] = Upto(Word(line, k + 1), NameSize)
           /\ Accepts(names[k]) => ReadBack(names[k]) = Capitals(names[k])

LinesBecomeNames ==
  \A line \in Lines :
    FitsBuffers(line) => AreArguments(line, Arguments(split_command(line).args))

(* At an empty prompt, whatever line comes next whose command and          *)
(* arguments fit: the names are the words behind the command, in order,    *)
(* each cut where it does not fit; no word is lost, split or run into its  *)
(* neighbour.  What touch and mkdir enter reads back as the name in upper  *)
(* case.                                                                   *)
WordsBecomeNames == input = <<>> => LinesBecomeNames

Spaces(n) == [i \in 1 .. n |-> Space]

LinesAreEchoed ==
  LET Splits(args, echo) ==
        LET mark == IF echo.append THEN <<Redirect, Redirect>> ELSE <<Redirect>>
        IN  /\ \A i \in DOMAIN echo.text : echo.text[i] # Redirect
            /\ \E m, n \in 0 .. Len(args) :
                 IsPrefix(echo.text \o Spaces(m) \o mark \o Spaces(n) \o echo.name, args)
            /\ echo.name = <<>> \/ echo.name[1] # Space
            /\ echo.text = <<>> \/ Last(echo.text) # Space
  IN  \A line \in Lines :
        LET args == split_command(line).args
        IN  Contains(args, Redirect) => Splits(args, Echoed(args))

(* At an empty prompt, whatever line comes next: a line with a redirection *)
(* is the text that is written, the mark and the name of the file, but for *)
(* blanks between them; echo writes no part of the mark or the name, and   *)
(* drops no part of the text.                                              *)
EchoLosesNothing == input = <<>> => LinesAreEchoed
=============================================================================
