------------------------------ MODULE MCConsole ------------------------------
(* Console with a screen of three rows of three characters, a line of four *)
(* characters that wraps once, and a buffer that holds two keys; and the   *)
(* lines of up to seven characters that CommandLine takes apart.           *)
EXTENDS CommandLine

Characters == [c \in {"a", "A", " ", ".", ">"} |-> IF c = "a" THEN "A" ELSE c]

SomeKeys == {"kA", "kBack", "kEnter", "kAlt"}

PlainTable ==
  [k \in SomeKeys |-> CASE k = "kA" -> "a" [] k = "kBack" -> "bs"
                         [] k = "kEnter" -> "nl" [] k = "kAlt" -> "0"]

ShiftedTable == [PlainTable EXCEPT !["kA"] = "A"]

ShortPrompt == <<">">>

(* Nothing, a line, and a line with a wrapped one.                         *)
SomeReplies == {<<>>, <<"x", "nl">>, <<"x", "x", "x", "x", "nl">>}
=============================================================================
