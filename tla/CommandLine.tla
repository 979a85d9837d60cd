----------------------------- MODULE CommandLine -----------------------------
(***************************************************************************)
(* The command line: CommandLineParser.h with the options of main.cpp, and *)
(* the help text that it prints with includes/PrettyPrinter.h              *)
(* (src/pipedal_p2pd).                                                     *)
(***************************************************************************)
EXTENDS P2pUtil

CONSTANTS LineWidth, TabSize

ASSUME PrinterAssumption == LineWidth \in Nat /\ TabSize \in Nat \ {0}

\* An option of each kind: three words are a switch's, and one takes a string.
Options == [w \in {<<"-", "help">>, <<"-", "help", "+">>, <<"-", "help", "-">>, <<"-", "i">>} |->
              CASE w = <<"-", "i">> -> "string" [] w = <<"-", "help", "-">> -> "off" [] OTHER -> "on"]

NotParsed == [ok |-> TRUE, help |-> FALSE, interfaceOption |-> <<"wlan0">>, args |-> <<>>]

IsOption(word) == word # <<>> /\ word[1] = "-"
TakesAnything(words) == Len(words) > 1  \* a mutant
HasParameter(words) == Len(words) > 1 /\ ~IsOption(words[2])

RECURSIVE Parse(_, _)
Parse(o, words) ==
  IF words = <<>> THEN o
  ELSE IF ~IsOption(words[1]) THEN Parse([o EXCEPT !.args = Append(@, words[1])], Tail(words))
  ELSE IF words[1] \notin DOMAIN Options THEN [o EXCEPT !.ok = FALSE]
  ELSE IF Options[words[1]] # "string"
  THEN Parse([o EXCEPT !.help = Options[words[1]] = "on"], Tail(words))
  ELSE IF HasParameter(words) THEN Parse([o EXCEPT !.interfaceOption = words[2]], From(words, 3))
  ELSE [o EXCEPT !.ok = FALSE]

-----------------------------------------------------------------------------
(* The help text.  A character of UTF-8 is "lead" and then one or more of "more". *)

NewPrinter(indent) ==
  [lines |-> <<>>, lineBuffer |-> <<>>, column |-> 0, indent |-> indent]

EndLine(p) == [p EXCEPT !.lines = Append(@, p.lineBuffer), !.lineBuffer = <<>>, !.column = 0]

Blanks(n) == [i \in 1 .. n |-> " "]
Add(p, c) ==
  LET n == IF c = "\t" THEN TabSize - (p.column % TabSize) ELSE IF c = "lead" THEN 0 ELSE 1
  IN  [p EXCEPT !.lineBuffer = @ \o (IF c = "\t" THEN Blanks(n) ELSE <<c>>), !.column = @ + n]

\* FindBreak(): after the last space that is not part of the indent.
BreakAnywhere(p) == Len(p.lineBuffer)  \* a mutant
FindBreak(p) ==
  LET i == SelectLastInSeq(p.lineBuffer, LAMBDA c : c = " ")
  IN  IF i > p.indent THEN i ELSE Len(p.lineBuffer)

\* Write(): spaces at the left margin are dropped.  What is too long for a line is written
\* again, without the spaces it begins with.
RECURSIVE Write(_, _)
Write(p, text) ==
  LET AtMargin == p.column =< p.indent
      q == Add(IF AtMargin /\ p.column < p.indent
               THEN [p EXCEPT !.lineBuffer = @ \o Blanks(p.indent - p.column), !.column = p.indent]
               ELSE p, text[1])
      i == FindBreak(q)
      overflow == SubSeq(q.lineBuffer, i + 1, Len(q.lineBuffer))
      dropped  == SelectInSeq(Append(overflow, "end"), LAMBDA c : c # " ") - 1
  IN  IF text = <<>> THEN p
      ELSE IF text[1] = "\n" THEN Write(EndLine(p), Tail(text))
      ELSE IF AtMargin /\ text[1] = " " THEN Write(p, Tail(text))
      ELSE IF q.column >= LineWidth - 1
      THEN Write(Write(EndLine([q EXCEPT !.lineBuffer = SubSeq(@, 1, i)]),
                       SubSeq(overflow, dropped + 1, Len(overflow))), Tail(text))
      ELSE Write(q, Tail(text))

\* HangingIndent(): a text that leaves no room before the indent has lines of its own.
HangingIndent(p, text) ==
  LET q == FoldLeft(LAMBDA o, c : IF c = "\n" THEN EndLine(o) ELSE Add(o, c), p, text)
  IN  IF q.column >= q.indent THEN EndLine(q) ELSE q
=============================================================================
