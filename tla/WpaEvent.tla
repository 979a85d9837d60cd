------------------------------- MODULE WpaEvent -------------------------------
(***************************************************************************)
(* The lines that wpa_supplicant sends as events: WpaEvent.cpp and the     *)
(* table of WpaMessages.cpp (src/pipedal_p2pd).                            *)
(***************************************************************************)
EXTENDS P2pUtil

\* The names of the table that the parser knows by heart, and one that stands for the
\* other 227.  The table maps them to as many messages, one to one.
MessageNames == {<<"UNKNOWN">>, <<"FAIL">>, <<"P2P:">>, <<"CTRL-REQ-">>, <<"CTRL-RSP-">>, <<"NAME">>}
MessageOf == [n \in MessageNames |-> n[1]]

\* The table, and then any name that begins with "FAIL-".
GetWpaEventMessage(name) ==
  IF name \in MessageNames THEN MessageOf[name]
  ELSE IF name # <<>> /\ name[1] = "FAIL-" THEN "FAIL" ELSE "UNKNOWN"
WpaEventMessageToString(message) == CHOOSE n \in MessageNames : MessageOf[n] = message

KeepsText(message) == message \in {"UNKNOWN", "FAIL"}

NewEvent == [priority |-> 0, message |-> "UNKNOWN", text |-> <<>>, parameters |-> <<>>,
             named |-> <<>>, options |-> <<>>]

-----------------------------------------------------------------------------
(* ParseLine(). *)

\* skipBalancedPair(): how many characters; one that is not closed goes to the end.
Closing == [c \in {"'", "dq", "["} |-> IF c = "[" THEN "]" ELSE c]
PairLength(s) ==
  IF s = <<>> \/ s[1] \notin DOMAIN Closing THEN 0
  ELSE LET i == 1 + FirstOf(Tail(s), {Closing[s[1]]}) IN IF i > Len(s) THEN Len(s) ELSE i

\* A word ends at a space, or after a pair that follows one of its "="; the last "=" it
\* has by then, if any, is the one that counts.
PairAfter(s, equals) == {i \in equals : PairLength(From(s, i + 1)) > 0}
Word(s) ==
  LET blank  == FirstOf(s, {" "})
      equals == {i \in 1 .. blank - 1 : s[i] = "="}
      quoted == PairAfter(s, equals)
      first  == CHOOSE i \in quoted : \A j \in quoted : i =< j
      last   == CHOOSE i \in equals : \A j \in equals : j =< i
  IN  IF quoted # {} THEN [equals |-> first, length |-> first + PairLength(From(s, first + 1))]
      ELSE [equals |-> IF equals = {} THEN 0 ELSE last, length |-> blank - 1]

\* "[a |b]": a space before "|" is dropped, and so is an empty option at the end.
OptionsOf(s) ==
  LET p == Pieces(s, "|")
      WithoutSpace(o) == IF o # <<>> /\ Last(o) = " " THEN Front(o) ELSE o
  IN  [i \in 1 .. (IF Last(p) = <<>> THEN Len(p) - 1 ELSE Len(p)) |-> WithoutSpace(p[i])]

RECURSIVE Arguments(_, _)
Arguments(e, line) ==
  LET s == Skip(line, {" "})
      n == PairLength(s)
      w == Word(s)
  IN  IF s = <<>> THEN e
      ELSE IF s[1] = "["
      THEN LET i == FirstOf(s, {"]"})
           IN  Arguments([e EXCEPT !.options = @ \o OptionsOf(SubSeq(s, 2, i - 1))], From(s, i + 1))
      ELSE IF n > 0
      THEN Arguments([e EXCEPT !.parameters = Append(@, SubSeq(s, 1, n))], From(s, n + 1))
      ELSE IF w.equals > 0
      THEN Arguments([e EXCEPT !.named = Append(@, <<Before(s, w.equals),
                                                     SubSeq(s, w.equals + 1, w.length)>>)],
                     From(s, w.length + 1))
      ELSE Arguments([e EXCEPT !.parameters = Append(@, SubSeq(s, 1, w.length))],
                     From(s, w.length + 1))

WithSpaces(s) == s  \* a mutant
RawText(s) == Skip(s, {" "})

\* The message and what follows it; some messages take all of it as one parameter.
Contents(e, s) ==
  LET n       == FirstOf(s, {" "})
      message == GetWpaEventMessage(Before(s, n))
      said    == [e EXCEPT !.message = message,
                           !.text = IF KeepsText(message) THEN Before(s, n) ELSE <<>>]
  IN  IF s # <<>> /\ s[1] \in {"CTRL-REQ-", "CTRL-RSP-"}
      THEN [e EXCEPT !.message = s[1], !.parameters = <<s>>]
      ELSE IF message = "P2P:" THEN [said EXCEPT !.parameters = <<RawText(From(s, n))>>]
      ELSE Arguments(said, From(s, n))

\* `options` are not reset.  A line that is only a prompt is an event as well: the last one.
ParseLine(old, line) ==
  LET e == [old EXCEPT !.parameters = <<>>, !.named = <<>>, !.text = <<>>]
      s == IF line # <<>> /\ line[1] = ">" THEN Tail(line) ELSE line
      d == FirstOf(s, {">"})
  IN  IF s = <<>> THEN [ok |-> TRUE, event |-> e]
      ELSE IF s[1] # "<" \/ d > Len(s) \/ ~AreDigits(SubSeq(s, 2, d - 1), 10)
      THEN [ok |-> FALSE, event |-> e]
      ELSE [ok |-> TRUE, event |-> Contents([e EXCEPT !.priority = Number(SubSeq(s, 2, d - 1), 10)],
                                            From(s, d + 1))]

-----------------------------------------------------------------------------
(* ToString(), QuoteString() and UnquoteString(). *)

\* The character that many places after "0".
Priority(n) == IF n < 10 THEN Digits(n) ELSE <<"other">>

\* Parameters first, and options without a space before them.
EventToString(e) ==
  <<"<">> \o Priority(e.priority) \o <<">">>
    \o (IF KeepsText(e.message) THEN e.text ELSE WpaEventMessageToString(e.message))
    \o FlattenSeq([i \in DOMAIN e.parameters |-> <<" ">> \o e.parameters[i]])
    \o FlattenSeq([i \in DOMAIN e.named |-> <<" ">> \o e.named[i][1] \o <<"=">> \o e.named[i][2]])
    \o (IF e.options = <<>> THEN <<>> ELSE <<"[">> \o Joined(e.options, <<" ", "|">>) \o <<"]">>)

OnlyTheQuote(c, quote) == c = quote  \* a mutant
IsEscaped(c, quote) == c \in {quote, "\\"}
QuoteString(s, quote) ==
  <<quote>> \o FlattenSeq([i \in DOMAIN s |->
                 IF IsEscaped(s[i], quote) THEN <<"\\", s[i]>> ELSE <<s[i]>>]) \o <<quote>>

RECURSIVE Unescaped(_, _)
Unescaped(s, quote) ==
  IF s = <<>> \/ s[1] = quote THEN <<>>
  ELSE IF s[1] # "\\" THEN <<s[1]>> \o Unescaped(Tail(s), quote)
  ELSE IF Len(s) = 1 THEN <<>> ELSE <<s[2]>> \o Unescaped(From(s, 3), quote)
UnquoteString(s) == IF s # <<>> /\ s[1] \in {"'", "dq"} THEN Unescaped(Tail(s), s[1]) ELSE s
=============================================================================
