---------------------------- MODULE Configuration ----------------------------
(***************************************************************************)
(* The configuration files: ConfigSerializer.h and .cpp, with the tables   *)
(* of P2pConfiguration.cpp and ServiceConfiguration.cpp                    *)
(* (src/pipedal_p2pd).  One setting stands for all those of a type.        *)
(***************************************************************************)
EXTENDS P2pUtil

Trim(s) ==
  IF ToSet(s) \subseteq {" "} THEN <<>>
  ELSE SubSeq(s, SelectInSeq(s, LAMBDA c : c # " "), SelectLastInSeq(s, LAMBDA c : c # " "))

Encoded(c) ==
  CASE c = "\r" -> <<"\\", "r">> [] c = "\t" -> <<"\\", "t">>
    [] c \in {"\\", "dq"} -> <<"\\", c>> [] OTHER -> <<c>>
EncodeString(s) ==
  IF ToSet(s) \cap {"\r", "\t", "\\", " ", "dq"} = {} THEN s
  ELSE <<"dq">> \o FlattenSeq([i \in DOMAIN s |-> Encoded(s[i])]) \o <<"dq">>

\* The character after a "\" is written as what it stands for, and then once more as itself.
Meaning == [c \in {"r", "t", "n"} |-> CASE c = "r" -> "\r" [] c = "t" -> "\t" [] c = "n" -> "\n"]
RECURSIVE Decoded(_, _)
Decoded(s, quote) ==
  IF s = <<>> \/ s[1] = quote THEN <<>>
  ELSE IF s[1] # "\\" THEN <<s[1]>> \o Decoded(Tail(s), quote)
  ELSE <<IF s[2] \in DOMAIN Meaning THEN Meaning[s[2]] ELSE s[2], s[2]>>
         \o Decoded(From(s, 3), quote)
DecodeString(s) ==
  IF s = <<>> \/ s[1] \notin {"'", "dq"} THEN <<s>>
  ELSE IF Last(s) # s[1] THEN <<>> ELSE <<Decoded(Tail(s), s[1])>>

-----------------------------------------------------------------------------
(* A file: one setting a line. *)

Types == [uuid |-> "string", deviceName |-> "string", enabled |-> "bool", server_port |-> "uint"]
Comments == [uuid |-> <<>>, deviceName |-> <<"name">>, enabled |-> <<"Ui use only", "\n", "=">>,
             server_port |-> <<>>]
Names == <<"uuid", "deviceName", "enabled", "server_port">>

\* The values that may be read.  A number of which there is no text at all is never written:
\* it is whatever the memory held.
FromString(type, s, memory) ==
  CASE type = "string" -> DecodeString(s)
    [] type = "bool" -> IF s \in {<<>>, <<"false">>} THEN <<FALSE>>
                        ELSE IF s = <<"true">> THEN <<TRUE>>
                        ELSE IF Leading(s) = <<>> THEN <<>> ELSE <<Leading(s)[1] # 0>>
    [] type = "uint" -> IF s = <<>> THEN <<memory>>
                        ELSE IF Leading(s) = <<>> THEN <<0>> ELSE <<Leading(s)[1] % WordSize>>
AsString(type, value) ==
  CASE type = "string" -> EncodeString(value)
    [] type = "bool" -> IF value THEN <<"true">> ELSE <<"false">>
    [] type = "uint" -> Digits(value)

BareComment(name) == Comments[name] \o <<"\n">>  \* a mutant
CommentOf(name) ==
  LET lines == Split(Comments[name], "\n")
  IN  FlattenSeq([i \in DOMAIN lines |-> <<"#", " ">> \o lines[i] \o <<"\n">>])
Save(settings) ==
  FlattenSeq([i \in DOMAIN Names |->
    CommentOf(Names[i]) \o <<Names[i], "=">> \o AsString(Types[Names[i]], settings[Names[i]])
      \o <<"\n">>])

\* A "#" ends the line, wherever it is.
LoadLine(o, line, memory) ==
  LET text  == Before(line, FirstOf(line, {"#"}))
      s     == Skip(text, {" "})
      n     == FirstOf(s, {"="})
      label == Trim(Before(s, n))
      value == FromString(Types[label[1]], Trim(From(s, n + 1)), memory)
  IN  IF ~o.ok \/ s = <<>> THEN o
      ELSE IF n > Len(s) \/ Len(label) # 1 \/ label[1] \notin DOMAIN Types \/ value = <<>>
      THEN [o EXCEPT !.ok = FALSE]
      ELSE [o EXCEPT !.settings[label[1]] = value[1]]
Load(settings, text, memory) ==
  FoldLeft(LAMBDA o, line : LoadLine(o, line, memory), [ok |-> TRUE, settings |-> settings],
           Pieces(text, "\n"))

\* P2pConfiguration::Load(): the service's own file, read into a configuration of its own, has
\* the last word.
LoadBoth(settings, text, service, serviceText, memory) ==
  LET own == Load(settings, text, memory)
      its == Load(service, serviceText, memory)
  IN  [ok |-> own.ok /\ its.ok /\ its.settings.uuid # <<>>,
       settings |-> [its.settings EXCEPT !.enabled = own.settings.enabled]]
=============================================================================
