----------------------------- MODULE Conversions -----------------------------
(***************************************************************************)
(* The conversions at work, one job at a time: what the program reads from *)
(* text, keeps in a record or a ring, or writes as text.  A job has what   *)
(* it is given (in) and what has become of it (out).                       *)
(***************************************************************************)
EXTENDS WpaEvent, WpaResponses, Configuration, CommandLine, ServiceRecord, Fifo, LineReader

CONSTANTS EventLines, Strings, OwnSettings, Settings, Defaults, Memory, CommandLines, Networks, Scans, Stations,
          Entries, Instances, ServiceTypes, Files, Texts, Indents,
          MaxSets, MaxPushes, RingSizes, MaxLines

VARIABLE job

Job(kind, in, out) == [kind |-> kind, in |-> in, out |-> out]

Init ==
  \/ \E line \in EventLines : job = Job("event", line, <<>>)
  \/ \E s \in Strings, quote \in {"'", "dq"} : job = Job("quote", <<s, quote>>, <<>>)
  \/ \E own \in OwnSettings, service \in Settings :
       job = Job("settings", [own |-> own, service |-> service], <<>>)
  \/ \E items \in CommandLines : job = Job("command", items, <<>>)
  \/ \E row \in Networks : job = Job("network", row, <<>>)
  \/ \E row \in Scans : job = Job("scan", row, <<>>)
  \/ \E s \in Stations : job = Job("stations", s, <<>>)
  \/ \E s \in Strings : job = Job("status", s, <<>>)
  \/ job = Job("record", <<>>, <<>>)
  \/ \E i \in Instances, t \in ServiceTypes : job = Job("name", [instance |-> i, type |-> t], <<>>)
  \/ \E n \in RingSizes : job = Job("ring", <<>>, NewFifo(n))
  \/ \E f \in Files :
       job = Job("lines", f, [reader |-> NewReader(FoldLeft(CoWriteLine, <<>>, f.lines) \o f.rest),
                              results |-> <<>>])
  \/ \E t \in Texts, n \in Indents : job = Job("text", [text |-> t, indent |-> n], <<>>)

\* A job that is done in one step.
Becomes(kind, out) == job.kind = kind /\ job.out = <<>> /\ job' = [job EXCEPT !.out = <<out>>]

-----------------------------------------------------------------------------
(* Events, settings and the command line. *)

ReadEvent == Becomes("event", ParseLine(NewEvent, job.in))
PrintEvent ==
  /\ job.kind = "event" /\ Len(job.out) = 1 /\ job.out[1].ok
  /\ job' = [job EXCEPT !.out = Append(@, ParseLine(NewEvent, EventToString(@[1].event)))]

Quote == Becomes("quote", UnquoteString(QuoteString(job.in[1], job.in[2])))

SaveSettings == Becomes("settings", [own |-> Save(job.in.own), service |-> Save(job.in.service)])
LoadSettings ==
  /\ job.kind = "settings" /\ Len(job.out) = 1
  /\ \E memory \in Memory :
       job' = [job EXCEPT !.out =
                 Append(@, LoadBoth(Defaults, @[1].own, Defaults, @[1].service, memory))]

\* An item is an option with its parameter, or an argument.
WordsOf(item) ==
  IF item.option = <<>> THEN <<item.value>>
  ELSE IF Options[item.option] = "string" THEN <<item.option, item.value>> ELSE <<item.option>>
ParseCommandLine ==
  Becomes("command", Parse(NotParsed, FlattenSeq([i \in DOMAIN job.in |-> WordsOf(job.in[i])])))

-----------------------------------------------------------------------------
(* Answers. *)

SignedDigits(n) == IF n < 0 THEN <<"-">> \o Digits(-n) ELSE Digits(n)
ReadNetworks ==
  Becomes("network",
    ListNetworks(<<<<"header">>, Joined(<<Digits(job.in.number), job.in.ssid, job.in.bssid,
                                         FlattenSeq(job.in.flags)>>, <<"\t">>)>>))
ReadScan ==
  Becomes("scan",
    ScanResults(<<<<"header">>,
                  Joined(<<job.in.bssid, Digits(job.in.frequency), SignedDigits(job.in.signalLevel),
                           FlattenSeq(job.in.flags), job.in.ssid>>, <<"\t">>),
                  <<"truncated">>>>))
ReadStations ==
  Becomes("stations",
    ListSta([i \in DOMAIN job.in |->
               job.in[i].address \o <<"\n", "p2p_device_name", "=">> \o job.in[i].p2p_device_name
                 \o <<"\n", "rx_bytes", "=">> \o Digits(job.in[i].rx_bytes) \o <<"\n">>]
            \o <<<<"FAIL", "\n">>>>))
ReadStatus ==
  Becomes("status", WpaStatusInfo(<<<<"wpa_state", "=", "COMPLETED">>, <<"ssid", "=">> \o job.in,
                                    <<"mode", "=", "P2P GO">>>>))

-----------------------------------------------------------------------------
(* Records, rings and lines. *)

SetRecord ==
  /\ job.kind = "record" /\ Len(job.in) < MaxSets
  /\ \E e \in Entries :
       /\ ~IsRefused(e.key, e.value) /\ ~SetIsStuck(job.out, e.key)
       /\ job' = [job EXCEPT !.in = Append(@, e), !.out = SetEntry(@, e.key, e.value)]

QueryService ==
  Becomes("name", [ptr |-> CreatePtrServiceQuery(job.in.instance, job.in.type),
                   txt |-> CreateTxtServiceQuery(job.in.instance, job.in.type)])

PushHandle ==
  /\ job.kind = "ring" /\ Len(job.in) < MaxPushes
  /\ \E v \in 1 .. 2 : job' = [job EXCEPT !.in = Append(@, v), !.out = Push(@, v)]
PopHandle ==
  /\ job.kind = "ring" /\ job.out.size > 0
  /\ job' = [job EXCEPT !.in = Tail(@), !.out = Pop(@).fifo]
ClearRing == job.kind = "ring" /\ job' = [job EXCEPT !.in = <<>>, !.out = Clear(@)]

Returns(ok, r) ==
  job' = [job EXCEPT !.out = [reader |-> r.reader,
                              results |-> Append(@.results, [ok |-> ok, line |-> r.line])]]
ReadLine ==
  /\ job.kind = "lines" /\ Len(job.out.results) < MaxLines
  /\ LET r == job.out.reader
     IN  \/ HasLine(r) /\ Returns(TRUE, LineIsReturned(r))
         \/ /\ ~HasLine(r) /\ r.unread # <<>>
            /\ \E n \in 1 .. Len(r.unread) : job' = [job EXCEPT !.out.reader = Fills(r, n)]
         \/ ~HasLine(r) /\ r.unread = <<>> /\ Returns(AtEnd(r).line # <<>>, AtEnd(r))

PrintText ==
  Becomes("text", Write(HangingIndent(NewPrinter(job.in.indent), <<"h", "h">>), job.in.text))

Next ==
  \/ ReadEvent \/ PrintEvent \/ Quote \/ SaveSettings \/ LoadSettings \/ ParseCommandLine
  \/ ReadNetworks \/ ReadScan \/ ReadStations \/ ReadStatus
  \/ SetRecord \/ QueryService \/ PushHandle \/ PopHandle \/ ClearRing \/ ReadLine \/ PrintText

Spec == Init /\ [][Next]_job

Done(kind) == job.kind = kind /\ job.out # <<>>

-----------------------------------------------------------------------------
(* Properties. *)

\* An event without options is the same one after ToString() and ParseLine(), unless it is a
\* raw request, its priority has two digits, or a pair in it has no end; a string is the same
\* after QuoteString() and UnquoteString().
IsPrintable(e) ==
  LET whole(s) == PairLength(s) > 0 => Len(s) > 1 /\ Last(s) = Closing[s[1]]
  IN  /\ e.options = <<>> /\ e.priority < 10 /\ e.message \notin {"CTRL-REQ-", "CTRL-RSP-"}
      /\ \A i \in DOMAIN e.parameters : whole(e.parameters[i])
      /\ \A i \in DOMAIN e.named : whole(e.named[i][2])
EventSurvivesText ==
  /\ job.kind = "event" /\ Len(job.out) = 2 /\ IsPrintable(job.out[1].event)
       => job.out[2] = job.out[1]
  /\ Done("quote") => job.out[1] = job.in[1]

\* What Save() writes, Load() reads again, if no string has a "#" or the end of a line in it,
\* needs an escape (see EscapesSurvive), or begins with a quote that nothing else protects.
\* What the command line says in the order of its words is what Parse() returns; a string
\* option never takes an option for its parameter.
IsKept(s) ==
  /\ ToSet(s) \cap {"#", "\n", "\t", "\r", "\\", "dq"} = {}
  /\ s # <<>> /\ s[1] = "'" => " " \in ToSet(s)
Says(o, item) ==
  IF ~o.ok THEN o
  ELSE IF item.option = <<>> THEN [o EXCEPT !.args = Append(@, item.value)]
  ELSE IF item.option # <<"-", "i">> THEN [o EXCEPT !.help = item.option # <<"-", "help", "-">>]
  ELSE IF IsOption(item.value) THEN [o EXCEPT !.ok = FALSE]
  ELSE [o EXCEPT !.interfaceOption = item.value]
IsReadAgain(whole(_)) ==
  job.kind = "settings" /\ Len(job.out) = 2 /\ job.in.service.uuid # <<>>
    /\ (\A s \in {job.in.service.uuid, job.in.service.deviceName} : whole(s))
    => job.out[2] = [ok |-> TRUE,
                     settings |-> [job.in.service EXCEPT !.enabled = job.in.own.enabled]]
SettingsSurvive ==
  /\ IsReadAgain(IsKept)
  /\ Done("command") =>
       LET meant == FoldLeft(Says, NotParsed, job.in)
       IN  job.out[1].ok = meant.ok /\ (meant.ok => job.out[1] = meant)

\* What wpa_supplicant answers is read as it was meant, empty columns included, and a truncated
\* row of a scan costs nothing but itself; a station's name that has a "=" in it is lost.
ResponsesAreRead ==
  /\ Done("network") => job.out[1] = <<<<job.in>>>>
  /\ Done("scan") => job.out[1] = <<job.in>>
  /\ Done("stations") =>
       job.out[1] = <<[i \in DOMAIN job.in |->
                         IF "=" \in ToSet(job.in[i].p2p_device_name)
                         THEN [job.in[i] EXCEPT !.p2p_device_name = <<>>] ELSE job.in[i]]>>
  /\ Done("status") => job.out[1].fields[<<"ssid">>] = job.in /\ Len(job.out[1].extras) = 1

\* A TXT record has for each key the last value that was set, however its letters are written,
\* as long as no key is empty; its queries name the same service, unless the instance has a "."
\* in it.  The ring is the sequence of what was pushed and not popped.  Lines are read in the
\* order in which they are in the file.  No word is lost in printing, nor split if it fits, and
\* no line is too long.
LastSet(key) ==
  LET i == SelectLastInSeq(job.in, LAMBDA e : CaseInsensitiveCompare(e.key, key))
  IN  IF i = 0 THEN <<>> ELSE job.in[i].value
RecordIsMap ==
  job.kind = "record" /\ (\A i \in DOMAIN job.in : job.in[i].key # <<>>)
    => \A e \in Entries : GetValue(job.out, e.key) = LastSet(e.key)
QueriesAgree ==
  Done("name") =>
    LET ptr == job.out[1].ptr  txt == job.out[1].txt
    IN  "." \notin ToSet(job.in.instance)
          <=> /\ Len(txt.labels) = Len(ptr.request.labels) + 1
              /\ CaseInsensitiveCompare(Head(txt.labels), ptr.answer)
              /\ Tail(txt.labels) = ptr.request.labels /\ txt.pointer = ptr.request.pointer
RingIsQueue ==
  job.kind = "ring" =>
    job.in = [i \in 1 .. job.out.size |->
                job.out.storage[((job.out.head + i - 1) % Len(job.out.storage)) + 1]]
LinesOf(f) == IF f.rest = <<>> THEN f.lines ELSE Append(f.lines, f.rest)
LinesInOrder ==
  job.kind = "lines" =>
    \A i \in DOMAIN job.out.results :
      i =< Len(LinesOf(job.in)) => job.out.results[i] = [ok |-> TRUE, line |-> LinesOf(job.in)[i]]
WordsIn(s) ==
  SelectSeq(Split([i \in DOMAIN s |-> IF s[i] = "\n" THEN " " ELSE s[i]], " "), LAMBDA w : w # <<>>)
TextIsKept ==
  Done("text") =>
    LET p     == job.out[1]
        lines == Append(p.lines, p.lineBuffer)
        words == FlattenSeq([i \in DOMAIN lines |-> WordsIn(lines[i])])
        meant == <<<<"h", "h">>>> \o WordsIn(job.in.text)
    IN  /\ FlattenSeq(words) = FlattenSeq(meant)
        /\ (\A i \in DOMAIN meant : Len(meant[i]) < LineWidth - 1 - job.in.indent) => words = meant
        /\ \A i \in DOMAIN lines : Len(lines[i]) < LineWidth
StructuresAgree == RecordIsMap /\ QueriesAgree /\ RingIsQueue /\ LinesInOrder /\ TextIsKept

\* A string of which the header of EncodeString() and DecodeString() says that its characters
\* are escaped ("following values only: \r \n \t \" \\.") is read as it was written.
EscapesSurvive == IsReadAgain(LAMBDA s : ToSet(s) \cap {"#", "'"} = {})

\* CoReadLine() returns no more lines than there are ("@return false End of file.").
EndOfFileIsReported ==
  job.kind = "lines" =>
    Cardinality({i \in DOMAIN job.out.results : job.out.results[i].ok}) =< Len(LinesOf(job.in))
=============================================================================
