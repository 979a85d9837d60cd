------------------------ MODULE WpaSupplicant_proofs ------------------------
(***************************************************************************)
(* A channel to wpa_supplicant gives each caller the answer to its own     *)
(* request until one of them has timed out, passes every event on once and *)
(* in order, and leaves nobody behind when it is closed: for any number of *)
(* callers, requests and events, and any life of wpa_supplicant.           *)
(*                                                                         *)
(* The invariant has a part for each promise: Turns (the mutex) and        *)
(* Answering (at most one request is under way, and it is the owner's);    *)
(* Attaching, InOrder and Disposed (events between the socket and their    *)
(* end); Threads.  Control and NotYet say how far Open() and Close() are.  *)
(***************************************************************************)
EXTENDS WpaSupplicant, ListLemmas

ServerType == [up : BOOLEAN, id : 0..MaxServers, attached : BOOLEAN,
               asked : Seq([no : 1..MaxAsked, socket : Sockets])]
SocketType == [open : BOOLEAN, server : 0..MaxServers, inbox : Seq(1..(MaxAsked + MaxEvents))]
CountType == [asked : 0..MaxAsked, events : 0..MaxEvents]
ChanType == [closed : BOOLEAN, disconnected : BOOLEAN, threads : 0..2, queue : Seq(Nat),
             queueClosed : BOOLEAN]
MutexType == [owner : Callers \cup {Nobody}, waiting : Seq(Callers)]
CallerType == [pc : {"idle", "lock", "send", "recv"}, no : Nat, left : Nat, list : BOOLEAN,
               result : {"none", "ok", "wrong", "failed"}]
ReaderType == [pc : {"none", "recv", "push", "leave", "ended"}, event : Nat]
HandlerType == [pc : {"none", "take", "handle", "ended"}, event : Nat]
OpeningType == [pc : {"idle", "event", "attach", "answer", "command", "ok", "failed"},
                tries : Nat]
HistoryType == [timedOut : BOOLEAN, foreign : BOOLEAN, threw : BOOLEAN, read : Nat,
                handled : Seq(Nat), deleted : SUBSET Nat]
WpaType == [pc : {"new", "opening", "retry", "settle", "open", "threw", "closing"},
            retries : 0..Retries, open : BOOLEAN, finished : BOOLEAN,
            keepAlive : {"none", "delay", "ping", "ended"}]

SocketsFit ==
  /\ socket \in [Sockets -> SocketType]
  /\ \A s \in Sockets : ~socket[s].open => socket[s].inbox = <<>>

Shape ==
  /\ server \in ServerType /\ SocketsFit /\ count \in CountType
  /\ lost \in Nat /\ chan \in ChanType /\ mutex \in MutexType
  /\ caller \in [Callers -> CallerType] /\ reader \in ReaderType /\ handler \in HandlerType
  /\ opening \in OpeningType /\ history \in HistoryType /\ wpa \in WpaType
  /\ closing \in {"idle", "event", "queue", "join", "command", "pump", "done"}

\* The mutex is with the one that is in a request, the others wait for it in a line.
Requesting(c) == caller[c].pc \in {"send", "recv"}
Turns ==
  /\ \A c \in Callers : Requesting(c) <=> mutex.owner = c
  /\ \A c \in Callers : caller[c].pc = "lock" <=> c \in Range(mutex.waiting)
  /\ IsInjective(mutex.waiting)
  /\ mutex.owner = Nobody => mutex.waiting = <<>>

\* What wpa_supplicant has not answered, or has, is what somebody waits for.
Asks(s) == {i \in DOMAIN server.asked : server.asked[i].socket = s}
Awaited(no) == \E c \in Callers : caller[c].pc = "recv" /\ caller[c].no = no
Answering ==
  ~history.timedOut /\ socket["command"].open =>
     /\ \A i \in Asks("command") : Awaited(server.asked[i].no)
     /\ \A i, j \in Asks("command") : i = j
     /\ socket["command"].inbox # <<>> =>
          /\ Asks("command") = {}
          /\ Len(socket["command"].inbox) = 1 /\ Awaited(socket["command"].inbox[1])

Control ==
  /\ wpa.pc = "new" => opening.pc = "idle"
  /\ wpa.pc \in {"retry", "threw"} => opening.pc = "failed"
  /\ wpa.pc = "open" => opening.pc = "ok"
  /\ wpa.pc = "closing" => opening.pc \in {"ok", "failed"}
  /\ wpa.pc # "settle"
  /\ wpa.pc = "closing" <=> closing # "idle"
  /\ wpa.open <=> wpa.pc = "open"
  /\ opening.pc = "ok" => IF closing = "idle" THEN ~chan.closed ELSE chan.disconnected
  /\ opening.pc = "command" => ~chan.closed
  /\ wpa.keepAlive # "none" => wpa.pc \in {"open", "closing"} /\ opening.pc = "ok"
  /\ wpa.keepAlive # "ping" => caller[KeepAlive].pc = "idle"

\* Until OpenChannel() has been through, nobody has used the channel.
NotYet ==
  opening.pc # "ok" =>
    /\ Asks("command") = {} /\ ~socket["command"].open
    /\ mutex.owner = Nobody /\ \A c \in Callers : caller[c].pc = "idle"
    /\ reader = [pc |-> "none", event |-> NoEvent]
    /\ handler = [pc |-> "none", event |-> NoEvent]
    /\ chan.queue = <<>> /\ chan.threads = 0
    /\ history.read = 0 /\ history.handled = <<>> /\ ~history.threw

\* Behind its n-th entry, an inbox has the events from the k-th on, up to the last.
Numbered(inbox, events, n, k) ==
  /\ Len(inbox) + k = n + events
  /\ \A i \in 1..Len(inbox) : i > n => inbox[i] + n = MaxAsked + k + i
Mail(n, k) == Numbered(socket["event"].inbox, count.events, n, k)

\* The answer to ATTACH comes before the events, and is taken before them.
Unattached ==
  Asks("event") = {} /\ ~server.attached /\ count.events = 0 /\ socket["event"].inbox = <<>>
Attaching ==
  /\ server.attached => server.up
  /\ closing = "idle" /\ opening.pc \in {"idle", "event", "failed"} /\ ~socket["event"].open
       => Unattached
  /\ opening.pc = "attach" => Unattached
  /\ opening.pc \in {"attach", "answer", "command"} => socket["event"].open
  /\ opening.pc = "answer" =>
       \/ /\ socket["event"].inbox = <<>> /\ count.events = 0
          /\ server.attached => ~Connected("event")
          /\ \A i, j \in Asks("event") : i = j
       \/ socket["event"].inbox # <<>> /\ Mail(1, 0) /\ Asks("event") = {}
  /\ opening.pc \in {"command", "ok"} =>
        Asks("event") = {} /\ (socket["event"].open => Mail(0, history.read))

Done(worker) == worker.pc \in {"none", "ended"}
Busy(worker) == IF Done(worker) THEN 0 ELSE 1
Threads ==
  /\ chan.threads = Busy(reader) + Busy(handler)
  /\ closing \in {"command", "pump", "done"} => Done(reader) /\ Done(handler)
  /\ closing = "done" => \A c \in Callers : caller[c].pc = "idle"

\* The events from OnEvent() back to the reader are numbered on.
Held(worker) == IF worker.event = NoEvent THEN 0 ELSE 1
Taken == Len(history.handled) + Held(handler)
Passed == Taken + Len(chan.queue) + Held(reader)
InOrder ==
  /\ reader.pc = "push" <=> reader.event # NoEvent
  /\ handler.pc = "handle" <=> handler.event # NoEvent
  /\ \A i \in 1..Len(history.handled) : history.handled[i] = MaxAsked + i
  /\ handler.event # NoEvent => handler.event = MaxAsked + Len(history.handled) + 1
  /\ \A i \in 1..Len(chan.queue) : chan.queue[i] = MaxAsked + Taken + i
  /\ reader.event # NoEvent => reader.event = MaxAsked + Taken + Len(chan.queue) + 1

\* All that was read has passed through there, but for one when the queue was closed.
Disposed ==
  /\ history.threw => handler.pc = "ended"
  /\ \A i \in 1..Len(history.handled) :
       history.handled[i] \in history.deleted \/ (history.threw /\ i = Len(history.handled))
  /\ \/ Passed = history.read
     \/ /\ Passed + 1 = history.read /\ MaxAsked + history.read \in history.deleted
        /\ reader.pc \in {"leave", "ended"}

IInv == /\ Shape /\ Turns /\ Answering /\ AnswersMatch /\ Control /\ NotYet /\ Attaching
        /\ Threads /\ InOrder /\ Disposed

-----------------------------------------------------------------------------
(* From its parts to what it is for. *)

LEMMA Naturals == MaxAsked \in Nat /\ MaxEvents \in Nat /\ MaxServers \in Nat /\ 1 \in 0..MaxServers
  BY BoundsAssumption

LEMMA ShapeIsType == Shape => TypeOK
<1> SUFFICES ASSUME Shape PROVE TypeOK
  OBVIOUS
<1>1. CtrlTypeOK
  <2>1. \A s \in Sockets : socket[s] \in SocketType
    BY DEF Shape, SocketsFit
  <2> QED BY <2>1 DEF Shape, CtrlTypeOK, ServerType, SocketType, CountType
<1>2. \A c \in Callers : caller[c] \in CallerType
  BY DEF Shape
<1>3. ChannelTypeOK
  BY <1>1, <1>2 DEF Shape, ChannelTypeOK, ChanType, MutexType, CallerType, ReaderType,
     HandlerType, OpeningType
<1> QED BY <1>3 DEF Shape, TypeOK, WpaType

LEMMA NumberedOn ==
  ASSUME NEW s \in Seq(Nat), NEW t \in Seq(Nat), NEW n \in Nat,
         \A i \in 1..Len(s) : s[i] = n + i, \A i \in 1..Len(t) : t[i] = n + Len(s) + i
  PROVE  /\ s \o t \in Seq(Nat) /\ Len(s \o t) = Len(s) + Len(t)
         /\ \A i \in 1..Len(s \o t) : (s \o t)[i] = n + i
<1>1. /\ s \o t \in Seq(Nat) /\ Len(s \o t) = Len(s) + Len(t)
      /\ \A i \in 1 .. Len(s) + Len(t) : (s \o t)[i] = IF i <= Len(s) THEN s[i] ELSE t[i - Len(s)]
  BY ConcatProperties
<1>2. Len(s) \in Nat /\ Len(t) \in Nat
  OBVIOUS
<1>3. ASSUME NEW i \in 1 .. Len(s) + Len(t) PROVE (s \o t)[i] = n + i
  <2>1. CASE i <= Len(s)
    <3>1. i \in 1..Len(s)
      BY <1>2, <2>1
    <3> QED BY <1>1, <2>1, <3>1
  <2>2. CASE ~(i <= Len(s))
    <3>1. i - Len(s) \in 1..Len(t) /\ n + Len(s) + (i - Len(s)) = n + i
      BY <1>2, <2>2
    <3>2. (s \o t)[i] = t[i - Len(s)]
      BY <1>1, <2>2
    <3> QED BY <3>1, <3>2
  <2> QED BY <2>1, <2>2
<1> QED BY <1>1, <1>3

LEMMA Numbers ==
  ASSUME Shape
  PROVE  /\ Len(history.handled) \in Nat /\ Len(chan.queue) \in Nat /\ history.read \in Nat
         /\ Held(handler) \in 0..1 /\ Held(reader) \in 0..1
         /\ Taken \in Nat /\ Passed \in Nat
         /\ handler.event \in Nat /\ reader.event \in Nat /\ count.events \in Nat
<1>1. history.handled \in Seq(Nat) /\ chan.queue \in Seq(Nat)
  BY DEF Shape, HistoryType, ChanType
<1>2. /\ history.read \in Nat /\ handler.event \in Nat /\ reader.event \in Nat
      /\ count.events \in Nat
  BY Naturals DEF Shape, HistoryType, HandlerType, ReaderType, CountType
<1>3. Held(handler) \in 0..1 /\ Held(reader) \in 0..1
  BY DEF Held
<1>4. Len(history.handled) \in Nat /\ Len(chan.queue) \in Nat
  BY <1>1
<1>5. Taken \in Nat
  BY <1>3, <1>4 DEF Taken
<1>6. Passed \in Nat
  BY <1>3, <1>4, <1>5 DEF Passed
<1> QED BY <1>2, <1>3, <1>4, <1>5, <1>6

LEMMA PipelineIsInOrder ==
  ASSUME Shape, InOrder, Disposed
  PROVE  EventsAreKept
<1> DEFINE a == history.handled
           b == Having(handler)
           c == chan.queue
           d == Having(reader)
<1>1. /\ a \in Seq(Nat) /\ b \in Seq(Nat) /\ c \in Seq(Nat) /\ d \in Seq(Nat)
      /\ MaxAsked \in Nat /\ Len(a) \in Nat /\ Len(c) \in Nat
  BY Numbers, Naturals DEF Shape, HistoryType, ChanType, Having
<1>2. Len(b) = Held(handler) /\ Len(d) = Held(reader)
  BY DEF Having, Held
<1>3. \A i \in 1..Len(b) : b[i] = MaxAsked + Len(a) + i
  BY DEF Having, InOrder
<1>4. \A i \in 1..Len(d) : d[i] = MaxAsked + Taken + Len(c) + i
  BY DEF Having, InOrder
<1>5. (\A i \in 1..Len(a) : a[i] = MaxAsked + i) /\ \A i \in 1..Len(c) : c[i] = MaxAsked + Taken + i
  BY DEF InOrder
<1>6. Taken = Len(a) + Len(b) /\ Passed = Taken + Len(c) + Len(d)
  BY <1>2 DEF Taken, Passed
<1> HIDE DEF a, b, c, d
<1>7. /\ a \o b \in Seq(Nat) /\ Len(a \o b) = Taken
      /\ \A i \in 1..Len(a \o b) : (a \o b)[i] = MaxAsked + i
  BY <1>1, <1>3, <1>5, <1>6, NumberedOn
<1>8. /\ (a \o b) \o c \in Seq(Nat) /\ Len((a \o b) \o c) = Taken + Len(c)
      /\ \A i \in 1..Len((a \o b) \o c) : ((a \o b) \o c)[i] = MaxAsked + i
  <2>1. \A i \in 1..Len(c) : c[i] = MaxAsked + Len(a \o b) + i
    BY <1>5, <1>7
  <2> DEFINE ab == a \o b
  <2>2. ab \in Seq(Nat) /\ \A i \in 1..Len(ab) : ab[i] = MaxAsked + i
    BY <1>7
  <2>3. \A i \in 1..Len(c) : c[i] = MaxAsked + Len(ab) + i
    BY <2>1
  <2> HIDE DEF ab
  <2>4. /\ ab \o c \in Seq(Nat) /\ Len(ab \o c) = Len(ab) + Len(c)
        /\ \A i \in 1..Len(ab \o c) : (ab \o c)[i] = MaxAsked + i
    BY <1>1, <2>2, <2>3, NumberedOn
  <2> QED BY <1>7, <2>4 DEF ab
<1>9. \A i \in 1..Len(d) : d[i] = MaxAsked + (Taken + Len(c)) + i
  BY <1>1, <1>4, Numbers
<1>10. /\ Len(((a \o b) \o c) \o d) = Passed
       /\ \A i \in 1..Passed : (((a \o b) \o c) \o d)[i] = MaxAsked + i
  BY <1>1, <1>6, <1>8, <1>9, NumberedOn
<1>11. Pipeline = ((a \o b) \o c) \o d
  BY DEF Pipeline, a, b, c, d
<1>12. \A e \in MaxAsked + Passed + 1 .. MaxAsked + history.read : e \in history.deleted
  <2>1. CASE Passed = history.read
    BY <2>1, <1>1, Numbers
  <2>2. CASE Passed + 1 = history.read
    <3>1. \A e \in MaxAsked + Passed + 1 .. MaxAsked + history.read : e = MaxAsked + history.read
      <4> DEFINE r == history.read
                 p == Passed
      <4>1. MaxAsked \in Nat /\ r \in Nat /\ p \in Nat /\ p + 1 = r
        BY <2>2, <1>1, Numbers
      <4> HIDE DEF r, p
      <4>2. \A e \in MaxAsked + p + 1 .. MaxAsked + r : e = MaxAsked + r
        BY <4>1
      <4> QED BY <4>2 DEF r, p
    <3>2. Passed # history.read
      BY <2>2, Numbers
    <3> QED BY <3>1, <3>2 DEF Disposed
  <2> QED BY <2>1, <2>2 DEF Disposed
<1> QED BY <1>10, <1>11, <1>12 DEF EventsAreKept, Disposed

LEMMA NobodyIsLeft ==
  ASSUME Threads
  PROVE  NoUseAfterClose
  BY DEF Threads, Done, NoUseAfterClose

-----------------------------------------------------------------------------
(* The mutex. *)

LEMMA CallTakesATurn ==
  ASSUME Shape, Turns, NEW c \in Callers, caller[c].pc = "idle", NEW n \in Nat,
         NEW list \in BOOLEAN, Call(c, n, list)
  PROVE  /\ mutex' \in MutexType /\ caller' \in [Callers -> CallerType] /\ Turns'
         /\ \A d \in Callers : d # c => caller'[d] = caller[d]
         /\ caller'[c].pc \in {"send", "lock"}
<1> DEFINE pc == IF GetsMutex THEN "send" ELSE "lock"
           rec == [Idle EXCEPT !.pc = pc, !.left = n, !.list = list]
<1>1. rec \in CallerType /\ rec.pc = pc /\ pc \in {"send", "lock"}
  BY DEF Idle, CallerType
<1>2. caller \in [Callers -> CallerType] /\ caller' = [caller EXCEPT ![c] = rec]
  BY DEF Shape, Call
<1> HIDE DEF rec, pc
<1>3. /\ caller' \in [Callers -> CallerType]
      /\ \A d \in Callers : caller'[d] = IF d = c THEN rec ELSE caller[d]
  BY <1>1, <1>2
<1>4. /\ mutex \in MutexType /\ mutex.waiting \in Seq(Callers) /\ IsInjective(mutex.waiting)
      /\ c \notin Range(mutex.waiting) /\ mutex.owner # c
      /\ mutex' = IF GetsMutex THEN [mutex EXCEPT !.owner = c]
                  ELSE [mutex EXCEPT !.waiting = Append(@, c)]
  BY DEF Shape, MutexType, Turns, Requesting, Call
<1>5. CASE GetsMutex
  <2>1. /\ mutex' \in MutexType /\ mutex'.owner = c /\ mutex'.waiting = mutex.waiting
        /\ mutex.owner = Nobody /\ mutex.waiting = <<>> /\ pc = "send"
    BY <1>4, <1>5 DEF MutexType, GetsMutex, Turns, pc
  <2>2. Range(mutex.waiting) = {}
    BY <2>1, EmptyList
  <2>3. \A d \in Callers : caller[d].pc \notin {"send", "recv", "lock"}
    BY <2>1, <2>2, ChannelAssumption DEF Turns, Requesting
  <2>4. Turns'
    BY <1>1, <1>3, <1>4, <2>1, <2>2, <2>3, ChannelAssumption DEF Turns, Requesting
  <2> QED BY <1>1, <1>3, <2>1, <2>4
<1>6. CASE ~GetsMutex
  <2>1. /\ mutex'.owner = mutex.owner /\ mutex'.waiting = Append(mutex.waiting, c)
        /\ mutex.owner # Nobody /\ pc = "lock"
    BY <1>4, <1>6 DEF MutexType, GetsMutex, pc
  <2>2. /\ mutex'.waiting \in Seq(Callers) /\ IsInjective(mutex'.waiting)
        /\ Range(mutex'.waiting) = Range(mutex.waiting) \cup {c}
    BY <1>4, <2>1, ListWith
  <2>3. mutex' \in MutexType
    BY <1>4, <1>6, <2>1, <2>2 DEF MutexType
  <2>4. Turns'
    BY <1>1, <1>3, <1>4, <2>1, <2>2 DEF Turns, Requesting
  <2> QED BY <1>1, <1>3, <2>1, <2>3, <2>4
<1> QED BY <1>5, <1>6

LEMMA LeaveGivesItOn ==
  ASSUME Shape, Turns, NEW c \in Callers, Requesting(c),
         NEW result \in {"ok", "wrong", "failed"}, Leave(c, result)
  PROVE  /\ mutex' \in MutexType /\ caller' \in [Callers -> CallerType] /\ Turns'
         /\ \A d \in Callers : caller'[d].pc # "recv"
         /\ \A d \in Callers : caller[d].pc = "idle" => caller'[d].pc = "idle"
<1> DEFINE next == IF mutex.waiting = <<>> THEN Nobody ELSE Head(mutex.waiting)
           again == result = "ok" /\ caller[c].left > 1
           own == [Idle EXCEPT !.result = IF c = KeepAlive THEN result ELSE @]
           later == [caller[c] EXCEPT !.left = @ - 1,
                                      !.pc = IF next = Nobody THEN "send" ELSE "lock"]
           line == (IF next = Nobody THEN <<>> ELSE Tail(mutex.waiting)) \o
                   (IF again /\ next # Nobody THEN <<c>> ELSE <<>>)
<1>1. /\ mutex.owner = c /\ mutex.waiting \in Seq(Callers) /\ IsInjective(mutex.waiting)
      /\ c \notin Range(mutex.waiting) /\ c # Nobody /\ caller \in [Callers -> CallerType]
      /\ \A d \in Callers : d # c => caller[d].pc \in {"idle", "lock"}
      /\ \A d \in Callers : caller[d].pc = "lock" <=> d \in Range(mutex.waiting)
  BY ChannelAssumption DEF Shape, MutexType, CallerType, Turns, Requesting
<1>2. /\ mutex' = [owner |-> IF next = Nobody /\ again THEN c ELSE next, waiting |-> line]
      /\ caller' = [d \in Callers |-> IF d = c THEN IF again THEN later ELSE own
                                      ELSE IF d = next THEN [caller[d] EXCEPT !.pc = "send"]
                                      ELSE caller[d]]
  BY DEF Leave
<1>3. own \in CallerType /\ own.pc = "idle"
  BY DEF Idle, CallerType
<1>4. again => /\ later \in CallerType
               /\ later.pc = IF next = Nobody THEN "send" ELSE "lock"
  <2> DEFINE r == caller[c]
             pc == IF next = Nobody THEN "send" ELSE "lock"
  <2>1. r \in CallerType /\ pc \in {"send", "lock"}
    BY <1>1
  <2>2. later = [r EXCEPT !.left = r.left - 1, !.pc = pc] /\ (again => r.left > 1)
    BY <2>1 DEF CallerType
  <2> HIDE DEF r, pc, again, later
  <2>3. again => r.left - 1 \in Nat
    BY <2>1, <2>2 DEF CallerType
  <2>4. again => later \in CallerType /\ later.pc = pc
    BY <2>1, <2>2, <2>3 DEF CallerType
  <2> QED BY <2>4 DEF pc
<1>5. CASE mutex.waiting = <<>>
  <2>1. next = Nobody /\ line = <<>> \o <<>> /\ Range(mutex.waiting) = {}
    BY <1>5, EmptyList
  <2>2. line = <<>>
    BY <2>1
  <2> HIDE DEF line, own, later, next, again
  <2>3. /\ mutex'.owner = (IF again THEN c ELSE Nobody) /\ mutex'.waiting = <<>>
        /\ mutex' \in MutexType
    BY <1>2, <2>1, <2>2 DEF MutexType
  <2>4. \A d \in Callers : caller'[d] = IF d = c THEN IF again THEN later ELSE own
                                        ELSE caller[d]
    BY <1>2, <2>1, ChannelAssumption
  <2>5. caller' \in [Callers -> CallerType]
    BY <1>1, <1>2, <1>3, <1>4, <2>1, ChannelAssumption
  <2>6. \A d \in Callers : d # c => caller[d].pc = "idle"
    BY <1>1, <2>1
  <2>7. /\ caller'[c].pc = IF again THEN "send" ELSE "idle"
        /\ \A d \in Callers : d # c => caller'[d].pc = "idle"
    BY <1>3, <1>4, <2>1, <2>4, <2>6
  <2>8. Turns'
    BY <1>1, <2>3, <2>7, EmptyList, ChannelAssumption DEF Turns, Requesting
  <2> QED BY <1>1, <2>3, <2>5, <2>7, <2>8 DEF Requesting
<1>6. CASE mutex.waiting # <<>>
  <2> DEFINE rest == Tail(mutex.waiting)
             head == Head(mutex.waiting)
  <2>1. /\ next = head /\ head \in Callers /\ head \in Range(mutex.waiting) /\ head # Nobody
        /\ rest \in Seq(Callers) /\ IsInjective(rest) /\ Range(rest) = Range(mutex.waiting) \ {head}
    BY <1>1, <1>6, ListTail, ChannelAssumption
  <2>2. line = IF again THEN Append(rest, c) ELSE rest
    <3>1. line = rest \o (IF again THEN <<c>> ELSE <<>>)
      BY <2>1
    <3> HIDE DEF rest, again, line
    <3>2. rest \o <<c>> = Append(rest, c) /\ rest \o <<>> = rest
      BY <2>1
    <3> QED BY <3>1, <3>2
  <2> HIDE DEF rest, head, line, own, later, next, again
  <2>3. /\ line \in Seq(Callers) /\ IsInjective(line)
        /\ Range(line) = (Range(mutex.waiting) \ {head}) \cup (IF again THEN {c} ELSE {})
    <3>1. c \notin Range(rest)
      BY <1>1, <2>1
    <3>2. /\ Append(rest, c) \in Seq(Callers) /\ IsInjective(Append(rest, c))
          /\ Range(Append(rest, c)) = Range(rest) \cup {c}
      BY <2>1, <3>1, ListWith
    <3> QED BY <2>1, <2>2, <3>2
  <2>4. mutex'.owner = head /\ mutex'.waiting = line /\ mutex' \in MutexType
    BY <1>2, <2>1, <2>3 DEF MutexType
  <2>5. head # c /\ caller[head].pc = "lock"
    BY <1>1, <2>1
  <2>6. [caller[head] EXCEPT !.pc = "send"] \in CallerType
    <3>1. caller[head] \in CallerType
      BY <1>1, <2>1
    <3> QED BY <3>1 DEF CallerType
  <2>7. \A d \in Callers : caller'[d] = IF d = c THEN IF again THEN later ELSE own
                                        ELSE IF d = head THEN [caller[d] EXCEPT !.pc = "send"]
                                        ELSE caller[d]
    BY <1>2, <2>1
  <2>8. caller' \in [Callers -> CallerType]
    BY <1>1, <1>2, <1>3, <1>4, <2>1, <2>6
  <2>9. /\ caller'[c].pc = (IF again THEN "lock" ELSE "idle") /\ caller'[head].pc = "send"
        /\ \A d \in Callers : d # c /\ d # head => caller'[d].pc = caller[d].pc
    <3>1. caller[head] \in CallerType
      BY <1>1, <2>1
    <3>2. [caller[head] EXCEPT !.pc = "send"].pc = "send"
      BY <3>1 DEF CallerType
    <3> QED BY <1>3, <1>4, <2>1, <2>5, <2>7, <3>2
  <2>10. Turns'
    <3>1. \A d \in Callers : Requesting(d)' <=> d = head
      BY <1>1, <2>1, <2>5, <2>9 DEF Requesting
    <3>2. \A d \in Callers : caller'[d].pc = "lock" <=> d \in Range(line)
      BY <1>1, <2>3, <2>5, <2>9
    <3> QED BY <2>1, <2>3, <2>4, <3>1, <3>2 DEF Turns, Requesting
  <2>11. \A d \in Callers : caller'[d].pc # "recv"
    BY <1>1, <2>9
  <2>12. \A d \in Callers : caller[d].pc = "idle" => caller'[d].pc = "idle"
    BY <1>1, <2>5, <2>9 DEF Requesting
  <2> QED BY <2>4, <2>8, <2>10, <2>11, <2>12
<1> QED BY <1>5, <1>6

-----------------------------------------------------------------------------
(* The sockets. *)

LEMMA OneMoreAsked ==
  ASSUME Shape, NEW s \in Sockets, Ask(s)
  PROVE  /\ server' \in ServerType /\ count' \in CountType /\ count'.events = count.events
         /\ count.asked + 1 \in 1..MaxAsked
         /\ server'.up = server.up /\ server'.id = server.id /\ server'.attached = server.attached
         /\ \A t \in Sockets : Asks(t)' = IF t = s THEN Asks(t) \cup {Len(server.asked) + 1}
                                          ELSE Asks(t)
         /\ \A i \in DOMAIN server.asked : server'.asked[i] = server.asked[i]
         /\ server'.asked[Len(server.asked) + 1].no = count.asked + 1
<1> DEFINE e == [no |-> count.asked + 1, socket |-> s]
           asked == server.asked
<1>1. /\ count.asked + 1 \in 1..MaxAsked /\ count' \in CountType /\ count'.events = count.events
  BY Naturals DEF Ask, Shape, CountType
<1>2. e \in [no : 1..MaxAsked, socket : Sockets] /\ e.no = count.asked + 1 /\ e.socket = s
  BY <1>1
<1>3. /\ server \in ServerType /\ asked \in Seq([no : 1..MaxAsked, socket : Sockets])
      /\ server' = [server EXCEPT !.asked = Append(asked, e)]
  BY DEF Ask, Shape, ServerType
<1> HIDE DEF e, asked
<1>4. /\ Append(asked, e) \in Seq([no : 1..MaxAsked, socket : Sockets])
      /\ DOMAIN Append(asked, e) = DOMAIN asked \cup {Len(asked) + 1}
      /\ \A i \in DOMAIN asked : Append(asked, e)[i] = asked[i]
      /\ Append(asked, e)[Len(asked) + 1] = e /\ Len(asked) + 1 \notin DOMAIN asked
  BY <1>2, <1>3
<1>5. /\ server' \in ServerType /\ server'.asked = Append(asked, e)
      /\ server'.up = server.up /\ server'.id = server.id /\ server'.attached = server.attached
  BY <1>3, <1>4 DEF ServerType
<1>6. \A t \in Sockets : Asks(t)' = IF t = s THEN Asks(t) \cup {Len(asked) + 1} ELSE Asks(t)
  BY <1>2, <1>4, <1>5 DEF Asks, asked
<1> QED BY <1>1, <1>2, <1>4, <1>5, <1>6 DEF asked

\* The first one is answered, and the others move up.
LEMMA OneLessAsked ==
  ASSUME Shape, server.asked # <<>>
  PROVE  /\ Tail(server.asked) \in Seq([no : 1..MaxAsked, socket : Sockets])
         /\ Head(server.asked) \in [no : 1..MaxAsked, socket : Sockets]
         /\ Head(server.asked) = server.asked[1] /\ 1 \in Asks(Head(server.asked).socket)
         /\ \A i \in DOMAIN Tail(server.asked) :
              /\ i \in Nat /\ i # 0 /\ i + 1 \in DOMAIN server.asked
              /\ Tail(server.asked)[i] = server.asked[i + 1]
<1>1. server.asked \in Seq([no : 1..MaxAsked, socket : Sockets])
  BY DEF Shape, ServerType
<1> DEFINE asked == server.asked
           S == [no : 1..MaxAsked, socket : Sockets]
<1>2. asked \in Seq(S) /\ asked # <<>>
  BY <1>1
<1> HIDE DEF S
<1>3. /\ Tail(asked) \in Seq(S) /\ Head(asked) \in S /\ Head(asked) = asked[1]
      /\ 1 \in DOMAIN asked
      /\ \A i \in DOMAIN Tail(asked) : /\ i \in Nat /\ i # 0 /\ i + 1 \in DOMAIN asked
                                      /\ Tail(asked)[i] = asked[i + 1]
  <2> HIDE DEF asked
  <2> QED BY <1>2
<1> QED BY <1>3 DEF Asks, S

LEMMA SocketChanges ==
  ASSUME Shape, NEW s \in Sockets, NEW r \in SocketType, socket' = [socket EXCEPT ![s] = r],
         r.open \/ r.inbox = <<>>
  PROVE  /\ SocketsFit' /\ socket'[s] = r
         /\ \A t \in Sockets : t # s => socket'[t] = socket[t]
  BY DEF Shape, SocketsFit

LEMMA Delivered ==
  ASSUME Shape, NEW s \in Sockets, NEW no \in 1..(MaxAsked + MaxEvents), socket[s].open,
         socket' = Deliver(s, no)
  PROVE  /\ SocketsFit' /\ socket'[s].inbox = Append(socket[s].inbox, no)
         /\ socket'[s].open /\ socket'[s].server = socket[s].server
         /\ \A t \in Sockets : t # s => socket'[t] = socket[t]
<1> DEFINE r == [socket[s] EXCEPT !.inbox = Append(socket[s].inbox, no)]
<1>1. socket \in [Sockets -> SocketType] /\ socket[s] \in SocketType
  BY DEF Shape, SocketsFit
<1>2. /\ r \in SocketType /\ r.open /\ r.server = socket[s].server
      /\ r.inbox = Append(socket[s].inbox, no)
  <2> DEFINE o == socket[s]
  <2>1. o.inbox \in Seq(1..(MaxAsked + MaxEvents)) /\ o \in SocketType /\ o.open
    BY <1>1 DEF SocketType
  <2>2. Append(o.inbox, no) \in Seq(1..(MaxAsked + MaxEvents))
    BY <2>1
  <2> HIDE DEF o
  <2> QED BY <2>1, <2>2 DEF SocketType, o
<1>3. socket' = [socket EXCEPT ![s] = r]
  BY <1>1 DEF Deliver
<1> HIDE DEF r
<1> QED BY <1>2, <1>3, SocketChanges

LEMMA MailTaken ==
  ASSUME Shape, NEW s \in Sockets, HasMail(s), TakeMail(s)
  PROVE  /\ SocketsFit' /\ socket'[s].inbox = Tail(socket[s].inbox)
         /\ socket'[s].open /\ socket[s].open /\ socket'[s].server = socket[s].server
         /\ \A t \in Sockets : t # s => socket'[t] = socket[t]
         /\ socket[s].inbox \in Seq(Nat)
<1> DEFINE r == [socket[s] EXCEPT !.inbox = Tail(socket[s].inbox)]
<1>1. /\ socket \in [Sockets -> SocketType] /\ socket[s] \in SocketType /\ socket[s].inbox # <<>>
      /\ socket[s].open
  BY DEF Shape, SocketsFit, HasMail
<1>2. /\ r \in SocketType /\ r.open /\ r.server = socket[s].server
      /\ r.inbox = Tail(socket[s].inbox)
  <2> DEFINE o == socket[s]
  <2>1. /\ o.inbox \in Seq(1..(MaxAsked + MaxEvents)) /\ o.inbox # <<>>
        /\ o \in SocketType /\ o.open
    BY <1>1 DEF SocketType
  <2>2. Tail(o.inbox) \in Seq(1..(MaxAsked + MaxEvents))
    <3> DEFINE N == 1..(MaxAsked + MaxEvents)
    <3>1. o.inbox \in Seq(N) /\ o.inbox # <<>>
      BY <2>1
    <3> HIDE DEF N, o
    <3>2. Tail(o.inbox) \in Seq(N)
      BY <3>1
    <3> QED BY <3>2 DEF N
  <2> HIDE DEF o
  <2> QED BY <2>1, <2>2 DEF SocketType, o
<1>3. socket' = [socket EXCEPT ![s] = r]
  BY <1>1 DEF TakeMail
<1> HIDE DEF r
<1>4. socket[s].inbox \in Seq(Nat)
  <2>1. socket[s].inbox \in Seq(1..(MaxAsked + MaxEvents))
    BY <1>1 DEF SocketType
  <2> QED BY <2>1, Naturals
<1> QED BY <1>1, <1>2, <1>3, <1>4, SocketChanges

LEMMA SocketCloses ==
  ASSUME Shape, NEW s \in Sockets, Closed(s)
  PROVE  /\ SocketsFit' /\ ~socket'[s].open /\ socket'[s].inbox = <<>>
         /\ \A t \in Sockets : t # s => socket'[t] = socket[t]
<1>1. NoSocket \in SocketType /\ ~NoSocket.open /\ NoSocket.inbox = <<>>
  BY Naturals DEF NoSocket, SocketType
<1> HIDE DEF NoSocket
<1> QED BY <1>1, SocketChanges DEF Closed

LEMMA SocketOpens ==
  ASSUME Shape, NEW s \in Sockets, Opened(s)
  PROVE  /\ SocketsFit' /\ lost' \in Nat
         /\ IF OpenResult(s) = "ok"
            THEN /\ ~socket[s].open /\ socket'[s].open /\ socket'[s].inbox = <<>>
                 /\ \A t \in Sockets : t # s => socket'[t] = socket[t]
            ELSE socket' = socket
<1>1. lost' \in Nat
  BY DEF Shape, Opened
<1>2. CASE OpenResult(s) = "ok"
  <2> DEFINE r == [NoSocket EXCEPT !.open = TRUE, !.server = server.id]
  <2>1. r \in SocketType /\ r.open /\ r.inbox = <<>>
    <3>1. server.id \in 0..MaxServers /\ <<>> \in Seq(1..(MaxAsked + MaxEvents))
      BY DEF Shape, ServerType
    <3>2. NoSocket \in SocketType /\ NoSocket.inbox = <<>>
      BY <3>1, Naturals DEF SocketType, NoSocket
    <3> QED BY <3>1, <3>2 DEF SocketType
  <2>2. socket' = [socket EXCEPT ![s] = r] /\ ~socket[s].open
    BY <1>2 DEF Opened, OpenResult
  <2> HIDE DEF r
  <2> QED BY <1>1, <1>2, <2>1, <2>2, SocketChanges
<1>3. CASE OpenResult(s) # "ok"
  BY <1>1, <1>3 DEF Opened, Shape, SocketsFit
<1> QED BY <1>2, <1>3

-----------------------------------------------------------------------------
(* Steps that do not touch what a part of the invariant is about. *)

LEMMA AnsweringStays ==
  ASSUME Answering,
         UNCHANGED <<server.asked, socket["command"], caller, history.timedOut>>
  PROVE  Answering'
  BY DEF Answering, Asks, Awaited

LEMMA ControlStays ==
  ASSUME Control, caller[KeepAlive].pc = "idle" => caller'[KeepAlive].pc = "idle",
         UNCHANGED <<wpa, opening.pc, closing, chan.closed, chan.disconnected>>
  PROVE  Control'
  BY DEF Control

LEMMA NotYetStays ==
  ASSUME NotYet, opening'.pc # "ok" => opening.pc # "ok",
         UNCHANGED <<server.asked, socket["command"].open, mutex, caller, reader, handler,
                     chan.queue, chan.threads, history.read, history.handled, history.threw>>
  PROVE  NotYet'
  BY DEF NotYet, Asks

LEMMA AttachingStays ==
  ASSUME Attaching, Asks("event") = {} => Asks("event")' = {},
         (\A i, j \in Asks("event") : i = j) => \A i, j \in Asks("event")' : i = j,
         UNCHANGED <<closing, opening.pc, socket["event"], server.up, server.id,
                     server.attached, count.events, history.read>>
  PROVE  Attaching'
  BY DEF Attaching, Unattached, Mail, Numbered, Connected

LEMMA ThreadsStay ==
  ASSUME Threads, \A c \in Callers : caller[c].pc = "idle" => caller'[c].pc = "idle",
         UNCHANGED <<chan.threads, reader.pc, handler.pc, closing>>
  PROVE  Threads'
  BY DEF Threads, Busy, Done

LEMMA EventsStay ==
  ASSUME InOrder, Disposed,
         UNCHANGED <<reader, handler, chan.queue, history.read, history.handled,
                     history.deleted, history.threw>>
  PROVE  InOrder' /\ Disposed'
<1>1. Held(handler)' = Held(handler) /\ Held(reader)' = Held(reader)
  BY DEF Held
<1>2. Taken' = Taken /\ Passed' = Passed
  BY <1>1 DEF Taken, Passed
<1> QED BY <1>2 DEF InOrder, Disposed

-----------------------------------------------------------------------------
(* Requests. *)

LEMMA InUse ==
  ASSUME NotYet, NEW c \in Callers, caller[c].pc # "idle"
  PROVE  opening.pc = "ok"
  BY DEF NotYet

LEMMA RestOfRequest ==
  ASSUME IInv, opening.pc = "ok", Asks("event")' = Asks("event"),
         \A d \in Callers : caller[d].pc = "idle" => caller'[d].pc = "idle",
         UNCHANGED <<chan, reader, handler, opening, closing, wpa, socket["event"], server.up,
                     server.id, server.attached, count.events, history.read, history.handled,
                     history.deleted, history.threw>>
  PROVE  Control' /\ NotYet' /\ Attaching' /\ Threads' /\ InOrder' /\ Disposed'
<1>1. Control'
  BY ControlStays, ChannelAssumption DEF IInv
<1>2. NotYet'
  BY DEF NotYet
<1>3. Attaching'
  BY AttachingStays DEF IInv
<1>4. Threads'
  BY ThreadsStay DEF IInv
<1>5. InOrder' /\ Disposed'
  BY EventsStay DEF IInv
<1> QED BY <1>1, <1>2, <1>3, <1>4, <1>5

\* Who may send is not waiting for an answer, nor is anybody else.
LEMMA NothingIsAwaited ==
  ASSUME Turns, NEW c \in Callers, caller[c].pc = "send"
  PROVE  \A no : ~Awaited(no)
  BY DEF Turns, Requesting, Awaited

LEMMA SendKeeps ==
  ASSUME IInv, NEW c \in Callers, Send(c), UNCHANGED wpa
  PROVE  IInv'
<1> USE DEF IInv
<1> DEFINE no == count.asked + 1
           n == Len(server.asked) + 1
<1>1. /\ caller[c].pc = "send" /\ Ask("command") /\ "command" \in Sockets /\ "event" \in Sockets
      /\ caller' = [caller EXCEPT ![c].pc = "recv", ![c].no = no]
      /\ UNCHANGED <<socket, lost, chan, mutex, reader, handler, opening, closing, history, wpa>>
      /\ opening.pc = "ok"
  BY InUse DEF Send, Sockets
<1>2. /\ server' \in ServerType /\ count' \in CountType /\ count'.events = count.events
      /\ no \in 1..MaxAsked /\ server'.up = server.up /\ server'.id = server.id
      /\ server'.attached = server.attached /\ Asks("event")' = Asks("event")
      /\ Asks("command")' = Asks("command") \cup {n} /\ server'.asked[n].no = no
  BY <1>1, OneMoreAsked
<1>3. /\ caller' \in [Callers -> CallerType]
      /\ caller'[c].pc = "recv" /\ caller'[c].no = no
      /\ \A d \in Callers : d # c => caller'[d] = caller[d]
  <2> DEFINE r == [caller[c] EXCEPT !.pc = "recv", !.no = no]
  <2>1. caller \in [Callers -> CallerType] /\ caller[c] \in CallerType /\ no \in Nat
    BY <1>2 DEF Shape
  <2> HIDE DEF no
  <2>2. r \in CallerType /\ r.pc = "recv" /\ r.no = no
    BY <2>1 DEF CallerType
  <2>3. caller' = [caller EXCEPT ![c] = r]
    BY <1>1, <2>1 DEF CallerType
  <2> HIDE DEF r
  <2> QED BY <2>1, <2>2, <2>3
<1> HIDE DEF no, n
<1>4. Shape'
  BY <1>1, <1>2, <1>3 DEF Shape, SocketsFit
<1>5. Turns'
  BY <1>1, <1>3 DEF Turns, Requesting
<1>6. Answering'
  <2>1. SUFFICES ASSUME ~history.timedOut, socket["command"].open PROVE Answering'
    BY <1>1 DEF Answering
  <2>2. Asks("command") = {} /\ socket["command"].inbox = <<>>
    BY <1>1, <2>1, NothingIsAwaited DEF Answering
  <2>3. Asks("command")' = {n}
    BY <1>2, <2>2
  <2>4. \E d \in Callers : caller'[d].pc = "recv" /\ caller'[d].no = server'.asked[n].no
    BY <1>2, <1>3
  <2> QED BY <1>1, <2>2, <2>3, <2>4 DEF Answering, Awaited
<1>7. AnswersMatch'
  BY <1>1 DEF AnswersMatch
<1>8. \A d \in Callers : caller[d].pc = "idle" => caller'[d].pc = "idle"
  BY <1>1, <1>3
<1> QED BY <1>1, <1>2, <1>4, <1>5, <1>6, <1>7, <1>8, RestOfRequest

\* Who leaves, on time or not, leaves nothing behind that somebody else could take.
LEMMA LeaveKeeps ==
  ASSUME IInv, NEW c \in Callers, Requesting(c), NEW result \in {"ok", "wrong", "failed"},
         Leave(c, result), history' \in HistoryType, SocketsFit',
         AnswersMatch', history.timedOut => history'.timedOut,
         \/ history'.timedOut \/ ~socket["command"].open
         \/ socket'["command"].inbox = <<>> /\ Asks("command") = {},
         UNCHANGED <<server, count, lost, chan, reader, handler, opening, closing, wpa,
                     socket["event"], socket["command"].open, history.read, history.handled,
                     history.deleted, history.threw>>
  PROVE  IInv'
<1>1. /\ mutex' \in MutexType /\ caller' \in [Callers -> CallerType] /\ Turns'
      /\ \A d \in Callers : caller'[d].pc # "recv"
      /\ \A d \in Callers : caller[d].pc = "idle" => caller'[d].pc = "idle"
  BY LeaveGivesItOn DEF IInv
<1>2. Shape'
  BY <1>1 DEF IInv, Shape
<1>3. Answering'
  BY DEF Answering, Asks
<1>4. opening.pc = "ok" /\ Asks("event")' = Asks("event")
  BY InUse DEF IInv, Requesting, Asks
<1> QED BY <1>1, <1>2, <1>3, <1>4, RestOfRequest DEF IInv

LEMMA SendFailsKeeps ==
  ASSUME IInv, NEW c \in Callers, SendFails(c), UNCHANGED wpa
  PROVE  IInv'
<1>1. \/ Asks("command") = {} /\ socket["command"].inbox = <<>>
      \/ history.timedOut \/ ~socket["command"].open
  BY NothingIsAwaited DEF IInv, SendFails, Answering
<1> QED BY <1>1, LeaveKeeps DEF SendFails, Requesting, IInv, Shape, SocketsFit, ctrlVars,
        AnswersMatch

LEMMA TimesOutKeeps ==
  ASSUME IInv, NEW c \in Callers, ReceiveTimesOut(c), UNCHANGED wpa
  PROVE  IInv'
<1>1. history' \in HistoryType /\ history'.timedOut
      /\ UNCHANGED <<history.read, history.handled, history.deleted, history.threw>>
  BY DEF IInv, Shape, HistoryType, ReceiveTimesOut
<1> QED BY <1>1, LeaveKeeps DEF ReceiveTimesOut, Requesting, IInv, Shape, SocketsFit, ctrlVars,
        AnswersMatch

LEMMA ReceiveFailsKeeps ==
  ASSUME IInv, NEW c \in Callers, ReceiveFails(c), UNCHANGED wpa
  PROVE  IInv'
  BY LeaveKeeps DEF ReceiveFails, Requesting, IInv, Shape, SocketsFit, ctrlVars, AnswersMatch

LEMMA ReceiveKeeps ==
  ASSUME IInv, NEW c \in Callers, Receive(c), UNCHANGED wpa
  PROVE  IInv'
<1> USE DEF IInv
<1> DEFINE own == Head(socket["command"].inbox) = caller[c].no
<1>1. /\ caller[c].pc = "recv" /\ HasMail("command") /\ TakeMail("command")
      /\ history' = [history EXCEPT !.foreign = @ \/ ~own]
      /\ UNCHANGED <<server, count, lost, chan, reader, handler, opening, closing, wpa>>
      /\ "command" \in Sockets /\ "event" \in Sockets /\ opening.pc = "ok" /\ Requesting(c)
  BY InUse DEF Receive, Sockets, Requesting
<1>2. /\ SocketsFit' /\ socket'["command"].inbox = Tail(socket["command"].inbox)
      /\ socket'["command"].open /\ socket["command"].open
      /\ socket'["event"] = socket["event"] /\ socket["command"].inbox \in Seq(Nat)
      /\ socket["command"].inbox # <<>>
  BY <1>1, MailTaken DEF HasMail
<1>3. /\ history' \in HistoryType /\ history'.timedOut = history.timedOut
      /\ history'.foreign = (history.foreign \/ ~own)
      /\ UNCHANGED <<history.read, history.handled, history.deleted, history.threw>>
  <2>1. own \in BOOLEAN /\ history \in HistoryType
    BY DEF Shape
  <2> HIDE DEF own
  <2> QED BY <1>1, <2>1 DEF HistoryType
<1>4. ~history.timedOut => /\ own /\ socket'["command"].inbox = <<>> /\ Asks("command") = {}
  <2> SUFFICES ASSUME ~history.timedOut
               PROVE  own /\ socket'["command"].inbox = <<>> /\ Asks("command") = {}
    OBVIOUS
  <2>1. /\ Asks("command") = {} /\ Len(socket["command"].inbox) = 1
        /\ Awaited(socket["command"].inbox[1])
    BY <1>2 DEF Answering
  <2>2. \A d \in Callers : caller[d].pc = "recv" => d = c
    BY <1>1, ChannelAssumption DEF Turns, Requesting
  <2>3. caller[c].no = socket["command"].inbox[1]
    BY <2>1, <2>2 DEF Awaited
  <2>4. /\ Head(socket["command"].inbox) = socket["command"].inbox[1]
        /\ Tail(socket["command"].inbox) = <<>>
    <3> DEFINE inbox == socket["command"].inbox
    <3>1. inbox \in Seq(Nat) /\ inbox # <<>> /\ Len(inbox) = 1
      BY <1>2, <2>1
    <3> HIDE DEF inbox
    <3>2. Head(inbox) = inbox[1]
      BY <3>1
    <3>3. Tail(inbox) \in Seq(Nat) /\ Len(Tail(inbox)) = 0
      BY <3>1, HeadTailProperties
    <3>4. Tail(inbox) = <<>>
      BY <3>3, EmptySeq
    <3> QED BY <3>2, <3>4 DEF inbox
  <2> QED BY <1>2, <2>1, <2>3, <2>4
<1>5. AnswersMatch'
  BY <1>3, <1>4 DEF AnswersMatch
<1>6. CASE caller[c].list /\ caller[c].left > 1
  <2>1. caller' = [caller EXCEPT ![c].pc = "send", ![c].left = @ - 1] /\ UNCHANGED mutex
    BY <1>6 DEF Receive
  <2>2. /\ caller' \in [Callers -> CallerType] /\ caller'[c].pc = "send"
        /\ \A d \in Callers : d # c => caller'[d] = caller[d]
    <3> DEFINE r == [caller[c] EXCEPT !.pc = "send", !.left = caller[c].left - 1]
    <3>1. caller \in [Callers -> CallerType] /\ caller[c] \in CallerType
      BY DEF Shape
    <3>2. caller[c].left - 1 \in Nat
      BY <1>6, <3>1 DEF CallerType
    <3>3. r \in CallerType /\ r.pc = "send"
      BY <3>1, <3>2 DEF CallerType
    <3>4. caller' = [caller EXCEPT ![c] = r]
      BY <2>1, <3>1 DEF CallerType
    <3> HIDE DEF r
    <3> QED BY <3>1, <3>3, <3>4
  <2>3. Shape'
    BY <1>1, <1>2, <1>3, <2>1, <2>2 DEF Shape
  <2>4. Turns'
    BY <1>1, <2>1, <2>2 DEF Turns, Requesting
  <2>5. Answering'
    BY <1>1, <1>3, <1>4 DEF Answering, Asks
  <2>6. \A d \in Callers : caller[d].pc = "idle" => caller'[d].pc = "idle"
    BY <1>1, <2>2
  <2>7. Asks("event")' = Asks("event")
    BY <1>1 DEF Asks
  <2> QED BY <1>1, <1>2, <1>3, <1>5, <2>3, <2>4, <2>5, <2>6, <2>7, RestOfRequest
<1>7. CASE ~(caller[c].list /\ caller[c].left > 1)
  <2> DEFINE result == IF own THEN "ok" ELSE "wrong"
  <2>1. Leave(c, result) /\ result \in {"ok", "wrong", "failed"}
    BY <1>7 DEF Receive
  <2> HIDE DEF result
  <2> QED BY <1>1, <1>2, <1>3, <1>4, <1>5, <2>1, LeaveKeeps
<1> QED BY <1>6, <1>7

\* A new request, of one who may make it: KeepAliveProc() or a user of the open channel.
LEMMA CallKeeps ==
  ASSUME IInv, NEW c \in Callers, caller[c].pc = "idle", NEW n \in Nat, NEW list \in BOOLEAN,
         Call(c, n, list), opening.pc = "ok", closing # "done", wpa' \in WpaType, Control',
         UNCHANGED <<ctrlVars, chan, reader, handler, opening, closing, history>>
  PROVE  IInv'
<1> USE DEF IInv, ctrlVars
<1>1. /\ mutex' \in MutexType /\ caller' \in [Callers -> CallerType] /\ Turns'
      /\ \A d \in Callers : d # c => caller'[d] = caller[d]
      /\ caller'[c].pc \in {"send", "lock"}
  BY CallTakesATurn
<1>2. Shape'
  BY <1>1 DEF Shape, SocketsFit
<1>3. Answering'
  <2>1. \A no : Awaited(no) => Awaited(no)'
    BY <1>1 DEF Awaited
  <2> QED BY <2>1 DEF Answering, Asks
<1>4. AnswersMatch' /\ NotYet'
  BY DEF AnswersMatch, NotYet
<1>5. Attaching'
  BY AttachingStays DEF Asks
<1>6. Threads'
  BY DEF Threads, Busy, Done
<1>7. InOrder' /\ Disposed'
  BY EventsStay
<1> QED BY <1>1, <1>2, <1>3, <1>4, <1>5, <1>6, <1>7

LEMMA RequestKeeps ==
  ASSUME IInv, NEW c \in Callers, NEW n \in Nat, NEW list \in BOOLEAN, Request(c, n, list)
  PROVE  IInv'
<1>1. /\ wpa.open /\ c # KeepAlive /\ caller[c].pc = "idle" /\ Call(c, n, list)
      /\ UNCHANGED <<ctrlVars, chan, reader, handler, opening, closing, history, wpa>>
  BY DEF Request
<1>2. opening.pc = "ok" /\ closing # "done"
  BY <1>1 DEF IInv, Control
<1>3. \A d \in Callers : d # c => caller'[d] = caller[d]
  BY <1>1, CallTakesATurn DEF IInv
<1>4. Control'
  BY <1>1, <1>3, ControlStays, ChannelAssumption DEF IInv
<1> QED BY <1>1, <1>2, <1>4, CallKeeps DEF IInv, Shape

-----------------------------------------------------------------------------
(* wpa_supplicant. *)

LEMMA OneMoreEvent ==
  ASSUME NEW inbox \in Seq(Nat), NEW events \in Nat, NEW n \in Nat, NEW k \in Nat,
         Numbered(inbox, events, n, k)
  PROVE  Numbered(Append(inbox, MaxAsked + events + 1), events + 1, n, k)
<1> DEFINE more == Append(inbox, MaxAsked + events + 1)
<1>1. /\ Len(inbox) \in Nat /\ Len(more) = Len(inbox) + 1 /\ MaxAsked \in Nat
      /\ \A i \in 1..Len(inbox) : more[i] = inbox[i]
      /\ more[Len(inbox) + 1] = MaxAsked + events + 1
  BY Naturals
<1> HIDE DEF more
<1>2. Len(inbox) + k = n + events
  BY DEF Numbered
<1>3. ASSUME NEW i \in 1..Len(more), i > n PROVE more[i] + n = MaxAsked + k + i
  <2>1. CASE i \in 1..Len(inbox)
    BY <1>1, <1>3, <2>1 DEF Numbered
  <2>2. CASE i = Len(inbox) + 1
    <3> DEFINE l == Len(inbox)
    <3>1. l \in Nat /\ MaxAsked \in Nat /\ l + k = n + events
      BY <1>1, <1>2
    <3>2. more[i] = MaxAsked + events + 1 /\ i = l + 1
      BY <1>1, <2>2
    <3> HIDE DEF l
    <3> QED BY <3>1, <3>2
  <2> QED BY <1>1, <2>1, <2>2
<1> QED BY <1>1, <1>2, <1>3 DEF Numbered, more

LEMMA OneEventTaken ==
  ASSUME NEW inbox \in Seq(Nat), inbox # <<>>, NEW events \in Nat, NEW k \in Nat
  PROVE  /\ Numbered(inbox, events, 0, k) =>
              /\ Numbered(Tail(inbox), events, 0, k + 1)
              /\ Head(inbox) = MaxAsked + k + 1
         /\ Numbered(inbox, events, 1, k) => Numbered(Tail(inbox), events, 0, k)
<1> DEFINE rest == Tail(inbox)
<1>1. /\ Len(inbox) \in Nat /\ Len(inbox) # 0 /\ Len(rest) = Len(inbox) - 1 /\ MaxAsked \in Nat
      /\ \A i \in 1..Len(rest) : i + 1 \in 1..Len(inbox) /\ rest[i] = inbox[i + 1]
      /\ Head(inbox) = inbox[1] /\ 1 \in 1..Len(inbox) /\ \A i \in 1..Len(inbox) : inbox[i] \in Nat
  BY Naturals
<1> HIDE DEF rest
<1>2. ASSUME Numbered(inbox, events, 0, k)
      PROVE  Numbered(rest, events, 0, k + 1) /\ inbox[1] = MaxAsked + k + 1
  <2>1. \A i \in 1..Len(inbox) : inbox[i] = MaxAsked + k + i
    <3> TAKE i \in 1..Len(inbox)
    <3>1. i > 0 /\ inbox[i] \in Nat
      BY <1>1
    <3>2. inbox[i] + 0 = MaxAsked + k + i
      BY <1>2, <3>1 DEF Numbered
    <3> QED BY <3>1, <3>2
  <2>2. \A i \in 1..Len(rest) : rest[i] + 0 = MaxAsked + (k + 1) + i
    <3> TAKE i \in 1..Len(rest)
    <3>1. rest[i] = inbox[i + 1] /\ i + 1 \in 1..Len(inbox)
      BY <1>1
    <3>2. rest[i] = MaxAsked + k + (i + 1)
      BY <2>1, <3>1
    <3> QED BY <1>1, <3>2
  <2>3. Len(inbox) + k = 0 + events
    BY <1>2 DEF Numbered
  <2>4. Len(rest) + (k + 1) = 0 + events
    <3> DEFINE l == Len(inbox)
    <3>1. l \in Nat /\ Len(rest) = l - 1 /\ l + k = 0 + events
      BY <1>1, <2>3
    <3> HIDE DEF l
    <3> QED BY <3>1
  <2> QED BY <1>1, <2>1, <2>2, <2>4 DEF Numbered
<1>3. ASSUME Numbered(inbox, events, 1, k) PROVE Numbered(rest, events, 0, k)
  <2>1. \A i \in 1..Len(rest) : rest[i] + 0 = MaxAsked + k + i
    <3> TAKE i \in 1..Len(rest)
    <3>1. rest[i] = inbox[i + 1] /\ i + 1 \in 1..Len(inbox) /\ i + 1 > 1 /\ inbox[i + 1] \in Nat
      BY <1>1
    <3>2. inbox[i + 1] + 1 = MaxAsked + k + (i + 1)
      BY <1>3, <3>1 DEF Numbered
    <3> DEFINE e == inbox[i + 1]
    <3>3. e \in Nat /\ MaxAsked \in Nat /\ e + 1 = MaxAsked + k + (i + 1)
      BY <1>1, <3>1, <3>2
    <3> HIDE DEF e
    <3>4. e + 0 = MaxAsked + k + i
      BY <3>3
    <3> QED BY <3>1, <3>4 DEF e
  <2>2. Len(inbox) + k = 1 + events
    BY <1>3 DEF Numbered
  <2>3. Len(rest) + k = 0 + events
    BY <1>1, <2>2
  <2> QED BY <2>1, <2>3 DEF Numbered
<1> QED BY <1>1, <1>2, <1>3 DEF rest

\* The channel itself does not change with it.
LEMMA RestOfServer ==
  ASSUME IInv, UNCHANGED <<channelVars, wpa>>
  PROVE  Turns' /\ AnswersMatch' /\ Control' /\ Threads' /\ InOrder' /\ Disposed'
<1> USE DEF IInv, channelVars
<1>1. Turns' /\ AnswersMatch'
  BY DEF Turns, Requesting, AnswersMatch
<1>2. Control'
  BY ControlStays
<1>3. Threads'
  BY ThreadsStay
<1>4. InOrder' /\ Disposed'
  BY EventsStay
<1> QED BY <1>1, <1>2, <1>3, <1>4

LEMMA AnswersKeeps ==
  ASSUME IInv, ServerAnswers, UNCHANGED <<channelVars, wpa>>
  PROVE  IInv'
<1> USE DEF IInv
<1> DEFINE ask == Head(server.asked)
<1>1. /\ server.up /\ server.asked # <<>> /\ UNCHANGED <<count, lost, channelVars, wpa>>
      /\ server' = [server EXCEPT !.asked = Tail(server.asked),
                                  !.attached = server.attached \/ ask.socket = "event"]
      /\ socket' = IF Connected(ask.socket) THEN Deliver(ask.socket, ask.no) ELSE socket
  BY DEF ServerAnswers
<1>2. /\ Tail(server.asked) \in Seq([no : 1..MaxAsked, socket : Sockets])
      /\ ask.no \in 1..MaxAsked /\ ask.socket \in Sockets /\ ask = server.asked[1]
      /\ 1 \in Asks(ask.socket)
      /\ \A i \in DOMAIN Tail(server.asked) :
            /\ i \in Nat /\ i # 0 /\ i + 1 \in DOMAIN server.asked
            /\ Tail(server.asked)[i] = server.asked[i + 1]
  BY <1>1, OneLessAsked
<1>3. PICK to \in Sockets, no \in 1..MaxAsked : ask.socket = to /\ ask.no = no
  BY <1>2
<1>4. no \in 1..(MaxAsked + MaxEvents) /\ no \in Nat /\ 1 \in Asks(to) /\ server.asked[1].no = no
  BY <1>2, <1>3, Naturals
<1>5. socket' = IF Connected(to) THEN Deliver(to, no) ELSE socket
  BY <1>1, <1>3
<1> HIDE DEF ask
<1>6. /\ server' \in ServerType /\ server'.asked = Tail(server.asked)
      /\ server'.up = server.up /\ server'.id = server.id
      /\ server'.attached = (server.attached \/ to = "event")
  BY <1>1, <1>2, <1>3 DEF Shape, ServerType
<1>7. /\ SocketsFit'
      /\ socket'[to].inbox = IF Connected(to)
                                     THEN Append(socket[to].inbox, no)
                                     ELSE socket[to].inbox
      /\ \A t \in Sockets : /\ socket'[t].open = socket[t].open
                            /\ socket'[t].server = socket[t].server
                            /\ t # to => socket'[t] = socket[t]
  <2>1. CASE Connected(to)
    <3>1. socket' = Deliver(to, no) /\ socket[to].open
      BY <1>5, <2>1 DEF Connected
    <3>2. /\ SocketsFit' /\ socket'[to].inbox = Append(socket[to].inbox, no)
          /\ socket'[to].open /\ socket'[to].server = socket[to].server
          /\ \A t \in Sockets : t # to => socket'[t] = socket[t]
      BY <1>4, <3>1, Delivered
    <3>3. socket[to].open = TRUE /\ socket'[to].open = TRUE
      BY <3>1, <3>2 DEF Shape, SocketsFit, SocketType
    <3> QED BY <2>1, <3>2, <3>3
  <2>2. CASE ~Connected(to)
    BY <1>5, <2>2 DEF Shape, SocketsFit
  <2> QED BY <2>1, <2>2
<1>8. Shape'
  BY <1>1, <1>6, <1>7 DEF Shape, channelVars
<1>9. \A s \in Sockets : \A i \in Asks(s)' : i + 1 \in Asks(s) /\ server'.asked[i] = server.asked[i + 1]
  BY <1>2, <1>6 DEF Asks
<1>10. \A s \in Sockets : \A i \in Asks(s)' : i \in Nat /\ i # 0
  BY <1>2, <1>6 DEF Asks
<1>11. \A s \in Sockets : (\A i, j \in Asks(s) : i = j) => \A i, j \in Asks(s)' : i = j
  <2> TAKE s \in Sockets
  <2> SUFFICES ASSUME \A i, j \in Asks(s) : i = j, NEW i \in Asks(s)', NEW j \in Asks(s)'
               PROVE  i = j
    OBVIOUS
  <2>1. i + 1 = j + 1
    BY <1>9
  <2> QED BY <2>1, <1>10
<1>12. \A s \in Sockets : Asks(s) = {} => Asks(s)' = {}
  BY <1>9
<1>13. (\A i, j \in Asks(to) : i = j) => Asks(to)' = {}
  <2> SUFFICES ASSUME \A i, j \in Asks(to) : i = j, NEW i \in Asks(to)'
               PROVE  FALSE
    OBVIOUS
  <2>1. i + 1 = 1 /\ i \in Nat /\ i # 0
    BY <1>4, <1>9, <1>10
  <2> QED BY <2>1
<1>14. "command" \in Sockets /\ "event" \in Sockets /\ to \in {"command", "event"}
  BY DEF Sockets
<1>15. Answering'
  <2>1. SUFFICES ASSUME ~history.timedOut, socket["command"].open PROVE Answering'
    BY <1>1, <1>7, <1>14 DEF Answering, channelVars
  <2>2. \A n : Awaited(n)' <=> Awaited(n)
    BY <1>1 DEF Awaited, channelVars
  <2>3. CASE to = "command"
    <3>1. /\ socket["command"].inbox = <<>> /\ Asks("command")' = {} /\ Awaited(no)
      BY <1>4, <1>13, <2>1, <2>3 DEF Answering
    <3>2. socket'["command"].inbox \in {<<>>, <<no>>}
      BY <1>4, <1>7, <2>3, <3>1
    <3>3. socket'["command"].inbox # <<>> =>
             Len(socket'["command"].inbox) = 1 /\ Awaited(socket'["command"].inbox[1])
      BY <3>1, <3>2
    <3> QED BY <2>2, <3>1, <3>3 DEF Answering, Awaited
  <2>4. CASE to = "event"
    <3>1. socket'["command"] = socket["command"]
      BY <1>7, <1>14, <2>4
    <3>2. \A i \in Asks("command")' : \E c \in Callers :
             caller'[c].pc = "recv" /\ caller'[c].no = server'.asked[i].no
      <4> TAKE i \in Asks("command")'
      <4>1. i + 1 \in Asks("command") /\ server'.asked[i] = server.asked[i + 1]
        BY <1>9, <1>14
      <4>2. Awaited(server.asked[i + 1].no)
        BY <2>1, <4>1 DEF Answering
      <4> QED BY <1>1, <4>1, <4>2 DEF Awaited, channelVars
    <3>3. \A i, j \in Asks("command")' : i = j
      BY <1>11, <1>14, <2>1 DEF Answering
    <3>4. socket["command"].inbox # <<>> => Asks("command")' = {}
      BY <1>12, <1>14, <2>1 DEF Answering
    <3> QED BY <2>1, <2>2, <3>1, <3>2, <3>3, <3>4 DEF Answering, Awaited
  <2> QED BY <1>14, <2>3, <2>4
<1>16. NotYet'
  BY <1>1, <1>7, <1>12, <1>14 DEF NotYet, channelVars
<1>17. Attaching'
  <2>1. CASE to = "command"
    <3>1. socket'["event"] = socket["event"] /\ server'.attached = server.attached
      BY <1>6, <1>7, <1>14, <2>1 DEF Shape, ServerType
    <3> QED BY <1>1, <1>6, <1>11, <1>12, <1>14, <3>1, AttachingStays DEF channelVars
  <2>2. CASE to = "event"
    <3>1. Asks("event") # {} /\ socket'["event"].open = socket["event"].open
      BY <1>4, <1>7, <1>14, <2>2
    <3>2. opening.pc \notin {"attach", "command", "ok"} /\ ~Unattached
      BY <3>1 DEF Attaching, Unattached
    <3>3. ASSUME opening.pc = "answer"
          PROVE  /\ count'.events = 0 /\ Asks("event")' = {}
                 /\ \/ socket'["event"].inbox = <<>> /\ ~Connected("event")'
                    \/ socket'["event"].inbox = <<no>>
      <4>1. /\ socket["event"].inbox = <<>> /\ count.events = 0
            /\ \A i, j \in Asks("event") : i = j
        BY <3>1, <3>3 DEF Attaching
      <4>2. Connected("event")' = Connected("event")
        BY <1>6, <1>7, <1>14 DEF Connected
      <4> QED BY <1>1, <1>4, <1>7, <1>13, <2>2, <4>1, <4>2
    <3>4. socket'["event"].inbox = <<no>> =>
            socket'["event"].inbox # <<>> /\ Numbered(socket'["event"].inbox, 0, 1, 0)
      BY <1>4 DEF Numbered
    <3> QED BY <1>1, <1>6, <2>2, <3>1, <3>2, <3>3, <3>4 DEF Attaching, channelVars, Mail
  <2> QED BY <1>14, <2>1, <2>2
<1> QED BY <1>1, <1>8, <1>15, <1>16, <1>17, RestOfServer

LEMMA SendsEventKeeps ==
  ASSUME IInv, ServerSendsEvent, UNCHANGED <<channelVars, wpa>>
  PROVE  IInv'
<1> USE DEF IInv
<1> DEFINE no == MaxAsked + count.events + 1
           inbox == socket["event"].inbox
<1>1. /\ server.attached /\ Connected("event") /\ socket["event"].open
      /\ count.events < MaxEvents /\ count' = [count EXCEPT !.events = @ + 1]
      /\ socket' = Deliver("event", no) /\ UNCHANGED <<server, lost, channelVars, wpa>>
      /\ "event" \in Sockets /\ "command" \in Sockets
  BY DEF ServerSendsEvent, Connected, Sockets
<1>2. /\ count' \in CountType /\ count'.events = count.events + 1 /\ count.events \in Nat
      /\ no \in 1..(MaxAsked + MaxEvents)
  BY <1>1, Naturals DEF Shape, CountType
<1>3. /\ SocketsFit' /\ socket'["event"].inbox = Append(inbox, no)
      /\ socket'["event"].open /\ socket'["event"].server = socket["event"].server
      /\ socket'["command"] = socket["command"]
  BY <1>1, <1>2, Delivered
<1>4. inbox \in Seq(Nat)
  <2>1. socket["event"] \in SocketType
    BY <1>1 DEF Shape, SocketsFit
  <2> QED BY <2>1, Naturals DEF SocketType
<1>5. Shape'
  BY <1>1, <1>2, <1>3 DEF Shape, channelVars
<1>6. Answering' /\ NotYet'
  BY <1>1, <1>3, AnsweringStays, NotYetStays DEF channelVars
<1>7. Asks("event")' = Asks("event") /\ Append(inbox, no) # <<>>
  BY <1>1, <1>2, <1>4 DEF Asks
<1>8. opening.pc = "answer" =>
        Asks("event") = {} /\ Numbered(Append(inbox, no), count.events + 1, 1, 0)
  <2>1. opening.pc = "answer" => Asks("event") = {} /\ Numbered(inbox, count.events, 1, 0)
    BY <1>1 DEF Attaching, Mail
  <2> HIDE DEF inbox
  <2> QED BY <1>2, <1>4, <2>1, OneMoreEvent
<1>9. opening.pc \in {"command", "ok"} =>
        /\ Asks("event") = {}
        /\ Numbered(Append(inbox, no), count.events + 1, 0, history.read)
  <2>1. opening.pc \in {"command", "ok"} =>
          Asks("event") = {} /\ Numbered(inbox, count.events, 0, history.read)
    BY <1>1 DEF Attaching, Mail
  <2>2. history.read \in Nat
    BY Numbers
  <2> HIDE DEF inbox
  <2> QED BY <1>2, <1>4, <2>1, <2>2, OneMoreEvent
<1> HIDE DEF no, inbox
<1>10. Attaching'
  BY <1>1, <1>2, <1>3, <1>7, <1>8, <1>9 DEF Attaching, Unattached, Mail, Connected, channelVars
<1> QED BY <1>1, <1>5, <1>6, <1>10, RestOfServer

LEMMA DiesAndStartsKeeps ==
  ASSUME IInv, ServerDies \/ ServerStarts, UNCHANGED <<channelVars, wpa>>
  PROVE  IInv'
<1> USE DEF IInv
<1>1. UNCHANGED <<socket, count, lost, channelVars, wpa>>
  BY DEF ServerDies, ServerStarts
<1>2. /\ server' \in ServerType
      /\ server'.asked = <<>> \/ server'.asked = server.asked
      /\ ~server'.attached
  <2>1. CASE ServerDies
    <3>1. /\ server' = [server EXCEPT !.up = FALSE, !.attached = FALSE, !.asked = <<>>]
          /\ server \in ServerType /\ <<>> \in Seq([no : 1..MaxAsked, socket : Sockets])
      BY <2>1 DEF ServerDies, Shape
    <3> QED BY <3>1 DEF ServerType
  <2>2. CASE ServerStarts
    <3>1. server.id + 1 \in 0..MaxServers
      BY <2>2, Naturals DEF ServerStarts, Shape, ServerType
    <3> QED BY <2>2, <3>1 DEF ServerStarts, Shape, ServerType, Attaching
  <2> QED BY <2>1, <2>2
<1>3. \A s \in Sockets : Asks(s)' \subseteq Asks(s)
      /\ \A i \in Asks(s)' : server'.asked[i] = server.asked[i]
  BY <1>2 DEF Asks
<1>4. Shape'
  BY <1>1, <1>2 DEF Shape, SocketsFit, channelVars
<1>5. "command" \in Sockets /\ "event" \in Sockets
  BY DEF Sockets
<1>6. Answering'
  <2>1. \A no : Awaited(no)' <=> Awaited(no)
    BY <1>1 DEF Awaited, channelVars
  <2>2. /\ Asks("command")' \subseteq Asks("command")
        /\ \A i \in Asks("command")' : server'.asked[i] = server.asked[i]
    BY <1>3, <1>5
  <2> QED BY <1>1, <2>1, <2>2 DEF Answering, channelVars
<1>7. NotYet'
  BY <1>1, <1>3, <1>5 DEF NotYet, channelVars
<1>8. Attaching'
  BY <1>1, <1>2, <1>3, <1>5 DEF Attaching, Unattached, Mail, channelVars
<1> QED BY <1>1, <1>4, <1>6, <1>7, <1>8, RestOfServer

-----------------------------------------------------------------------------
(* ReadEventsProc() and ForegroundEventHandler(). *)

LEMMA RestOfWorkers ==
  ASSUME IInv, opening.pc = "ok",
         UNCHANGED <<server, count, mutex, caller, opening, closing, wpa, chan.closed,
                     chan.disconnected, socket["command"], history.timedOut, history.foreign>>
  PROVE  Turns' /\ Answering' /\ AnswersMatch' /\ Control' /\ NotYet'
<1> USE DEF IInv
<1>1. Turns' /\ AnswersMatch' /\ NotYet'
  BY DEF Turns, Requesting, AnswersMatch, NotYet
<1>2. Answering'
  BY AnsweringStays
<1>3. Control'
  BY ControlStays
<1> QED BY <1>1, <1>2, <1>3

LEMMA Working ==
  ASSUME NotYet, reader.pc # "none" \/ handler.pc # "none"
  PROVE  opening.pc = "ok"
  BY DEF NotYet

LEMMA QueueWith ==
  ASSUME Shape, NEW e \in Nat
  PROVE  /\ Append(chan.queue, e) \in Seq(Nat) /\ Len(Append(chan.queue, e)) = Len(chan.queue) + 1
         /\ \A i \in 1..Len(chan.queue) : Append(chan.queue, e)[i] = chan.queue[i]
         /\ Append(chan.queue, e)[Len(chan.queue) + 1] = e /\ Len(chan.queue) \in Nat
         /\ \A i \in 1 .. Len(chan.queue) + 1 : i \in 1..Len(chan.queue) \/ i = Len(chan.queue) + 1
<1> DEFINE queue == chan.queue
<1>1. queue \in Seq(Nat)
  BY DEF Shape, ChanType
<1> HIDE DEF queue
<1>2. /\ Append(queue, e) \in Seq(Nat) /\ Len(Append(queue, e)) = Len(queue) + 1
      /\ \A i \in 1..Len(queue) : Append(queue, e)[i] = queue[i]
      /\ Append(queue, e)[Len(queue) + 1] = e /\ Len(queue) \in Nat
      /\ \A i \in 1 .. Len(queue) + 1 : i \in 1..Len(queue) \/ i = Len(queue) + 1
  BY <1>1
<1> QED BY <1>2 DEF queue

\* An event goes to the end of the queue, be it from the socket or from Push().
LEMMA EventQueued ==
  ASSUME Shape, InOrder, NEW e \in Nat, e = MaxAsked + Taken + Len(chan.queue) + 1,
         chan'.queue = Append(chan.queue, e), reader'.event = NoEvent, reader'.pc = "recv",
         UNCHANGED <<handler, history.handled>>
  PROVE  InOrder' /\ Taken' = Taken /\ Passed' = Taken + Len(chan.queue) + 1
<1>1. /\ Len(chan'.queue) = Len(chan.queue) + 1 /\ Len(chan.queue) \in Nat
      /\ \A i \in 1..Len(chan'.queue) :
           chan'.queue[i] = IF i \in 1..Len(chan.queue) THEN chan.queue[i] ELSE e
      /\ \A i \in 1..Len(chan'.queue) : i \in 1..Len(chan.queue) \/ i = Len(chan.queue) + 1
  BY QueueWith
<1>2. Taken' = Taken /\ Held(reader)' = 0 /\ Taken \in Nat /\ MaxAsked \in Nat
  BY Numbers, Naturals DEF Taken, Held
<1>3. \A i \in 1..Len(chan'.queue) : chan'.queue[i] = MaxAsked + Taken' + i
  <2> TAKE i \in 1..Len(chan'.queue)
  <2>1. CASE i \in 1..Len(chan.queue)
    BY <1>1, <1>2, <2>1 DEF InOrder
  <2>2. CASE i = Len(chan.queue) + 1
    <3>1. i \notin 1..Len(chan.queue)
      BY <1>1, <2>2
    <3>2. chan'.queue[i] = e
      BY <1>1, <3>1
    <3>3. e = MaxAsked + Taken + (Len(chan.queue) + 1)
      <4> DEFINE q == Len(chan.queue)
      <4>1. q \in Nat /\ Taken \in Nat /\ MaxAsked \in Nat /\ e = MaxAsked + Taken + q + 1
        BY <1>1, <1>2
      <4> HIDE DEF q
      <4>2. \A m, t, l \in Nat : m + t + l + 1 = m + t + (l + 1)
        OBVIOUS
      <4>3. MaxAsked + Taken + q + 1 = MaxAsked + Taken + (q + 1)
        BY <4>1, <4>2
      <4> QED BY <4>1, <4>3, Zenon DEF q
    <3> QED BY <1>2, <2>2, <3>2, <3>3
  <2> QED BY <1>1, <2>1, <2>2
<1>4. InOrder'
  BY <1>2, <1>3 DEF InOrder
<1>5. Passed' = Taken + Len(chan.queue) + 1
  <2>1. Passed' = Taken + (Len(chan.queue) + 1) + 0
    BY <1>1, <1>2 DEF Passed
  <2> QED BY <2>1, <1>1, <1>2
<1> QED BY <1>2, <1>4, <1>5

LEMMA ReadEventKeeps ==
  ASSUME IInv, ReadEvent, UNCHANGED wpa
  PROVE  IInv'
<1> USE DEF IInv
<1> DEFINE inbox == socket["event"].inbox
           e == Head(inbox)
<1>1. /\ reader.pc = "recv" /\ HasMail("event") /\ TakeMail("event")
      /\ history' = [history EXCEPT !.read = @ + 1]
      /\ UNCHANGED <<server, count, lost, mutex, caller, handler, opening, closing, wpa>>
      /\ "event" \in Sockets /\ "command" \in Sockets /\ opening.pc = "ok"
  BY Working DEF ReadEvent, Sockets
<1>2. /\ SocketsFit' /\ socket'["event"].inbox = Tail(inbox)
      /\ socket'["event"].open /\ socket["event"].open
      /\ socket'["command"] = socket["command"] /\ inbox \in Seq(Nat) /\ inbox # <<>>
  BY <1>1, MailTaken DEF HasMail
<1>3. /\ history.read \in Nat /\ history' \in HistoryType /\ history'.read = history.read + 1
      /\ UNCHANGED <<history.timedOut, history.foreign, history.handled, history.deleted,
                     history.threw>>
  <2>1. history \in HistoryType /\ history.read \in Nat
    BY Numbers DEF Shape
  <2> HIDE DEF IInv
  <2> QED BY <1>1, <2>1 DEF HistoryType
<1>4. /\ Numbered(Tail(inbox), count.events, 0, history.read + 1)
      /\ e = MaxAsked + history.read + 1
  <2>1. Numbered(inbox, count.events, 0, history.read)
    BY <1>1, <1>2 DEF Attaching, Mail
  <2>2. count.events \in Nat
    BY Numbers
  <2> HIDE DEF inbox
  <2> QED BY <1>2, <1>3, <2>1, <2>2, OneEventTaken
<1>5. e \in Nat /\ e # NoEvent
  BY <1>3, <1>4, Naturals DEF NoEvent
<1> HIDE DEF inbox, e
<1>6. reader.event = NoEvent /\ Passed = history.read /\ Passed = Taken + Len(chan.queue)
  <2>1. reader.event = NoEvent /\ Passed = history.read
    BY <1>1 DEF InOrder, Disposed
  <2>2. Passed = Taken + Len(chan.queue) + 0 /\ Taken \in Nat /\ Len(chan.queue) \in Nat
    BY <2>1, Numbers DEF Passed, Held
  <2> QED BY <2>1, <2>2
<1>7. e = MaxAsked + Taken + Len(chan.queue) + 1
  <2> DEFINE q == Len(chan.queue)
  <2>1. /\ Taken \in Nat /\ q \in Nat /\ MaxAsked \in Nat
        /\ e = MaxAsked + (Taken + q) + 1
    BY <1>4, <1>6, Numbers, Naturals
  <2> HIDE DEF q
  <2>2. e = MaxAsked + Taken + q + 1
    BY <2>1
  <2> QED BY <2>2 DEF q
<1>8. Attaching'
  <2>1. Asks("event") = {} /\ Asks("event")' = Asks("event")
    BY <1>1 DEF Attaching, Asks
  <2> QED BY <1>1, <1>2, <1>3, <1>4, <2>1 DEF Attaching, Mail
<1>9. CASE Len(chan.queue) < QueueSize /\ ~chan.queueClosed
  <2>1. chan' = [chan EXCEPT !.queue = Append(chan.queue, e)] /\ reader' = reader
    BY <1>9 DEF ReadEvent, inbox, e
  <2>2. /\ chan' \in ChanType /\ chan'.queue = Append(chan.queue, e)
        /\ UNCHANGED <<chan.closed, chan.disconnected, chan.threads>>
    BY <1>5, <2>1, QueueWith DEF Shape, ChanType
  <2>3. InOrder' /\ Taken' = Taken /\ Passed' = Taken + Len(chan.queue) + 1
    BY <1>1, <1>3, <1>5, <1>6, <1>7, <2>1, <2>2, EventQueued
  <2>4. Disposed'
    BY <1>1, <1>3, <1>6, <2>1, <2>3 DEF Disposed
  <2>5. Threads'
    BY <1>1, <2>1, <2>2, ThreadsStay
  <2>6. Shape'
    BY <1>1, <1>2, <1>3, <2>1, <2>2 DEF Shape
  <2> QED BY <1>1, <1>2, <1>3, <1>8, <2>2, <2>3, <2>4, <2>5, <2>6, RestOfWorkers
<1>10. CASE ~(Len(chan.queue) < QueueSize /\ ~chan.queueClosed)
  <2>1. reader' = [pc |-> "push", event |-> e] /\ chan' = chan
    BY <1>10 DEF ReadEvent, inbox, e
  <2>2. reader' \in ReaderType /\ reader'.pc = "push" /\ reader'.event = e
    BY <1>5, <2>1 DEF ReaderType
  <2>3. Taken' = Taken
    BY <1>1, <1>3 DEF Taken, Held
  <2>4. InOrder'
    BY <1>1, <1>3, <1>5, <1>7, <2>1, <2>2, <2>3 DEF InOrder
  <2>5. Passed' = Passed + 1
    <3>1. Held(reader') = 1
      BY <1>5, <2>2 DEF Held
    <3> QED BY <1>6, <2>1, <2>3, <3>1 DEF Passed
  <2>6. Disposed'
    BY <1>1, <1>3, <1>6, <2>5 DEF Disposed
  <2>7. Threads'
    BY <1>1, <2>1, <2>2 DEF Threads, Busy, Done
  <2>8. Shape'
    BY <1>1, <1>2, <1>3, <2>1, <2>2 DEF Shape
  <2> QED BY <1>1, <1>2, <1>3, <1>8, <2>1, <2>4, <2>6, <2>7, <2>8, RestOfWorkers
<1> QED BY <1>9, <1>10

LEMMA PushEventKeeps ==
  ASSUME IInv, PushEvent, UNCHANGED wpa
  PROVE  IInv'
<1> USE DEF IInv
<1> DEFINE e == reader.event
<1>1. /\ reader.pc = "push" /\ reader' = [pc |-> "recv", event |-> NoEvent]
      /\ chan' = [chan EXCEPT !.queue = Append(chan.queue, e)]
      /\ UNCHANGED <<ctrlVars, mutex, caller, handler, opening, closing, history, wpa>>
      /\ opening.pc = "ok"
  BY Working DEF PushEvent
<1>2. e \in Nat /\ e # NoEvent /\ e = MaxAsked + Taken + Len(chan.queue) + 1
  BY <1>1, Numbers DEF InOrder
<1> HIDE DEF e
<1>3. reader' \in ReaderType /\ reader'.pc = "recv" /\ reader'.event = NoEvent
  BY <1>1 DEF ReaderType, NoEvent
<1>4. /\ chan' \in ChanType /\ chan'.queue = Append(chan.queue, e)
      /\ UNCHANGED <<chan.closed, chan.disconnected, chan.threads>>
  BY <1>1, <1>2, QueueWith DEF Shape, ChanType
<1>5. InOrder' /\ Taken' = Taken /\ Passed' = Taken + Len(chan.queue) + 1
  BY <1>1, <1>2, <1>3, <1>4, EventQueued
<1>6. Passed = Taken + Len(chan.queue) + 1
  BY <1>2 DEF Passed, Held, e
<1>7. Disposed'
  BY <1>1, <1>3, <1>5, <1>6 DEF Disposed
<1>8. Threads'
  BY <1>1, <1>3, <1>4 DEF Threads, Busy, Done
<1>9. Shape'
  BY <1>1, <1>3, <1>4 DEF Shape, SocketsFit, ctrlVars
<1>10. Attaching'
  BY <1>1, AttachingStays DEF ctrlVars, Asks
<1> QED BY <1>1, <1>4, <1>5, <1>7, <1>8, <1>9, <1>10, RestOfWorkers DEF ctrlVars

LEMMA PushFailsKeeps ==
  ASSUME IInv, PushFails, UNCHANGED wpa
  PROVE  IInv'
<1> USE DEF IInv
<1> DEFINE e == reader.event
<1>1. /\ reader.pc = "push" /\ reader' = [pc |-> "leave", event |-> NoEvent]
      /\ history' = [history EXCEPT !.deleted = @ \cup {e}]
      /\ UNCHANGED <<ctrlVars, chan, mutex, caller, handler, opening, closing, wpa>>
      /\ opening.pc = "ok"
  BY Working DEF PushFails, Deletes
<1>2. e \in Nat /\ e # NoEvent /\ e = MaxAsked + Taken + Len(chan.queue) + 1
  BY <1>1, Numbers DEF InOrder
<1>3. Passed = history.read /\ Passed = Taken + Len(chan.queue) + 1
  BY <1>1, <1>2 DEF Disposed, Passed, Held
<1> HIDE DEF e
<1>4. reader' \in ReaderType /\ reader'.pc = "leave" /\ reader'.event = NoEvent
  BY <1>1 DEF ReaderType, NoEvent
<1>5. /\ history' \in HistoryType /\ history'.deleted = history.deleted \cup {e}
      /\ UNCHANGED <<history.timedOut, history.foreign, history.handled, history.read,
                     history.threw>>
  BY <1>1, <1>2 DEF Shape, HistoryType
<1>6. Taken' = Taken /\ Held(reader') = 0
  BY <1>1, <1>4, <1>5 DEF Taken, Held
<1>7. Passed' + 1 = history.read /\ e = MaxAsked + history.read
  <2> DEFINE q == Len(chan.queue)
  <2>1. /\ Passed' = Taken + q + 0 /\ q \in Nat /\ Taken \in Nat /\ MaxAsked \in Nat
        /\ history.read = Taken + q + 1 /\ e = MaxAsked + Taken + q + 1
    BY <1>1, <1>2, <1>3, <1>6, Numbers, Naturals DEF Passed
  <2> HIDE DEF q
  <2> QED BY <2>1
<1>8. InOrder'
  BY <1>1, <1>4, <1>5, <1>6 DEF InOrder
<1>9. Disposed'
  BY <1>1, <1>4, <1>5, <1>7 DEF Disposed
<1>10. Threads'
  BY <1>1, <1>4 DEF Threads, Busy, Done
<1>11. Shape'
  BY <1>1, <1>4, <1>5 DEF Shape, SocketsFit, ctrlVars
<1>12. Attaching'
  BY <1>1, <1>5, AttachingStays DEF ctrlVars, Asks
<1> QED BY <1>1, <1>5, <1>8, <1>9, <1>10, <1>11, <1>12, RestOfWorkers DEF ctrlVars

LEMMA ReadFailsKeeps ==
  ASSUME IInv, ReadFails, UNCHANGED wpa
  PROVE  IInv'
<1> USE DEF IInv
<1>1. /\ reader.pc = "recv" /\ reader' = [reader EXCEPT !.pc = "leave"]
      /\ UNCHANGED <<ctrlVars, chan, mutex, caller, handler, opening, closing, history, wpa>>
      /\ opening.pc = "ok"
  BY Working DEF ReadFails
<1>2. reader' \in ReaderType /\ reader'.pc = "leave" /\ reader'.event = reader.event
  BY <1>1 DEF Shape, ReaderType
<1>3. Passed' = Passed /\ Taken' = Taken
  BY <1>1, <1>2 DEF Passed, Taken, Held
<1>4. InOrder' /\ Disposed'
  BY <1>1, <1>2, <1>3 DEF InOrder, Disposed
<1>5. Threads'
  BY <1>1, <1>2 DEF Threads, Busy, Done
<1>6. Shape'
  BY <1>1, <1>2 DEF Shape, SocketsFit, ctrlVars
<1>7. Attaching'
  BY <1>1, AttachingStays DEF ctrlVars, Asks
<1> QED BY <1>1, <1>4, <1>5, <1>6, <1>7, RestOfWorkers DEF ctrlVars

\* One of the two threads ends.
LEMMA OneThreadLess ==
  ASSUME Shape, Threads, chan.threads - 1 = Busy(reader') + Busy(handler'),
         chan'.threads = chan.threads - 1,
         Done(reader) => Done(reader'), Done(handler) => Done(handler'), UNCHANGED <<caller, closing>>
  PROVE  Threads' /\ chan'.threads \in 0..2
<1>1. Busy(reader') \in 0..1 /\ Busy(handler') \in 0..1
  BY DEF Busy
<1>2. chan'.threads \in 0..2
  <2>1. \A a, b \in 0..1 : a + b \in 0..2
    OBVIOUS
  <2>2. chan'.threads = Busy(reader') + Busy(handler')
    OBVIOUS
  <2> QED BY <1>1, <2>1, <2>2
<1> QED BY <1>2 DEF Threads, Done, Busy

LEMMA ReaderLeavesKeeps ==
  ASSUME IInv, ReaderLeaves, UNCHANGED wpa
  PROVE  IInv'
<1> USE DEF IInv
<1>1. /\ reader.pc = "leave" /\ reader' = [reader EXCEPT !.pc = "ended"] /\ Closed("event")
      /\ chan' = [chan EXCEPT !.queueClosed = TRUE, !.threads = @ - 1]
      /\ UNCHANGED <<server, count, lost, mutex, caller, handler, opening, closing, history, wpa>>
      /\ "event" \in Sockets /\ "command" \in Sockets /\ opening.pc = "ok"
  BY Working DEF ReaderLeaves, Sockets
<1>2. /\ SocketsFit' /\ ~socket'["event"].open /\ socket'["command"] = socket["command"]
  BY <1>1, SocketCloses DEF Sockets
<1>3. reader' \in ReaderType /\ reader'.pc = "ended" /\ reader'.event = reader.event
  BY <1>1 DEF Shape, ReaderType
<1>4. chan.threads - 1 = Busy(reader') + Busy(handler')
  <2>1. Busy(reader) = 1 /\ Busy(reader') = 0 /\ Busy(handler') = Busy(handler)
    BY <1>1, <1>3 DEF Busy, Done
  <2>2. Busy(handler) \in 0..1
    BY DEF Busy
  <2> QED BY <2>1, <2>2 DEF Threads
<1>5. /\ chan'.threads = chan.threads - 1
      /\ UNCHANGED <<chan.closed, chan.disconnected, chan.queue>>
  BY <1>1 DEF Shape, ChanType
<1>6. Threads' /\ chan'.threads \in 0..2
  BY <1>1, <1>3, <1>4, <1>5, OneThreadLess DEF Done
<1>7. chan' \in ChanType
  <2>1. chan.threads - 1 \in 0..2
    BY <1>5, <1>6
  <2> QED BY <1>1, <2>1 DEF Shape, ChanType
<1>8. Passed' = Passed /\ Taken' = Taken
  BY <1>1, <1>3, <1>5 DEF Passed, Taken, Held
<1>9. InOrder' /\ Disposed'
  BY <1>1, <1>3, <1>5, <1>8 DEF InOrder, Disposed
<1>10. Shape'
  BY <1>1, <1>2, <1>3, <1>7 DEF Shape
<1>11. Attaching'
  BY <1>1, <1>2 DEF Attaching, Asks
<1> QED BY <1>1, <1>2, <1>5, <1>6, <1>9, <1>10, <1>11, RestOfWorkers

LEMMA TakeEventKeeps ==
  ASSUME IInv, TakeEvent, UNCHANGED wpa
  PROVE  IInv'
<1> USE DEF IInv
<1> DEFINE queue == chan.queue
           e == Head(queue)
<1>1. /\ handler.pc = "take" /\ queue # <<>> /\ handler' = [pc |-> "handle", event |-> e]
      /\ chan' = [chan EXCEPT !.queue = Tail(queue)]
      /\ UNCHANGED <<ctrlVars, mutex, caller, reader, opening, closing, history, wpa>>
      /\ opening.pc = "ok"
  BY Working DEF TakeEvent
<1>2. queue \in Seq(Nat) /\ \A i \in 1..Len(queue) : queue[i] = MaxAsked + Taken + i
  BY DEF Shape, ChanType, InOrder
<1>3. handler.event = NoEvent /\ Taken = Len(history.handled) /\ Taken \in Nat /\ MaxAsked \in Nat
  <2>1. handler.event = NoEvent /\ Taken = Len(history.handled) + 0
    BY <1>1 DEF InOrder, Taken, Held
  <2> QED BY <2>1, Numbers, Naturals
<1> HIDE DEF queue
<1>4. /\ Tail(queue) \in Seq(Nat) /\ Len(Tail(queue)) = Len(queue) - 1 /\ Len(queue) \in Nat
      /\ e = queue[1] /\ 1 \in 1..Len(queue)
      /\ \A i \in 1..Len(Tail(queue)) : i + 1 \in 1..Len(queue) /\ Tail(queue)[i] = queue[i + 1]
  BY <1>1, <1>2
<1>5. e = MaxAsked + Taken + 1 /\ e \in Nat /\ e # NoEvent
  BY <1>2, <1>3, <1>4 DEF NoEvent
<1> HIDE DEF e
<1>6. handler' \in HandlerType /\ handler'.pc = "handle" /\ handler'.event = e
  BY <1>1, <1>5 DEF HandlerType
<1>7. /\ chan' \in ChanType /\ chan'.queue = Tail(queue)
      /\ UNCHANGED <<chan.closed, chan.disconnected, chan.threads>>
  BY <1>1, <1>4 DEF Shape, ChanType
<1>8. Taken' = Taken + 1
  BY <1>1, <1>3, <1>5, <1>6 DEF Taken, Held
<1>9. \A i \in 1..Len(chan'.queue) : chan'.queue[i] = MaxAsked + Taken' + i
  <2> TAKE i \in 1..Len(chan'.queue)
  <2>1. chan'.queue[i] = queue[i + 1] /\ i + 1 \in 1..Len(queue) /\ i \in Nat
    BY <1>4, <1>7
  <2>2. chan'.queue[i] = MaxAsked + Taken + (i + 1)
    BY <1>2, <2>1
  <2>3. MaxAsked + Taken + (i + 1) = MaxAsked + (Taken + 1) + i
    <3>1. \A m, t, j \in Nat : m + t + (j + 1) = m + (t + 1) + j
      OBVIOUS
    <3> QED BY <1>3, <2>1, <3>1
  <2> QED BY <1>8, <2>2, <2>3
<1>10. Taken' + Len(chan'.queue) = Taken + Len(queue)
  BY <1>3, <1>4, <1>7, <1>8
<1>11. Passed' = Passed
  BY <1>1, <1>10 DEF Passed, queue
<1>12. InOrder'
  <2>1. reader.event # NoEvent => reader.event = MaxAsked + Taken' + Len(chan'.queue) + 1
    <3> DEFINE q == Len(queue)
               p == Len(chan'.queue)
               t == Taken'
    <3>1. reader.event # NoEvent => reader.event = MaxAsked + Taken + q + 1
      BY DEF InOrder, queue
    <3>2. q \in Nat /\ p \in Nat
      <4>1. chan'.queue \in Seq(Nat)
        BY <1>4, <1>7
      <4> QED BY <1>4, <4>1
    <3>3. t + p = Taken + q /\ t \in Nat
      <4>1. t + p = Taken + q
        BY <1>10
      <4>2. Taken + 1 \in Nat
        BY <1>3
      <4>3. t \in Nat
        BY <1>8, <4>2
      <4> QED BY <4>1, <4>3
    <3> HIDE DEF q, p, t
    <3>4. \A m, a, b, c, d \in Nat : a + b = c + d => m + c + d + 1 = m + a + b + 1
      OBVIOUS
    <3>5. MaxAsked + Taken + q + 1 = MaxAsked + t + p + 1
      BY <1>3, <3>2, <3>3, <3>4
    <3> QED BY <3>1, <3>5 DEF p, t
  <2> QED BY <1>1, <1>3, <1>5, <1>6, <1>9, <2>1 DEF InOrder
<1>13. Disposed'
  BY <1>1, <1>11 DEF Disposed
<1>14. Threads'
  BY <1>1, <1>6, <1>7 DEF Threads, Busy, Done
<1>15. Shape'
  BY <1>1, <1>6, <1>7 DEF Shape, SocketsFit, ctrlVars
<1>16. Attaching'
  BY <1>1, AttachingStays DEF ctrlVars, Asks
<1> QED BY <1>1, <1>7, <1>12, <1>13, <1>14, <1>15, <1>16, RestOfWorkers DEF ctrlVars

\* OnEvent() has been called with it, whatever came of it.
LEMMA EventHandled ==
  ASSUME Shape, InOrder, handler.pc = "handle", handler'.event = NoEvent,
         handler'.pc # "handle", history'.handled = Append(history.handled, handler.event),
         UNCHANGED <<reader, chan.queue>>
  PROVE  /\ InOrder' /\ Passed' = Passed
         /\ history'.handled \in Seq(Nat)
         /\ Len(history'.handled) = Len(history.handled) + 1
         /\ \A i \in 1..Len(history'.handled) :
              \/ i \in 1..Len(history.handled) /\ history'.handled[i] = history.handled[i]
              \/ i = Len(history'.handled) /\ history'.handled[i] = handler.event
<1> DEFINE handled == history.handled
           e == handler.event
<1>1. /\ handled \in Seq(Nat) /\ e \in Nat /\ e # NoEvent
      /\ e = MaxAsked + Len(handled) + 1 /\ MaxAsked \in Nat
  BY Numbers, Naturals DEF Shape, HistoryType, InOrder
<1> HIDE DEF handled, e
<1>2. /\ Append(handled, e) \in Seq(Nat) /\ Len(Append(handled, e)) = Len(handled) + 1
      /\ Len(handled) \in Nat
      /\ \A i \in 1..Len(Append(handled, e)) :
           \/ i \in 1..Len(handled) /\ Append(handled, e)[i] = handled[i]
           \/ i = Len(handled) + 1 /\ Append(handled, e)[i] = e
  BY <1>1
<1>3. Taken = Len(handled) + 1 /\ Taken' = (Len(handled) + 1) + 0
  BY <1>1, <1>2 DEF Taken, Held, handled, e
<1>4. Taken' = Taken
  BY <1>2, <1>3
<1>5. Passed' = Passed
  BY <1>4 DEF Passed
<1>6. \A i \in 1..Len(history'.handled) : history'.handled[i] = MaxAsked + i
  <2> TAKE i \in 1..Len(history'.handled)
  <2>1. CASE i \in 1..Len(handled) /\ history'.handled[i] = handled[i]
    BY <2>1 DEF InOrder, handled
  <2>2. CASE i = Len(handled) + 1 /\ history'.handled[i] = e
    BY <1>1, <1>2, <2>2
  <2> QED BY <1>2, <2>1, <2>2 DEF handled, e
<1>7. InOrder'
  BY <1>4, <1>6 DEF InOrder
<1> QED BY <1>2, <1>5, <1>7 DEF handled, e

LEMMA OnEventReturnsKeeps ==
  ASSUME IInv, OnEventReturns, UNCHANGED wpa
  PROVE  IInv'
<1> USE DEF IInv
<1> DEFINE e == handler.event
<1>1. /\ handler.pc = "handle" /\ handler' = [pc |-> "take", event |-> NoEvent]
      /\ history' = [history EXCEPT !.deleted = @ \cup {e}, !.handled = Append(@, e)]
      /\ UNCHANGED <<ctrlVars, chan, mutex, caller, reader, opening, closing, wpa>>
      /\ opening.pc = "ok"
  BY Working DEF OnEventReturns
<1>2. handler' \in HandlerType /\ handler'.pc = "take" /\ handler'.event = NoEvent
  BY <1>1 DEF HandlerType, NoEvent
<1>3. /\ history'.handled = Append(history.handled, e)
      /\ history'.deleted = history.deleted \cup {e}
      /\ UNCHANGED <<history.timedOut, history.foreign, history.read, history.threw>>
  BY <1>1 DEF Shape, HistoryType
<1>4. /\ InOrder' /\ Passed' = Passed /\ history'.handled \in Seq(Nat)
      /\ \A i \in 1..Len(history'.handled) :
           \/ i \in 1..Len(history.handled) /\ history'.handled[i] = history.handled[i]
           \/ i = Len(history'.handled) /\ history'.handled[i] = e
  BY <1>1, <1>2, <1>3, EventHandled
<1>5. history' \in HistoryType
  <2>1. e \in Nat /\ Append(history.handled, e) \in Seq(Nat)
    BY <1>3, <1>4, Numbers
  <2> HIDE DEF e
  <2> QED BY <1>1, <2>1 DEF Shape, HistoryType
<1>6. ~history.threw
  BY <1>1 DEF Disposed
<1>7. Disposed'
  BY <1>1, <1>3, <1>4, <1>6 DEF Disposed
<1>8. Threads'
  BY <1>1, <1>2 DEF Threads, Busy, Done
<1>9. Shape'
  BY <1>1, <1>2, <1>5 DEF Shape, SocketsFit, ctrlVars
<1>10. Attaching'
  BY <1>1, <1>3, AttachingStays DEF ctrlVars, Asks
<1> QED BY <1>1, <1>3, <1>4, <1>7, <1>8, <1>9, <1>10, RestOfWorkers DEF ctrlVars

LEMMA HandlerEndsKeeps ==
  ASSUME IInv, OnEventThrows \/ TakeFails, UNCHANGED wpa
  PROVE  IInv'
<1> USE DEF IInv
<1> DEFINE e == handler.event
<1>1. /\ handler.pc \in {"take", "handle"} /\ handler' = [pc |-> "ended", event |-> NoEvent]
      /\ chan' = [chan EXCEPT !.threads = @ - 1]
      /\ UNCHANGED <<ctrlVars, mutex, caller, reader, opening, closing, wpa>>
      /\ opening.pc = "ok"
  BY Working DEF OnEventThrows, TakeFails, HandlerEnds
<1>2. handler' \in HandlerType /\ handler'.pc = "ended" /\ handler'.event = NoEvent
  BY <1>1 DEF HandlerType, NoEvent
<1>3. chan.threads - 1 = Busy(reader') + Busy(handler')
  <2>1. Busy(handler) = 1 /\ Busy(handler') = 0 /\ Busy(reader') = Busy(reader)
    BY <1>1, <1>2 DEF Busy, Done
  <2>2. Busy(reader) \in 0..1
    BY DEF Busy
  <2> QED BY <2>1, <2>2 DEF Threads
<1>4. /\ chan'.threads = chan.threads - 1
      /\ UNCHANGED <<chan.closed, chan.disconnected, chan.queue>>
  BY <1>1 DEF Shape, ChanType
<1>5. Threads' /\ chan'.threads \in 0..2
  BY <1>1, <1>2, <1>3, <1>4, OneThreadLess DEF Done
<1>6. chan' \in ChanType
  <2>1. chan.threads - 1 \in 0..2
    BY <1>4, <1>5
  <2> QED BY <1>1, <2>1 DEF Shape, ChanType
<1>7. CASE OnEventThrows
  <2>1. /\ handler.pc = "handle"
        /\ history' = [history EXCEPT !.threw = TRUE, !.handled = Append(@, e)]
    BY <1>7 DEF OnEventThrows
  <2>2. /\ history'.handled = Append(history.handled, e) /\ history'.threw = TRUE
        /\ UNCHANGED <<history.timedOut, history.foreign, history.read, history.deleted>>
    BY <2>1 DEF Shape, HistoryType
  <2>3. /\ InOrder' /\ Passed' = Passed /\ history'.handled \in Seq(Nat)
        /\ \A i \in 1..Len(history'.handled) :
             \/ i \in 1..Len(history.handled) /\ history'.handled[i] = history.handled[i]
             \/ i = Len(history'.handled) /\ history'.handled[i] = e
    BY <1>1, <1>2, <1>4, <2>1, <2>2, EventHandled
  <2>4. history' \in HistoryType
    <3>1. Append(history.handled, e) \in Seq(Nat)
      BY <2>2, <2>3
    <3> HIDE DEF e
    <3> QED BY <2>1, <3>1 DEF Shape, HistoryType
  <2>5. ~history.threw
    BY <2>1 DEF Disposed
  <2>6. Disposed'
    BY <1>1, <1>2, <2>2, <2>3, <2>5 DEF Disposed
  <2>7. Shape'
    BY <1>1, <1>2, <1>6, <2>4 DEF Shape, SocketsFit, ctrlVars
  <2>8. Attaching'
    BY <1>1, <2>2, AttachingStays DEF ctrlVars, Asks
  <2> QED BY <1>1, <1>4, <1>5, <2>2, <2>3, <2>6, <2>7, <2>8, RestOfWorkers DEF ctrlVars
<1>8. CASE TakeFails
  <2>1. handler.event = NoEvent /\ history' = history
    BY <1>8 DEF TakeFails, InOrder
  <2>2. Taken' = Taken /\ Passed' = Passed
    BY <1>1, <1>2, <1>4, <2>1 DEF Passed, Taken, Held
  <2>3. InOrder' /\ Disposed'
    BY <1>1, <1>2, <1>4, <2>1, <2>2 DEF InOrder, Disposed
  <2>4. Shape'
    BY <1>1, <1>2, <1>6, <2>1 DEF Shape, SocketsFit, ctrlVars
  <2>5. Attaching'
    BY <1>1, <2>1, AttachingStays DEF ctrlVars, Asks
  <2> QED BY <1>1, <1>4, <1>5, <2>1, <2>3, <2>4, <2>5, RestOfWorkers DEF ctrlVars
<1> QED BY <1>7, <1>8

-----------------------------------------------------------------------------
(* Open(), the keep-alive and OpenChannel(). *)

LEMMA OnlyWpa ==
  ASSUME IInv, UNCHANGED <<ctrlVars, channelVars>>, wpa' \in WpaType, Control'
  PROVE  IInv'
<1> USE DEF IInv, ctrlVars, channelVars
<1>1. Shape'
  BY DEF Shape, SocketsFit
<1>2. Turns' /\ AnswersMatch'
  BY DEF Turns, Requesting, AnswersMatch
<1>3. Answering' /\ NotYet'
  BY AnsweringStays, NotYetStays
<1>4. Attaching'
  BY AttachingStays DEF Asks
<1>5. Threads' /\ InOrder' /\ Disposed'
  BY ThreadsStay, EventsStay
<1> QED BY <1>1, <1>2, <1>3, <1>4, <1>5

LEMMA OpenEndsKeeps ==
  ASSUME IInv, OpenFails \/ OpenSucceeds
  PROVE  IInv'
<1> USE DEF IInv
<1>1. UNCHANGED <<ctrlVars, channelVars>> /\ wpa.pc = "opening"
  BY DEF OpenFails, OpenSucceeds
<1>2. closing = "idle" /\ ~wpa.open /\ wpa.keepAlive = "none"
  BY <1>1 DEF Control
<1>3. CASE OpenFails
  <2>1. /\ opening.pc = "failed" /\ wpa' \in WpaType /\ wpa'.pc \in {"threw", "retry"}
        /\ wpa'.open = wpa.open /\ wpa'.keepAlive = wpa.keepAlive
    <3>1. wpa.retries # Retries => wpa.retries + 1 \in 0..Retries
      BY SupplicantAssumption DEF Shape, WpaType
    <3> QED BY <1>3, <3>1 DEF OpenFails, Counted, Shape, WpaType
  <2>2. Control'
    BY <1>1, <1>2, <2>1 DEF Control, channelVars
  <2> QED BY <1>1, <2>1, <2>2, OnlyWpa
<1>4. CASE OpenSucceeds
  <2>1. /\ opening.pc = "ok" /\ wpa' \in WpaType /\ wpa'.pc = "open" /\ wpa'.open
        /\ wpa'.keepAlive = "delay"
    <3>1. 0 \in 0..Retries
      BY SupplicantAssumption
    <3> QED BY <1>4, <3>1 DEF OpenSucceeds, Shape, WpaType
  <2>2. Control'
    BY <1>1, <1>2, <2>1 DEF Control, channelVars
  <2> QED BY <1>1, <2>1, <2>2, OnlyWpa
<1> QED BY <1>3, <1>4

LEMMA KeepAliveKeeps ==
  ASSUME IInv, KeepAliveStep
  PROVE  IInv'
<1> USE DEF IInv
<1>1. CASE KeepAlivePings
  <2>1. /\ wpa.keepAlive = "delay" /\ ~chan.disconnected /\ Call(KeepAlive, 1, FALSE)
        /\ wpa' = [wpa EXCEPT !.keepAlive = "ping"]
        /\ UNCHANGED <<ctrlVars, chan, reader, handler, opening, closing, history>>
    BY <1>1 DEF KeepAlivePings
  <2>2. opening.pc = "ok" /\ closing = "idle" /\ caller[KeepAlive].pc = "idle"
    BY <2>1 DEF Control
  <2>3. /\ wpa' \in WpaType /\ wpa'.keepAlive = "ping" /\ wpa'.pc = wpa.pc /\ wpa'.open = wpa.open
    BY <2>1 DEF Shape, WpaType
  <2>4. Control'
    BY <2>1, <2>2, <2>3 DEF Control
  <2> QED BY <2>1, <2>2, <2>3, <2>4, CallKeeps, ChannelAssumption
<1>2. CASE DelayThrows \/ PingReturns \/ PingThrows
  <2>1. /\ wpa.keepAlive \in {"delay", "ping"} /\ caller[KeepAlive].pc = "idle"
        /\ UNCHANGED <<ctrlVars, channelVars>>
    BY <1>2 DEF DelayThrows, PingReturns, PingThrows, Control
  <2>2. /\ wpa' \in WpaType /\ wpa'.keepAlive \in {"delay", "ended"} /\ wpa'.pc = wpa.pc
        /\ wpa'.open = wpa.open
    BY <1>2 DEF DelayThrows, PingReturns, PingThrows, KeepAliveEnds, Shape, WpaType
  <2>3. Control'
    BY <2>1, <2>2 DEF Control, channelVars
  <2> QED BY <2>1, <2>2, <2>3, OnlyWpa
<1> QED BY <1>1, <1>2 DEF KeepAliveStep

\* What opening the channel leaves alone.
LEMMA RestOfOpening ==
  ASSUME IInv, UNCHANGED <<mutex, caller, closing, history>>
  PROVE  /\ Turns' /\ AnswersMatch'
         /\ UNCHANGED <<chan.threads, chan.queue, reader, handler>> =>
              Threads' /\ InOrder' /\ Disposed'
<1> USE DEF IInv
<1>1. Turns' /\ AnswersMatch'
  BY DEF Turns, Requesting, AnswersMatch
<1>2. UNCHANGED <<chan.threads, chan.queue, reader, handler>> => Threads' /\ InOrder' /\ Disposed'
  BY ThreadsStay, EventsStay
<1> QED BY <1>1, <1>2

LEMMA OpenKeeps ==
  ASSUME IInv, Open
  PROVE  IInv'
<1> USE DEF IInv
<1>1. /\ wpa.pc \in {"new", "retry"} /\ opening.pc \in {"idle", "failed"}
      /\ opening' = [pc |-> "event", tries |-> 1] /\ wpa' = [wpa EXCEPT !.pc = "opening"]
      /\ UNCHANGED <<ctrlVars, chan, mutex, caller, reader, handler, closing, history>>
  BY DEF Open, OpenBegins
<1>2. /\ opening' \in OpeningType /\ opening'.pc = "event" /\ wpa' \in WpaType
      /\ wpa'.pc = "opening" /\ wpa'.open = wpa.open /\ wpa'.keepAlive = wpa.keepAlive
  BY <1>1 DEF OpeningType, Shape, WpaType
<1>3. Shape'
  BY <1>1, <1>2 DEF Shape, SocketsFit, ctrlVars
<1>4. Answering' /\ NotYet'
  BY <1>1, AnsweringStays, NotYetStays DEF ctrlVars
<1>5. Control'
  BY <1>1, <1>2 DEF Control
<1>6. Attaching'
  BY <1>1, <1>2 DEF Attaching, Unattached, Asks, ctrlVars
<1> QED BY <1>1, <1>3, <1>4, <1>5, <1>6, RestOfOpening

LEMMA OpenEventSocketKeeps ==
  ASSUME IInv, OpenEventSocket, UNCHANGED wpa
  PROVE  IInv'
<1> USE DEF IInv
<1>1. /\ opening.pc = "event" /\ Opened("event") /\ "event" \in Sockets /\ "command" \in Sockets
      /\ UNCHANGED <<server, count, chan, mutex, caller, reader, handler, closing, history, wpa>>
  BY DEF OpenEventSocket, Sockets
<1>2. closing = "idle" /\ wpa.pc = "opening" /\ wpa.keepAlive = "none" /\ ~wpa.open
  <2>1. wpa.pc \in {"new", "opening", "retry", "settle", "open", "threw", "closing"}
    BY DEF Shape, WpaType
  <2> QED BY <1>1, <2>1 DEF Control
<1>3. /\ SocketsFit' /\ lost' \in Nat
      /\ IF OpenResult("event") = "ok"
         THEN /\ ~socket["event"].open /\ socket'["event"].open /\ socket'["event"].inbox = <<>>
              /\ \A t \in Sockets : t # "event" => socket'[t] = socket[t]
         ELSE socket' = socket
  BY <1>1, SocketOpens
<1>4. socket'["command"] = socket["command"]
  BY <1>1, <1>3
<1>5. /\ opening' \in OpeningType
      /\ IF OpenResult("event") = "ok" THEN opening'.pc = "attach"
         ELSE opening'.pc \in {"event", "failed"}
  <2>1. opening.tries + 1 \in Nat
    BY DEF Shape, OpeningType
  <2> QED BY <1>1, <2>1 DEF OpenEventSocket, Shape, OpeningType
<1>6. Shape'
  BY <1>1, <1>3, <1>5 DEF Shape
<1>7. Answering' /\ NotYet'
  BY <1>1, <1>4, AnsweringStays, NotYetStays
<1>8. Control'
  BY <1>1, <1>2, <1>5 DEF Control
<1>9. Attaching'
  BY <1>1, <1>2, <1>3, <1>5 DEF Attaching, Unattached, Asks
<1> QED BY <1>1, <1>6, <1>7, <1>8, <1>9, RestOfOpening

LEMMA SendAttachKeeps ==
  ASSUME IInv, SendAttach, UNCHANGED wpa
  PROVE  IInv'
<1> USE DEF IInv
<1>1. /\ opening.pc = "attach" /\ "event" \in Sockets /\ "command" \in Sockets
      /\ UNCHANGED <<socket, lost, chan, mutex, caller, reader, handler, closing, history, wpa>>
  BY DEF SendAttach, Sockets
<1>2. closing = "idle" /\ wpa.pc = "opening" /\ wpa.keepAlive = "none" /\ ~wpa.open
  <2>1. wpa.pc \in {"new", "opening", "retry", "settle", "open", "threw", "closing"}
    BY DEF Shape, WpaType
  <2> QED BY <1>1, <2>1 DEF Control
<1>3. Unattached /\ socket["event"].open
  BY <1>1 DEF Attaching
<1>4. CASE Connected("event")
  <2>1. Ask("event") /\ opening' = [pc |-> "answer", tries |-> 0]
    BY <1>4 DEF SendAttach
  <2>2. /\ server' \in ServerType /\ count' \in CountType /\ count'.events = count.events
        /\ server'.up = server.up /\ server'.id = server.id
        /\ server'.attached = server.attached
        /\ Asks("event")' = Asks("event") \cup {Len(server.asked) + 1}
        /\ Asks("command")' = Asks("command")
        /\ \A i \in DOMAIN server.asked : server'.asked[i] = server.asked[i]
    BY <1>1, <2>1, OneMoreAsked
  <2>3. opening' \in OpeningType /\ opening'.pc = "answer"
    BY <2>1 DEF OpeningType
  <2>4. Shape'
    BY <1>1, <2>2, <2>3 DEF Shape, SocketsFit
  <2>5. Answering' /\ NotYet'
    BY <1>1, <2>2 DEF Answering, NotYet, Asks, Awaited
  <2>6. Control'
    BY <1>1, <1>2, <2>3 DEF Control
  <2>7. Attaching'
    BY <1>1, <1>3, <2>2, <2>3 DEF Attaching, Unattached
  <2> QED BY <1>1, <2>4, <2>5, <2>6, <2>7, RestOfOpening
<1>5. CASE ~Connected("event")
  <2>1. opening' = [opening EXCEPT !.pc = "failed"] /\ UNCHANGED <<server, count>>
    BY <1>5 DEF SendAttach
  <2>2. opening' \in OpeningType /\ opening'.pc = "failed"
    BY <2>1 DEF OpeningType, Shape
  <2>3. Shape'
    BY <1>1, <2>1, <2>2 DEF Shape, SocketsFit
  <2>4. Answering' /\ NotYet'
    BY <1>1, <2>1, AnsweringStays, NotYetStays
  <2>5. Control'
    BY <1>1, <1>2, <2>2 DEF Control
  <2>6. Attaching'
    BY <1>1, <1>3, <2>1, <2>2 DEF Attaching
  <2> QED BY <1>1, <2>3, <2>4, <2>5, <2>6, RestOfOpening
<1> QED BY <1>4, <1>5

LEMMA AttachAnsweredKeeps ==
  ASSUME IInv, AttachAnswered, UNCHANGED wpa
  PROVE  IInv'
<1> USE DEF IInv
<1> DEFINE inbox == socket["event"].inbox
<1>1. /\ opening.pc = "answer" /\ HasMail("event") /\ TakeMail("event")
      /\ "event" \in Sockets /\ "command" \in Sockets
      /\ chan' = [chan EXCEPT !.closed = FALSE] /\ opening' = [opening EXCEPT !.pc = "command"]
      /\ UNCHANGED <<server, count, lost, mutex, caller, reader, handler, closing, history, wpa>>
  BY DEF AttachAnswered, Sockets
<1>2. closing = "idle" /\ wpa.pc = "opening" /\ wpa.keepAlive = "none" /\ ~wpa.open
  <2>1. wpa.pc \in {"new", "opening", "retry", "settle", "open", "threw", "closing"}
    BY DEF Shape, WpaType
  <2> QED BY <1>1, <2>1 DEF Control
<1>3. /\ SocketsFit' /\ socket'["event"].inbox = Tail(inbox) /\ socket'["event"].open
      /\ socket'["command"] = socket["command"] /\ inbox \in Seq(Nat) /\ inbox # <<>>
  BY <1>1, MailTaken DEF HasMail
<1>4. Asks("event") = {} /\ history.read = 0 /\ Numbered(Tail(inbox), count.events, 0, 0)
  <2>1. Asks("event") = {} /\ Numbered(inbox, count.events, 1, 0)
    BY <1>1, <1>3 DEF Attaching, Mail
  <2>2. count.events \in Nat /\ history.read = 0
    BY <1>1, Numbers DEF NotYet
  <2> HIDE DEF inbox
  <2> QED BY <1>3, <2>1, <2>2, OneEventTaken
<1>5. /\ chan' \in ChanType /\ ~chan'.closed
      /\ UNCHANGED <<chan.queue, chan.threads, chan.disconnected>>
      /\ opening' \in OpeningType /\ opening'.pc = "command"
  BY <1>1 DEF Shape, ChanType, OpeningType
<1>6. Shape'
  BY <1>1, <1>3, <1>5 DEF Shape
<1>7. Answering' /\ NotYet'
  BY <1>1, <1>3, <1>5, AnsweringStays, NotYetStays
<1>8. Control'
  BY <1>1, <1>2, <1>5 DEF Control
<1>9. Attaching'
  BY <1>1, <1>3, <1>4, <1>5 DEF Attaching, Mail, Asks
<1> QED BY <1>1, <1>5, <1>6, <1>7, <1>8, <1>9, RestOfOpening

LEMMA AttachTimesOutKeeps ==
  ASSUME IInv, AttachTimesOut, UNCHANGED wpa
  PROVE  IInv'
<1> USE DEF IInv
<1>1. /\ opening.pc = "answer" /\ opening' = [opening EXCEPT !.pc = "failed"]
      /\ UNCHANGED <<ctrlVars, chan, mutex, caller, reader, handler, closing, history, wpa>>
  BY DEF AttachTimesOut
<1>2. opening' \in OpeningType /\ opening'.pc = "failed" /\ socket["event"].open
  BY <1>1 DEF Shape, OpeningType, Attaching
<1>3. Shape'
  BY <1>1, <1>2 DEF Shape, SocketsFit, ctrlVars
<1>4. Answering' /\ NotYet'
  BY <1>1, AnsweringStays, NotYetStays DEF ctrlVars
<1>5. Control'
  BY <1>1, <1>2 DEF Control
<1>6. Attaching'
  BY <1>1, <1>2 DEF Attaching, ctrlVars
<1> QED BY <1>1, <1>3, <1>4, <1>5, <1>6, RestOfOpening

LEMMA OpenCommandSocketKeeps ==
  ASSUME IInv, OpenCommandSocket, UNCHANGED wpa
  PROVE  IInv'
<1> USE DEF IInv
<1>1. /\ opening.pc = "command" /\ Opened("command")
      /\ "event" \in Sockets /\ "command" \in Sockets
      /\ UNCHANGED <<server, count, mutex, caller, closing, history, wpa>>
  BY DEF OpenCommandSocket, Sockets
<1>2. closing = "idle" /\ wpa.pc = "opening" /\ wpa.keepAlive = "none" /\ ~wpa.open
  <2>1. wpa.pc \in {"new", "opening", "retry", "settle", "open", "threw", "closing"}
    BY DEF Shape, WpaType
  <2> QED BY <1>1, <2>1 DEF Control
<1>3. /\ SocketsFit' /\ lost' \in Nat
      /\ IF OpenResult("command") = "ok"
         THEN /\ socket'["command"].inbox = <<>>
              /\ \A t \in Sockets : t # "command" => socket'[t] = socket[t]
         ELSE socket' = socket
  BY <1>1, SocketOpens
<1>4. socket'["event"] = socket["event"] /\ socket["event"].open /\ ~chan.closed
  BY <1>1, <1>3 DEF Attaching, Control
<1>5. CASE OpenResult("command") = "ok"
  <2>1. /\ opening' = [pc |-> "ok", tries |-> 0] /\ chan' = [chan EXCEPT !.threads = 2]
        /\ reader' = [reader EXCEPT !.pc = "recv"] /\ handler' = [handler EXCEPT !.pc = "take"]
    BY <1>5 DEF OpenCommandSocket, EventThreads
  <2>2. /\ opening' \in OpeningType /\ opening'.pc = "ok" /\ chan' \in ChanType
        /\ chan'.threads = 2 /\ UNCHANGED <<chan.queue, chan.closed>>
        /\ reader' \in ReaderType /\ reader'.pc = "recv" /\ reader'.event = NoEvent
        /\ handler' \in HandlerType /\ handler'.pc = "take" /\ handler'.event = NoEvent
    BY <1>1, <2>1 DEF OpeningType, Shape, ChanType, ReaderType, HandlerType, NotYet
  <2>3. Shape'
    BY <1>1, <1>3, <2>2 DEF Shape
  <2>4. Answering'
    BY <1>1, <1>3, <1>5 DEF Answering, NotYet, Asks
  <2>5. NotYet'
    BY <2>2 DEF NotYet
  <2>6. Control'
    BY <1>1, <1>2, <1>4, <2>2 DEF Control
  <2>7. Attaching'
    BY <1>1, <1>4, <2>2 DEF Attaching, Mail, Asks
  <2>8. Threads'
    BY <1>1, <1>2, <2>2 DEF Threads, Busy, Done
  <2>9. reader.event = NoEvent /\ handler.event = NoEvent /\ reader.pc = "none" /\ ~history.threw
    BY <1>1 DEF NotYet
  <2>10. Taken' = Taken /\ Passed' = Passed
    BY <1>1, <2>2, <2>9 DEF Taken, Passed, Held
  <2>11. InOrder' /\ Disposed'
    BY <1>1, <2>2, <2>9, <2>10 DEF InOrder, Disposed
  <2> QED BY <1>1, <2>3, <2>4, <2>5, <2>6, <2>7, <2>8, <2>11, RestOfOpening
<1>6. CASE OpenResult("command") # "ok"
  <2>1. opening' = [opening EXCEPT !.pc = "failed"] /\ UNCHANGED <<chan, reader, handler, socket>>
    BY <1>3, <1>6 DEF OpenCommandSocket
  <2>2. opening' \in OpeningType /\ opening'.pc = "failed"
    BY <2>1 DEF OpeningType, Shape
  <2>3. Shape'
    BY <1>1, <1>3, <2>1, <2>2 DEF Shape
  <2>4. Answering' /\ NotYet'
    BY <1>1, <2>1, AnsweringStays, NotYetStays
  <2>5. Control'
    BY <1>1, <1>2, <2>1, <2>2 DEF Control
  <2>6. Attaching'
    BY <1>1, <1>4, <2>1, <2>2 DEF Attaching
  <2> QED BY <1>1, <2>1, <2>3, <2>4, <2>5, <2>6, RestOfOpening
<1> QED BY <1>5, <1>6

-----------------------------------------------------------------------------
(* Close() and CloseChannel(). *)

LEMMA CloseKeeps ==
  ASSUME IInv, Close
  PROVE  IInv'
<1> USE DEF IInv
<1>1. /\ wpa.pc \in {"open", "threw"} /\ wpa' = [wpa EXCEPT !.pc = "closing", !.open = FALSE]
      /\ CloseBegins
      /\ UNCHANGED <<ctrlVars, mutex, caller, reader, handler, opening, history>>
  BY DEF Close
<1>2. /\ wpa' \in WpaType /\ wpa'.pc = "closing" /\ ~wpa'.open /\ wpa'.keepAlive = wpa.keepAlive
  BY <1>1 DEF Shape, WpaType
<1>3. opening.pc = IF wpa.pc = "open" THEN "ok" ELSE "failed"
  BY <1>1 DEF Control
<1>4. /\ chan' \in ChanType /\ UNCHANGED <<chan.threads, chan.queue>>
      /\ \/ closing' = "event" /\ chan'.disconnected
         \/ closing' = "done" /\ chan' = chan /\ chan.closed
  BY <1>1 DEF CloseBegins, Shape, ChanType
<1>5. Shape'
  BY <1>1, <1>2, <1>4 DEF Shape, SocketsFit, ctrlVars
<1>6. Answering' /\ NotYet'
  BY <1>1, <1>4, AnsweringStays, NotYetStays DEF ctrlVars
<1>7. closing' = "done" => opening.pc = "failed"
  BY <1>1, <1>3, <1>4 DEF CloseBegins, Control
<1>8. Control'
  BY <1>1, <1>2, <1>3, <1>4, <1>7 DEF Control
<1>9. Attaching'
  BY <1>1, <1>3, <1>4 DEF Attaching, Mail, Asks, ctrlVars
<1>10. Threads'
  BY <1>1, <1>3, <1>4, <1>7 DEF Threads, Busy, Done, NotYet
<1>11. InOrder' /\ Disposed'
  BY <1>1, <1>4, EventsStay
<1>12. Turns' /\ AnswersMatch'
  BY <1>1 DEF Turns, Requesting, AnswersMatch
<1> QED BY <1>5, <1>6, <1>8, <1>9, <1>10, <1>11, <1>12

LEMMA CloseStepKeeps ==
  ASSUME IInv, CloseStep, UNCHANGED wpa
  PROVE  IInv'
<1> USE DEF IInv
<1>1. /\ UNCHANGED <<server, count, lost, mutex, caller, reader, handler, opening, history, wpa>>
      /\ closing # "idle" /\ "event" \in Sockets /\ "command" \in Sockets
      /\ closing' \in {"queue", "join", "command", "pump", "done"}
  BY DEF CloseStep, CloseEventSocket, CloseQueue, JoinRecvThread, CloseCommandSocket, LastPump,
     ctrlVars, Sockets
<1>2. /\ chan' \in ChanType
      /\ UNCHANGED <<chan.threads, chan.queue, chan.closed, chan.disconnected>>
  BY DEF CloseStep, CloseEventSocket, CloseQueue, JoinRecvThread, CloseCommandSocket, LastPump,
     Shape, ChanType
<1>3. opening.pc \in {"ok", "failed"}
  BY <1>1 DEF Control
<1>4. /\ SocketsFit'
      /\ \A s \in Sockets : socket'[s] = socket[s] \/ ~socket'[s].open
  <2>1. CASE CloseEventSocket
    BY <1>1, <2>1, SocketCloses DEF CloseEventSocket
  <2>2. CASE CloseCommandSocket
    BY <1>1, <2>2, SocketCloses DEF CloseCommandSocket
  <2>3. CASE UNCHANGED socket
    BY <2>3 DEF Shape, SocketsFit
  <2>4. CloseQueue \/ JoinRecvThread \/ LastPump => UNCHANGED socket
    BY DEF CloseQueue, JoinRecvThread, LastPump, ctrlVars
  <2> QED BY <2>1, <2>2, <2>3, <2>4 DEF CloseStep
<1>5. Shape'
  BY <1>1, <1>2, <1>4 DEF Shape
<1>6. Turns' /\ AnswersMatch'
  BY <1>1 DEF Turns, Requesting, AnswersMatch
<1>7. Answering'
  BY <1>1, <1>4 DEF Answering, Asks, Awaited
<1>8. Control'
  BY <1>1, <1>2 DEF Control
<1>9. NotYet'
  BY <1>1, <1>2, <1>4 DEF NotYet, Asks
<1>10. Attaching'
  BY <1>1, <1>3, <1>4 DEF Attaching, Mail, Asks
<1>11. Threads'
  <2>1. CASE JoinRecvThread
    <3>1. Busy(reader) \in 0..1 /\ Busy(handler) \in 0..1 /\ Busy(reader) + Busy(handler) = 0
      BY <2>1 DEF JoinRecvThread, Threads, Busy
    <3>2. Busy(reader) = 0 /\ Busy(handler) = 0
      BY <3>1
    <3>3. Done(reader) /\ Done(handler) /\ closing' = "command"
      BY <2>1, <3>2 DEF Busy, JoinRecvThread
    <3> QED BY <1>1, <1>2, <3>3 DEF Threads, Busy, Done
  <2>2. CASE LastPump
    <3>1. \A c \in Callers : ~Requesting(c)
      BY <2>2 DEF LastPump, Requesting
    <3>2. mutex.owner = Nobody
      BY <3>1 DEF Turns, Shape, MutexType
    <3>3. Range(mutex.waiting) = {}
      BY <3>2, EmptyList DEF Turns
    <3>4. \A c \in Callers : caller[c].pc = "idle"
      <4> TAKE c \in Callers
      <4>1. caller[c].pc \in {"idle", "lock", "send", "recv"} /\ caller[c].pc # "lock"
        BY <3>3 DEF Shape, CallerType, Turns
      <4> QED BY <3>1, <4>1 DEF Requesting
    <3>5. closing = "pump"
      BY <2>2 DEF LastPump
    <3> QED BY <1>1, <1>2, <3>4, <3>5 DEF Threads, Busy, Done
  <2>3. CASE CloseEventSocket \/ CloseQueue
    BY <1>1, <1>2, <2>3 DEF Threads, Busy, Done, CloseEventSocket, CloseQueue
  <2>4. CASE CloseCommandSocket
    BY <1>1, <1>2, <2>4 DEF Threads, Busy, Done, CloseCommandSocket
  <2> QED BY <2>1, <2>2, <2>3, <2>4 DEF CloseStep
<1>12. InOrder' /\ Disposed'
  BY <1>1, <1>2, EventsStay
<1> QED BY <1>5, <1>6, <1>7, <1>8, <1>9, <1>10, <1>11, <1>12

-----------------------------------------------------------------------------
(* Together. *)

LEMMA Initially == Init => IInv
<1> SUFFICES ASSUME Init PROVE IInv
  OBVIOUS
<1> USE DEF Init, ChannelInit, CtrlInit
<1>1. PICK up \in BOOLEAN :
        server = [up |-> up, id |-> IF up THEN 1 ELSE 0, attached |-> FALSE, asked |-> <<>>]
  OBVIOUS
<1>2. /\ server \in ServerType /\ \A s \in Sockets : Asks(s) = {}
      /\ ~server.attached
  <2>1. (IF up THEN 1 ELSE 0) \in 0..MaxServers
    BY Naturals
  <2>2. <<>> \in Seq([no : 1..MaxAsked, socket : Sockets])
    OBVIOUS
  <2> QED BY <1>1, <2>1, <2>2 DEF ServerType, Asks
<1>3. SocketsFit /\ \A s \in Sockets : socket[s] = NoSocket
  <2>1. NoSocket \in SocketType /\ NoSocket.inbox = <<>>
    BY Naturals DEF NoSocket, SocketType
  <2> QED BY <2>1 DEF SocketsFit
<1>4. /\ chan \in ChanType /\ mutex \in MutexType /\ reader \in ReaderType
      /\ handler \in HandlerType /\ opening \in OpeningType /\ history \in HistoryType
      /\ count \in CountType /\ lost \in Nat
  BY Naturals DEF ChanType, MutexType, ReaderType, HandlerType, OpeningType, HistoryType,
     CountType, NoEvent
<1>5. caller \in [Callers -> CallerType] /\ wpa \in WpaType
  BY SupplicantAssumption DEF CallerType, Idle, WpaType
<1>6. Shape
  BY <1>2, <1>3, <1>4, <1>5 DEF Shape
<1>7. \A c \in Callers : caller[c].pc = "idle"
  BY DEF Idle
<1>8. Turns
  BY <1>7, EmptyList, ChannelAssumption DEF Turns, Requesting
<1>9. \A s \in Sockets : ~socket[s].open /\ socket[s].inbox = <<>>
  BY <1>3 DEF NoSocket
<1>10. "event" \in Sockets /\ "command" \in Sockets
  BY DEF Sockets
<1>11. Answering /\ AnswersMatch /\ NotYet
  BY <1>2, <1>7, <1>9, <1>10 DEF Answering, AnswersMatch, NotYet
<1>12. Control
  BY <1>7, ChannelAssumption DEF Control
<1>13. Attaching
  BY <1>2, <1>9, <1>10 DEF Attaching, Unattached
<1>14. Threads /\ InOrder /\ Disposed
  BY DEF Threads, Busy, Done, InOrder, Disposed, Passed, Taken, Held
<1> QED BY <1>6, <1>8, <1>11, <1>12, <1>13, <1>14 DEF IInv

LEMMA EveryStep == IInv /\ [Next]_vars => IInv'
<1> SUFFICES ASSUME IInv, [Next]_vars PROVE IInv'
  OBVIOUS
<1>1. CASE UNCHANGED vars
  <2>1. UNCHANGED <<ctrlVars, channelVars, wpa>>
    BY <1>1 DEF vars
  <2>2. wpa' \in WpaType /\ Control'
    BY <2>1, ControlStays DEF IInv, Shape, channelVars
  <2> QED BY <2>1, <2>2, OnlyWpa
<1>2. CASE Server
  BY <1>2, AnswersKeeps, SendsEventKeeps, DiesAndStartsKeeps DEF Server
<1>3. CASE Open \/ OpenFails \/ OpenSucceeds \/ Close \/ KeepAliveStep
  BY <1>3, OpenKeeps, OpenEndsKeeps, CloseKeeps, KeepAliveKeeps
<1>4. ASSUME NEW c \in Callers, Coroutine(CallerStep(c) \/ ReceiveTimesOut(c)) PROVE IInv'
  BY <1>4, SendKeeps, SendFailsKeeps, ReceiveKeeps, ReceiveFailsKeeps, TimesOutKeeps
     DEF Coroutine, CallerStep
<1>5. ASSUME NEW c \in Callers, RequestOK(c) \/ SetWpaProperty(c) \/ ListSta(c) PROVE IInv'
  <2>1. CASE RequestOK(c)
    <3>1. Request(c, 1, FALSE)
      BY <2>1 DEF RequestOK
    <3> QED BY <3>1, RequestKeeps
  <2>2. CASE SetWpaProperty(c)
    <3>1. Request(c, 2, FALSE)
      BY <2>2 DEF SetWpaProperty
    <3> QED BY <3>1, RequestKeeps
  <2>3. CASE ListSta(c)
    <3>1. PICK n \in 1 .. 2 : Request(c, n, TRUE)
      BY <2>3 DEF ListSta
    <3>2. n \in Nat /\ TRUE \in BOOLEAN
      BY <3>1
    <3> QED BY <3>1, <3>2, RequestKeeps
  <2> QED BY <1>5, <2>1, <2>2, <2>3
<1>6. CASE Coroutine(ReaderStep)
  BY <1>6, ReadEventKeeps, PushEventKeeps, PushFailsKeeps, ReadFailsKeeps, ReaderLeavesKeeps
     DEF Coroutine, ReaderStep
<1>7. CASE Coroutine(HandlerStep)
  BY <1>7, TakeEventKeeps, OnEventReturnsKeeps, HandlerEndsKeeps DEF Coroutine, HandlerStep
<1>8. CASE Coroutine(OpenStep)
  BY <1>8, OpenEventSocketKeeps, SendAttachKeeps, AttachAnsweredKeeps, AttachTimesOutKeeps,
     OpenCommandSocketKeeps DEF Coroutine, OpenStep
<1>9. CASE Coroutine(CloseStep)
  BY <1>9, CloseStepKeeps DEF Coroutine
<1> QED BY <1>1, <1>2, <1>3, <1>4, <1>5, <1>6, <1>7, <1>8, <1>9 DEF Next

\* The inductive invariant holds in every reachable state.
THEOREM Invariance == Spec => []IInv
  BY Initially, EveryStep, PTL DEF Spec

\* Until a request has timed out, each caller is given the answer to its own request,
\* whoever else makes requests (WpaChannel.cpp, Request() and ListSta()).
THEOREM AnswersGoHome == Spec => []AnswersMatch
<1>1. IInv => AnswersMatch
  BY DEF IInv
<1> QED BY <1>1, Invariance, PTL

\* Events reach OnEvent() once and in order, each is deleted, and after CloseChannel()
\* neither of the event threads and no request is left.
THEOREM EventsArePassedOn == Spec => []EventPipeline
<1>1. IInv => EventPipeline
  BY ShapeIsType, PipelineIsInOrder, NobodyIsLeft DEF IInv, EventPipeline
<1> QED BY <1>1, Invariance, PTL
=============================================================================
