----------------------------- MODULE WpaChannel -----------------------------
(***************************************************************************)
(* WpaChannel (src/pipedal_p2pd/WpaChannel.cpp): coroutines that make      *)
(* requests, one at a time; ReadEventsProc(), which passes the events of   *)
(* the event socket to a bounded queue, and ForegroundEventHandler(),      *)
(* which hands them to OnEvent(); OpenChannel() and CloseChannel().        *)
(*                                                                         *)
(* One step is what a coroutine does between two suspensions.              *)
(***************************************************************************)
EXTENDS WpaCtrl

CONSTANTS
  Callers,   \* coroutines that make requests
  KeepAlive, \* the one of them that pings: what becomes of its requests is followed
  Nobody,    \* nobody has the mutex
  QueueSize, \* capacity of eventMessageQueue (512)
  OpenTries  \* tries to open the event socket (6)

ASSUME ChannelAssumption == KeepAlive \in Callers /\ Nobody \notin Callers /\ {QueueSize, OpenTries} \subseteq Nat \ {0}

VARIABLES
  chan,     \* closed, disconnected, recvThreadCount, the queue and is it closed
  mutex,    \* requestMutex: its owner and who waits for it
  caller,   \* per caller: where it is, the request, how many more, and the result
  reader,   \* ReadEventsProc(): where it is, and its event
  handler,  \* ForegroundEventHandler(): likewise
  opening,  \* OpenChannel(): where it is, and its tries
  closing,  \* CloseChannel(): where it is
  history   \* did a request time out, a caller get a foreign answer, OnEvent() throw;
            \* how many events were read, which were handled, and which deleted

channelVars == <<chan, mutex, caller, reader, handler, opening, closing, history>>

NoEvent == 0
Idle == [pc |-> "idle", no |-> 0, left |-> 0, list |-> FALSE, result |-> "none"]

ChannelTypeOK ==
  /\ CtrlTypeOK
  /\ chan.closed \in BOOLEAN /\ chan.disconnected \in BOOLEAN /\ chan.threads \in 0..2
  /\ chan.queue \in Seq(Nat) /\ chan.queueClosed \in BOOLEAN
  /\ mutex.owner \in Callers \cup {Nobody} /\ mutex.waiting \in Seq(Callers)
  /\ \A c \in Callers : caller[c].pc \in {"idle", "lock", "send", "recv"}
  /\ reader.pc \in {"none", "recv", "push", "leave", "ended"}
  /\ handler.pc \in {"none", "take", "handle", "ended"}
  /\ opening.pc \in {"idle", "event", "attach", "answer", "command", "ok", "failed"}
  /\ closing \in {"idle", "event", "queue", "join", "command", "pump", "done"}

ChannelInit ==
  /\ CtrlInit
  /\ chan = [closed |-> TRUE, disconnected |-> FALSE, threads |-> 0, queue |-> <<>>,
             queueClosed |-> FALSE]
  /\ mutex = [owner |-> Nobody, waiting |-> <<>>]
  /\ caller = [c \in Callers |-> Idle]
  /\ reader = [pc |-> "none", event |-> NoEvent]
  /\ handler = [pc |-> "none", event |-> NoEvent]
  /\ opening = [pc |-> "idle", tries |-> 0]
  /\ closing = "idle"
  /\ history = [timedOut |-> FALSE, foreign |-> FALSE, threw |-> FALSE,
                read |-> 0, handled |-> <<>>, deleted |-> {}]

-----------------------------------------------------------------------------
(* Request() and ListSta(). *)

\* A caller that wants the mutex has it at once or waits for its turn.
GoesAhead == TRUE  \* a mutant: no mutex
GetsMutex == mutex.owner = Nobody

\* A Request(), `n` of them one after the other, or a ListSta() of n requests.
Call(c, n, list) ==
  /\ caller' = [caller EXCEPT ![c] = [Idle EXCEPT !.pc = IF GetsMutex THEN "send" ELSE "lock",
                                                  !.left = n, !.list = list]]
  /\ mutex' = IF GetsMutex THEN [mutex EXCEPT !.owner = c]
                           ELSE [mutex EXCEPT !.waiting = Append(@, c)]

\* Its CoLockGuard goes, and the mutex to the first one that waits; then it either is
\* done (`result`) or makes its next request.
Leave(c, result) ==
  LET next == IF mutex.waiting = <<>> THEN Nobody ELSE Head(mutex.waiting)
      again == result = "ok" /\ caller[c].left > 1
      own == [Idle EXCEPT !.result = IF c = KeepAlive THEN result ELSE @]
      later == [caller[c] EXCEPT !.left = @ - 1, !.pc = IF next = Nobody THEN "send" ELSE "lock"]
  IN  /\ mutex' = [owner |-> IF next = Nobody /\ again THEN c ELSE next,
                   waiting |-> (IF next = Nobody THEN <<>> ELSE Tail(mutex.waiting)) \o
                               (IF again /\ next # Nobody THEN <<c>> ELSE <<>>)]
      /\ caller' = [d \in Callers |-> IF d = c THEN IF again THEN later ELSE own
                                      ELSE IF d = next THEN [caller[d] EXCEPT !.pc = "send"]
                                      ELSE caller[d]]

Send(c) ==
  /\ caller[c].pc = "send"
  /\ Ask("command")
  /\ caller' = [caller EXCEPT ![c].pc = "recv", ![c].no = count.asked + 1]
  /\ UNCHANGED <<socket, lost, chan, mutex, reader, handler, opening, closing, history>>

\* The socket is closed, or its server is gone.
SendFails(c) ==
  /\ caller[c].pc = "send" /\ ~Connected("command")
  /\ Leave(c, "failed")
  /\ UNCHANGED <<ctrlVars, chan, reader, handler, opening, closing, history>>

\* The next datagram is the answer.  ListSta() goes on, with the mutex, until the last
\* station; whether that is what the answer says is not known here.
Receive(c) ==
  /\ caller[c].pc = "recv" /\ HasMail("command")
  /\ LET own == Head(socket["command"].inbox) = caller[c].no
     IN  /\ history' = [history EXCEPT !.foreign = @ \/ ~own]
         /\ IF caller[c].list /\ caller[c].left > 1
            THEN /\ caller' = [caller EXCEPT ![c].pc = "send", ![c].left = @ - 1]
                 /\ UNCHANGED mutex
            ELSE Leave(c, IF own THEN "ok" ELSE "wrong")
  /\ TakeMail("command")
  /\ UNCHANGED <<server, count, lost, chan, reader, handler, opening, closing>>

ReceiveTimesOut(c) ==
  /\ caller[c].pc = "recv" /\ socket["command"].open /\ ~HasMail("command")
  /\ Leave(c, "failed")
  /\ history' = [history EXCEPT !.timedOut = TRUE]
  /\ UNCHANGED <<ctrlVars, chan, reader, handler, opening, closing>>

ReceiveFails(c) ==
  /\ caller[c].pc = "recv" /\ ~socket["command"].open
  /\ Leave(c, "failed")
  /\ UNCHANGED <<ctrlVars, chan, reader, handler, opening, closing, history>>

CallerStep(c) == Send(c) \/ SendFails(c) \/ Receive(c) \/ ReceiveFails(c)

-----------------------------------------------------------------------------
(* ReadEventsProc(), on the pool. *)

\* A datagram is taken; Push() suspends only when the queue is full.
ReadEvent ==
  /\ reader.pc = "recv" /\ HasMail("event")
  /\ IF Len(chan.queue) < QueueSize /\ ~chan.queueClosed
     THEN /\ chan' = [chan EXCEPT !.queue = Append(@, Head(socket["event"].inbox))]
          /\ UNCHANGED reader
     ELSE /\ reader' = [pc |-> "push", event |-> Head(socket["event"].inbox)]
          /\ UNCHANGED chan
  /\ TakeMail("event")
  /\ history' = [history EXCEPT !.read = @ + 1]
  /\ UNCHANGED <<server, count, lost, mutex, caller, handler, opening, closing>>

PushEvent ==
  /\ reader.pc = "push" /\ ~chan.queueClosed /\ Len(chan.queue) < QueueSize
  /\ chan' = [chan EXCEPT !.queue = Append(@, reader.event)]
  /\ reader' = [pc |-> "recv", event |-> NoEvent]
  /\ UNCHANGED <<ctrlVars, mutex, caller, handler, opening, closing, history>>

Kept(e) == history  \* a mutant: the event is forgotten
Deletes(e) == [history EXCEPT !.deleted = @ \cup {e}]

\* Push() throws because the queue is closed: the event is deleted.
PushFails ==
  /\ reader.pc = "push" /\ chan.queueClosed
  /\ reader' = [pc |-> "leave", event |-> NoEvent]
  /\ history' = Deletes(reader.event)
  /\ UNCHANGED <<ctrlVars, chan, mutex, caller, handler, opening, closing>>

ReadFails ==
  /\ reader.pc = "recv" /\ ~socket["event"].open
  /\ reader' = [reader EXCEPT !.pc = "leave"]
  /\ UNCHANGED <<ctrlVars, chan, mutex, caller, handler, opening, closing, history>>

\* Both are closed, whatever the reason, and the thread is no longer counted.
ReaderLeaves ==
  /\ reader.pc = "leave"
  /\ reader' = [reader EXCEPT !.pc = "ended"]
  /\ chan' = [chan EXCEPT !.queueClosed = TRUE, !.threads = @ - 1]
  /\ Closed("event")
  /\ UNCHANGED <<server, count, lost, mutex, caller, handler, opening, closing, history>>

ReaderStep == ReadEvent \/ PushEvent \/ PushFails \/ ReadFails \/ ReaderLeaves

-----------------------------------------------------------------------------
(* ForegroundEventHandler(). *)

TakeEvent ==
  /\ handler.pc = "take" /\ chan.queue # <<>>
  /\ handler' = [pc |-> "handle", event |-> Head(chan.queue)]
  /\ chan' = [chan EXCEPT !.queue = Tail(@)]
  /\ UNCHANGED <<ctrlVars, mutex, caller, reader, opening, closing, history>>

OnEventReturns ==
  /\ handler.pc = "handle"
  /\ handler' = [pc |-> "take", event |-> NoEvent]
  /\ history' = [history EXCEPT !.deleted = @ \cup {handler.event},
                                !.handled = Append(@, handler.event)]
  /\ UNCHANGED <<ctrlVars, chan, mutex, caller, reader, opening, closing>>

\* OnEvent() throws: the event is not deleted, and nobody handles the next one.
HandlerEnds ==
  /\ handler' = [pc |-> "ended", event |-> NoEvent]
  /\ chan' = [chan EXCEPT !.threads = @ - 1]

OnEventThrows ==
  /\ handler.pc = "handle"
  /\ HandlerEnds
  /\ history' = [history EXCEPT !.threw = TRUE, !.handled = Append(@, handler.event)]
  /\ UNCHANGED <<ctrlVars, mutex, caller, reader, opening, closing>>

TakeFails ==
  /\ handler.pc = "take" /\ chan.queue = <<>> /\ chan.queueClosed
  /\ HandlerEnds
  /\ UNCHANGED <<ctrlVars, mutex, caller, reader, opening, closing, history>>

HandlerStep == TakeEvent \/ OnEventReturns \/ OnEventThrows \/ TakeFails

-----------------------------------------------------------------------------
(* OpenChannel(). *)

OpenBegins == opening.pc \in {"idle", "failed"} /\ opening' = [pc |-> "event", tries |-> 1]

\* The event socket is tried again, 100 ms later, for a WpaIoException only.
OpenEventSocket ==
  /\ opening.pc = "event"
  /\ Opened("event")
  /\ opening' =
       IF OpenResult("event") = "ok" THEN [opening EXCEPT !.pc = "attach"]
       ELSE IF OpenResult("event") = "WpaIoException" /\ opening.tries < OpenTries
       THEN [opening EXCEPT !.tries = @ + 1]
       ELSE [opening EXCEPT !.pc = "failed"]
  /\ UNCHANGED <<server, count, chan, mutex, caller, reader, handler, closing, history>>

SendAttach ==
  /\ opening.pc = "attach"
  /\ IF Connected("event") THEN Ask("event") /\ opening' = [pc |-> "answer", tries |-> 0]
     ELSE UNCHANGED <<server, count>> /\ opening' = [opening EXCEPT !.pc = "failed"]
  /\ UNCHANGED <<socket, lost, chan, mutex, caller, reader, handler, closing, history>>

AttachAnswered ==
  /\ opening.pc = "answer" /\ HasMail("event")
  /\ TakeMail("event")
  /\ chan' = [chan EXCEPT !.closed = FALSE]
  /\ opening' = [opening EXCEPT !.pc = "command"]
  /\ UNCHANGED <<server, count, lost, mutex, caller, reader, handler, closing, history>>

\* The event socket stays open, and the next try will find it so.
AttachTimesOut ==
  /\ opening.pc = "answer" /\ ~HasMail("event")
  /\ opening' = [opening EXCEPT !.pc = "failed"]
  /\ UNCHANGED <<ctrlVars, chan, mutex, caller, reader, handler, closing, history>>

CountOne == 1  \* a mutant: one of the two threads is not counted
EventThreads == 2

OpenCommandSocket ==
  /\ opening.pc = "command"
  /\ Opened("command")
  /\ IF OpenResult("command") = "ok"
     THEN /\ opening' = [pc |-> "ok", tries |-> 0]
          /\ chan' = [chan EXCEPT !.threads = EventThreads]
          /\ reader' = [reader EXCEPT !.pc = "recv"]
          /\ handler' = [handler EXCEPT !.pc = "take"]
     ELSE /\ opening' = [opening EXCEPT !.pc = "failed"]
          /\ UNCHANGED <<chan, reader, handler>>
  /\ UNCHANGED <<server, count, mutex, caller, closing, history>>

OpenStep == \/ OpenEventSocket \/ SendAttach \/ AttachAnswered \/ AttachTimesOut
            \/ OpenCommandSocket

-----------------------------------------------------------------------------
(* CloseChannel(), called on the foreground thread from none of the channel's own  *)
(* coroutines; it pumps messages, and so everybody else goes on.                   *)

CloseBegins ==
  /\ closing = "idle"
  /\ IF chan.closed THEN closing' = "done" /\ UNCHANGED chan
     ELSE closing' = "event" /\ chan' = [chan EXCEPT !.closed = TRUE, !.disconnected = TRUE]

CloseEventSocket ==
  /\ closing = "event"
  /\ Closed("event") /\ closing' = "queue"
  /\ UNCHANGED <<server, count, lost, chan, mutex, caller, reader, handler, opening, history>>

CloseQueue ==
  /\ closing = "queue"
  /\ chan' = [chan EXCEPT !.queueClosed = TRUE] /\ closing' = "join"
  /\ UNCHANGED <<ctrlVars, mutex, caller, reader, handler, opening, history>>

JoinRecvThread ==
  /\ closing = "join" /\ chan.threads = 0
  /\ closing' = "command"
  /\ UNCHANGED <<ctrlVars, chan, mutex, caller, reader, handler, opening, history>>

CloseCommandSocket ==
  /\ closing = "command"
  /\ Closed("command") /\ closing' = "pump"
  /\ UNCHANGED <<server, count, lost, chan, mutex, caller, reader, handler, opening, history>>

\* PumpMessages() runs what can run, on the foreground thread.
LastPump ==
  /\ closing = "pump" /\ \A c \in Callers : caller[c].pc \notin {"send", "recv"}
  /\ closing' = "done"
  /\ UNCHANGED <<ctrlVars, chan, mutex, caller, reader, handler, opening, history>>

CloseStep == CloseEventSocket \/ CloseQueue \/ JoinRecvThread \/ CloseCommandSocket \/ LastPump

-----------------------------------------------------------------------------
(* Correctness. *)

\* A caller takes only the answer to its own request, however callers are interleaved,
\* as long as no request has timed out (its late answer is taken for the next one's).
AnswersMatch == history.foreign => history.timedOut

\* Events are handled in the order in which they were sent, none is skipped, and each
\* is deleted: by the handler, or by the reader when the queue is closed.  Excepted is
\* the one that OnEvent() threw for.
Having(worker) == IF worker.event = NoEvent THEN <<>> ELSE <<worker.event>>
Pipeline == history.handled \o Having(handler) \o chan.queue \o Having(reader)
EventsAreKept ==
  /\ \A i \in 1..Len(Pipeline) : Pipeline[i] = MaxAsked + i
  /\ \A i \in 1..Len(history.handled) :
       history.handled[i] \in history.deleted \/ (history.threw /\ i = Len(history.handled))
  /\ \A e \in MaxAsked + Len(Pipeline) + 1 .. MaxAsked + history.read : e \in history.deleted

\* When CloseChannel() returns, none of the channel's coroutines will use it again:
\* both event threads have ended, and nobody is suspended in a request.
NoUseAfterClose ==
  closing = "done" => /\ reader.pc \in {"none", "ended"} /\ handler.pc \in {"none", "ended"}
                      /\ \A c \in Callers : caller[c].pc = "idle"
=============================================================================
