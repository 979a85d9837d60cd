---------------------------- MODULE WpaSupplicant ----------------------------
(***************************************************************************)
(* WpaSupplicant (src/pipedal_p2pd/WpaSupplicant.cpp): a channel that is   *)
(* opened with retries, pinged for as long as it is open, and that has     *)
(* operations made of one or more requests.                                *)
(***************************************************************************)
EXTENDS WpaChannel

CONSTANT Retries  \* retries of OpenChannel() (10)

ASSUME SupplicantAssumption == Retries \in Nat

VARIABLES
  wpa  \* Open(): where it is and its retries; open, isFinished, KeepAliveProc()

vars == <<ctrlVars, channelVars, wpa>>

TypeOK ==
  /\ ChannelTypeOK
  /\ wpa \in [pc : {"new", "opening", "retry", "settle", "open", "threw", "closing"},
              retries : 0..Retries, open : BOOLEAN, finished : BOOLEAN,
              keepAlive : {"none", "delay", "ping", "ended"}]

Init ==
  /\ ChannelInit
  /\ wpa = [pc |-> "new", retries |-> 0, open |-> FALSE, finished |-> FALSE,
            keepAlive |-> "none"]

-----------------------------------------------------------------------------
(* Open(). *)

Open ==
  /\ wpa.pc \in {"new", "retry"}
  /\ OpenBegins
  /\ wpa' = [wpa EXCEPT !.pc = "opening"]
  /\ UNCHANGED <<ctrlVars, chan, mutex, caller, reader, handler, closing, history>>

\* Any exception of OpenChannel() is followed by another try 5 s later, up to ten times.
NotCounted(n) == n  \* a mutant
Counted(n) == n + 1

OpenFails ==
  /\ wpa.pc = "opening" /\ opening.pc = "failed"
  /\ wpa' = IF wpa.retries = Retries THEN [wpa EXCEPT !.pc = "threw"]
            ELSE [wpa EXCEPT !.pc = "retry", !.retries = Counted(@)]
  /\ UNCHANGED <<ctrlVars, channelVars>>

\* CoDelay(3000ms), and the channel is open; CoOnInit() makes requests.
OpenSucceeds ==
  /\ wpa.pc = "opening" /\ opening.pc = "ok"
  /\ wpa' = [wpa EXCEPT !.pc = "open", !.retries = 0, !.open = TRUE, !.keepAlive = "delay"]
  /\ UNCHANGED <<ctrlVars, channelVars>>

\* Close(), or the destructor when Open() threw.
Close ==
  /\ wpa.pc \in {"open", "threw"}
  /\ wpa' = [wpa EXCEPT !.pc = "closing", !.open = FALSE]
  /\ CloseBegins
  /\ UNCHANGED <<ctrlVars, mutex, caller, reader, handler, opening, history>>

-----------------------------------------------------------------------------
(* KeepAliveProc(). *)

\* Delay(17s) is over; Ping().
KeepAlivePings ==
  /\ wpa.keepAlive = "delay" /\ ~chan.disconnected
  /\ count.asked < MaxAsked \/ ~Connected("command")
  /\ Call(KeepAlive, 1, FALSE)
  /\ wpa' = [wpa EXCEPT !.keepAlive = "ping"]
  /\ UNCHANGED <<ctrlVars, chan, reader, handler, opening, closing, history>>

EndsQuietly == wpa' = [wpa EXCEPT !.keepAlive = "ended"]  \* a mutant
KeepAliveEnds == wpa' = [wpa EXCEPT !.keepAlive = "ended", !.finished = TRUE]

\* Delay() throws a WpaDisconnectedException as soon as the channel is disconnected.
DelayThrows ==
  /\ wpa.keepAlive = "delay" /\ chan.disconnected
  /\ KeepAliveEnds
  /\ UNCHANGED <<ctrlVars, channelVars>>

\* A foreign answer may happen to be another PONG.
PingReturns ==
  /\ wpa.keepAlive = "ping" /\ caller[KeepAlive].pc = "idle"
  /\ caller[KeepAlive].result \in {"ok", "wrong"}
  /\ wpa' = [wpa EXCEPT !.keepAlive = "delay"]
  /\ UNCHANGED <<ctrlVars, channelVars>>

PingThrows ==
  /\ wpa.keepAlive = "ping" /\ caller[KeepAlive].pc = "idle"
  /\ caller[KeepAlive].result \in {"failed", "wrong"}
  /\ KeepAliveEnds
  /\ UNCHANGED <<ctrlVars, channelVars>>

KeepAliveStep == KeepAlivePings \/ DelayThrows \/ PingReturns \/ PingThrows

-----------------------------------------------------------------------------
(* The other operations: most are one request; SetWpaProperty() asks for the value and *)
(* then sets it; ListSta() and ListNetworks() have answers of any length.              *)

Request(c, n, list) ==
  /\ wpa.open /\ c # KeepAlive /\ caller[c].pc = "idle"
  /\ count.asked < MaxAsked
  /\ Call(c, n, list)
  /\ UNCHANGED <<ctrlVars, chan, reader, handler, opening, closing, history, wpa>>

RequestOK(c)      == Request(c, 1, FALSE)
SetWpaProperty(c) == Request(c, 2, FALSE)
ListSta(c)        == \E n \in 1..2 : Request(c, n, TRUE)

-----------------------------------------------------------------------------
Server == /\ ServerAnswers \/ ServerSendsEvent \/ ServerDies \/ ServerStarts
          /\ UNCHANGED <<channelVars, wpa>>
Coroutine(A) == A /\ UNCHANGED wpa

Next ==
  \/ Server
  \/ Open \/ OpenFails \/ OpenSucceeds \/ Close \/ KeepAliveStep
  \/ \E c \in Callers : \/ Coroutine(CallerStep(c) \/ ReceiveTimesOut(c))
                        \/ RequestOK(c) \/ SetWpaProperty(c) \/ ListSta(c)
  \/ Coroutine(ReaderStep) \/ Coroutine(HandlerStep)
  \/ Coroutine(OpenStep) \/ Coroutine(CloseStep)

Spec == Init /\ [][Next]_vars

\* Coroutines go on, delays and timeouts end; wpa_supplicant need not do anything.
Fairness ==
  /\ WF_vars(Open) /\ WF_vars(OpenFails) /\ WF_vars(OpenSucceeds) /\ WF_vars(KeepAliveStep)
  /\ \A c \in Callers : WF_vars(Coroutine(CallerStep(c) \/ ReceiveTimesOut(c)))
  /\ WF_vars(Coroutine(ReaderStep)) /\ WF_vars(Coroutine(HandlerStep))
  /\ WF_vars(Coroutine(OpenStep)) /\ WF_vars(Coroutine(CloseStep))

FairSpec == Spec /\ Fairness

-----------------------------------------------------------------------------
\* Events go through the channel whole, and nobody of the pipeline is left when it is closed.
EventPipeline == TypeOK /\ EventsAreKept /\ NoUseAfterClose

\* Open() gives up after its retries, and Close() and the destructor return.
OpenAndCloseEnd ==
  /\ wpa.pc = "opening" ~> wpa.pc \notin {"opening", "retry"}
  /\ closing \notin {"idle", "done"} ~> closing = "done"

\* When the server that the channel is connected to is gone, the keep-alive notices: the
\* session is finished, or is being closed.
DeathIsNoticed == (wpa.open /\ ~Connected("command")) ~> (wpa.finished \/ ~wpa.open)
=============================================================================
