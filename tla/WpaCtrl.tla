------------------------------- MODULE WpaCtrl -------------------------------
(***************************************************************************)
(* WpaCtrl (src/pipedal_p2pd/WpaCtrl.cpp): the two datagram sockets that a *)
(* channel has to wpa_supplicant, one for commands and their answers, one  *)
(* for events.  Also wpa_supplicant itself: it answers in its own time,    *)
(* sends events once ATTACH has been answered, and may die and be started  *)
(* again, which the sockets connected to the old one do not survive.       *)
(***************************************************************************)
EXTENDS Naturals, Sequences, FiniteSets

CONSTANTS
  MaxAsked,   \* bound: requests, ATTACH among them
  MaxEvents,  \* bound: events
  MaxServers  \* bound: incarnations of wpa_supplicant

ASSUME BoundsAssumption == {MaxAsked, MaxEvents} \subseteq Nat /\ MaxServers \in Nat \ {0}

VARIABLES
  server,  \* up, its incarnation, attached, asked: what it has not answered yet
  socket,  \* per socket: open, the server it is connected to, its inbox
  count,   \* numbers of requests and events so far
  lost     \* sockets (and their paths) that a failed Open() has not closed

ctrlVars == <<server, socket, count, lost>>

Sockets == {"command", "event"}
NoSocket == [open |-> FALSE, server |-> 0, inbox |-> <<>>]

CtrlTypeOK ==
  /\ server.up \in BOOLEAN /\ server.id \in 0..MaxServers /\ server.attached \in BOOLEAN
  /\ server.asked \in Seq([no : 1..MaxAsked, socket : Sockets])
  /\ \A s \in Sockets : /\ socket[s].open \in BOOLEAN /\ socket[s].server \in 0..MaxServers
                        /\ socket[s].inbox \in Seq(1..(MaxAsked + MaxEvents))
  /\ count.asked \in 0..MaxAsked /\ count.events \in 0..MaxEvents
  /\ lost \in Nat

CtrlInit ==
  /\ \E up \in BOOLEAN :
       server = [up |-> up, id |-> IF up THEN 1 ELSE 0, attached |-> FALSE, asked |-> <<>>]
  /\ socket = [s \in Sockets |-> NoSocket]
  /\ count = [asked |-> 0, events |-> 0]
  /\ lost = 0

Connected(s) == socket[s].open /\ server.up /\ socket[s].server = server.id

-----------------------------------------------------------------------------
(* Open() and Close(). *)

\* connect() fails when nobody listens, and everything is cleaned up.  Attach() of a
\* CoFile that is open fails when socketCleanup has been disabled already.
OpenResult(s) ==
  IF ~server.up THEN "WpaIoException" ELSE IF socket[s].open THEN "logic_error" ELSE "ok"

Opened(s) ==
  /\ socket' = IF OpenResult(s) = "ok"
               THEN [socket EXCEPT ![s] = [NoSocket EXCEPT !.open = TRUE, !.server = server.id]]
               ELSE socket
  /\ lost' = IF OpenResult(s) = "logic_error" THEN lost + 1 ELSE lost

Closed(s) == socket' = [socket EXCEPT ![s] = NoSocket]

-----------------------------------------------------------------------------
(* CoRequest() and AttachHelper(): a datagram is sent, and the next one that comes *)
(* is taken as its answer.                                                         *)

Ask(s) ==
  /\ Connected(s) /\ count.asked < MaxAsked
  /\ count' = [count EXCEPT !.asked = @ + 1]
  /\ server' = [server EXCEPT !.asked = Append(@, [no |-> count.asked + 1, socket |-> s])]

HasMail(s) == socket[s].inbox # <<>>
TakeMail(s) == socket' = [socket EXCEPT ![s].inbox = Tail(@)]

-----------------------------------------------------------------------------
(* wpa_supplicant.  An answer is the number of its request, an event a number above *)
(* those.                                                                           *)

Deliver(s, no) == [socket EXCEPT ![s].inbox = Append(@, no)]

ServerAnswers ==
  /\ server.up /\ server.asked # <<>>
  /\ LET ask == Head(server.asked)
     IN  /\ server' = [server EXCEPT !.asked = Tail(@),
                                     !.attached = @ \/ ask.socket = "event"]
         /\ socket' = IF Connected(ask.socket) THEN Deliver(ask.socket, ask.no) ELSE socket
  /\ UNCHANGED <<count, lost>>

ServerSendsEvent ==
  /\ server.attached /\ Connected("event") /\ count.events < MaxEvents
  /\ count' = [count EXCEPT !.events = @ + 1]
  /\ socket' = Deliver("event", MaxAsked + count.events + 1)
  /\ UNCHANGED <<server, lost>>

ServerDies ==
  /\ server.up
  /\ server' = [server EXCEPT !.up = FALSE, !.attached = FALSE, !.asked = <<>>]
  /\ UNCHANGED <<socket, count, lost>>

ServerStarts ==
  /\ ~server.up /\ server.id < MaxServers
  /\ server' = [server EXCEPT !.up = TRUE, !.id = @ + 1]
  /\ UNCHANGED <<socket, count, lost>>
=============================================================================
