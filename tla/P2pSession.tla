------------------------------ MODULE P2pSession ------------------------------
(***************************************************************************)
(* P2pSessionManager and P2pGroup (src/pipedal_p2pd), with CoMain()        *)
(* (main.cpp) until the session is closed.  All of their coroutines run on *)
(* the foreground thread.  Some of them wait by pumping messages           *)
(* (SynchronousWaitForEvent(), CloseChannel()): whoever runs meanwhile     *)
(* does so on top of their stack frame, and they cannot go on before those *)
(* above them have returned.                                               *)
(*                                                                         *)
(* A request is a suspension that ends with an answer or an exception: see *)
(* WpaChannel for how.                                                     *)
(***************************************************************************)
EXTENDS DnsMasqProcess, SequencesExt

CONSTANTS
  Group,     \* P2pGroup objects; one that is deleted may be allocated again
  NoGroup,
  Events,    \* kinds of events that wpa_supplicant sends
  MaxEvents  \* bound: one of a kind is sent before so many of any kind have been

EventKinds == {"started", "wrong", "removed", "connected", "disconnected",
               "failed", "enrolls"}

Threads == {"main", "handler"}

ASSUME SessionAssumption ==
  /\ Events \subseteq EventKinds /\ MaxEvents \in [Events -> Nat]
  /\ NoGroup \notin Group /\ Threads \cap Group = {}

VARIABLES
  session,  \* the flags of P2pSessionManager, of its channel, and of the process
  proc,     \* CoMain() and the session's ForegroundEventHandler(): where each is
  taken,    \* how many events the event handler has taken
  group,    \* per group: where it is, and has it, while it is closed, an event left
  active,   \* activeGroups
  timers,   \* groups that CloseGroup() has posted a function for
  stack,    \* who pumps messages: "main", "handler", or the group a posted function closes
  find      \* connectedStations, ScanProc(), the requests that start and stop the
            \* search for devices, and is wpa_supplicant searching

sessionVars == <<dns, session, proc, taken, group, active, timers, stack, find>>

At(pc) == [pc |-> pc, g |-> NoGroup, event |-> "none"]

SessionTypeOK ==
  /\ DnsTypeOK
  /\ session \in [open : BOOLEAN, threw : BOOLEAN, attached : BOOLEAN, closed : BOOLEAN,
                  finished : BOOLEAN, wrong : BOOLEAN, waits : BOOLEAN,
                  hadGroup : BOOLEAN, crashed : BOOLEAN]
  /\ \A t \in Threads : proc[t].g \in Group \cup {NoGroup}
  /\ taken \in Nat
  /\ \A g \in Group : group[g] \in [pc : {"none", "opening", "setup", "open", "closing"}, busy : BOOLEAN]
  /\ active \in Seq(Group) /\ timers \subseteq Group
  /\ stack \in Seq(Threads \cup Group)
  /\ find.stations \in {0, 1} /\ find.searching \in {"yes", "no", "unknown"}
  /\ find.scan \in {"none", "delay", "found", "ask", "ended"}

NewSession ==
  [open |-> FALSE, threw |-> FALSE, attached |-> FALSE, closed |-> TRUE, finished |-> FALSE,
   wrong |-> FALSE, waits |-> FALSE, hadGroup |-> FALSE,
   crashed |-> FALSE]
NotSearching ==
  [stations |-> 0, searching |-> "no", asks |-> <<>>, scan |-> "none"]

\* A process that has just started.
Fresh(d, s, p, n, g, a, t, k, f) ==
  /\ d = NoProcess /\ s = NewSession
  /\ p = [main |-> At("start"), handler |-> At("none")]
  /\ g = [h \in Group |-> [pc |-> "none", busy |-> FALSE]]
  /\ n = 0 /\ a = <<>> /\ t = {} /\ k = <<>> /\ f = NotSearching

SessionInit == Fresh(dns, session, proc, taken, group, active, timers, stack, find)

-----------------------------------------------------------------------------
(* Stack frames. *)

\* A coroutine that pumps goes on only if it is the last one that does.
CanRun(who)  == ~Contains(stack, who)
IsOnTop(who) == stack # <<>> /\ Last(stack) = who
Pumps(who)   == stack' = Append(stack, who)
Returns      == stack' = Front(stack)

Goes(t, pc) == proc' = [proc EXCEPT ![t] = At(pc)]
MainAt(pc) == proc.main.pc = pc /\ CanRun("main")
HandlerAt(pc) == proc.handler.pc = pc /\ CanRun("handler")

-----------------------------------------------------------------------------
(* P2pGroup: its channel, whose coroutines are WpaChannel's, and its events. *)

NotJoined(g) == ~group[g].busy  \* a mutant

\* CloseChannel() of a group waits until its event handler is done, and whoever else
\* waits for an answer on that channel.
Joined(g) == /\ ~group[g].busy
             /\ ~(proc.handler.pc = "count" /\ proc.handler.g = g)
\* There may be an event that is not handled yet.
IsClosing(groups, g) ==
  \E b \in BOOLEAN : group' = [groups EXCEPT ![g] = [pc |-> "closing", busy |-> b]]
Deleted(g) == [group EXCEPT ![g].pc = "none"]

\* OnEnrolleeSeen() and WPS-PIN-NEEDED make a request, which is answered or fails.
GroupIsAnswered(g) ==
  /\ group[g].busy
  /\ group' = [group EXCEPT ![g].busy = FALSE]
  /\ UNCHANGED <<dns, session, proc, taken, active, timers, stack, find>>

\* The access point is gone: TerminateGroup() has P2pSessionManager post a function.
TerminateGroup(g) ==
  /\ group[g].pc \in {"setup", "open"} \/ group[g].busy
  /\ timers' = timers \cup {g}
  /\ UNCHANGED <<dns, session, proc, taken, group, active, stack, find>>

-----------------------------------------------------------------------------
(* CreateP2pGroup(), in CoMain() or in the event handler. *)

\* What follows it: an event that SynchronousWaitForEvent() waits for has now been seen.
Seen(s) == [s EXCEPT !.waits = FALSE]
IsCreated(t, s) == IF t = "main" THEN Goes(t, "dnsmasq") /\ session' = s
                   ELSE Goes(t, "take") /\ session' = Seen(s)

\* activeGroups is being emptied or destroyed, or erase() has moved the next entry to where
\* the group was that it deletes: who changes the list now corrupts it.
Dangling == \E g \in Group : Contains(active, g) /\ group[g].pc = "closing"

CreateP2pGroup(t) ==
  \/ \E g \in Group :
       /\ group[g].pc = "none"
       /\ group' = [group EXCEPT ![g].pc = "opening"]
       /\ proc' = [proc EXCEPT ![t] = [At("opening") EXCEPT !.g = g]]
       /\ UNCHANGED session
  \/ IsCreated(t, session) /\ UNCHANGED group  \* OpenChannel() throws

GroupOpens(t) ==
  /\ proc[t].pc = "opening" /\ CanRun(t)
  /\ proc' = [proc EXCEPT ![t].pc = "setup"]
  /\ group' = [group EXCEPT ![proc[t].g].pc = "setup"]
  /\ UNCHANGED <<dns, session, taken, active, timers, stack, find>>

\* Its channel was not open.
GroupFailsToOpen(t) ==
  /\ proc[t].pc = "opening" /\ CanRun(t)
  /\ group' = Deleted(proc[t].g)
  /\ IsCreated(t, session)
  /\ UNCHANGED <<dns, taken, active, timers, stack, find>>

\* Only now, whatever has happened to the group since, it is one of the active ones.
GroupIsSetUp(t) ==
  /\ proc[t].pc = "setup" /\ CanRun(t) /\ ~Dangling
  /\ active' = Append(active, proc[t].g)
  /\ group' = [group EXCEPT ![proc[t].g].pc = "open"]
  /\ IsCreated(t, [session EXCEPT !.hadGroup = TRUE])
  /\ UNCHANGED <<dns, taken, timers, stack, find>>

\* A request throws, or the socket for them was not opened: the group is deleted, and its
\* channel, which is open, closed, while the exception is handled.
GroupIsNotSetUp(t) ==
  /\ CanRun(t)
  /\ \/ proc[t].pc = "setup" /\ IsClosing(group, proc[t].g)
     \/ /\ proc[t].pc = "opening"
        /\ group' = [group EXCEPT ![proc[t].g] = [pc |-> "closing", busy |-> FALSE]]
  /\ proc' = [proc EXCEPT ![t].pc = "undo"]
  /\ Pumps(t)
  /\ UNCHANGED <<dns, session, taken, active, timers, find>>

GroupIsUndone(t) ==
  /\ proc[t].pc = "undo" /\ IsOnTop(t) /\ Joined(proc[t].g)
  /\ group' = Deleted(proc[t].g)
  /\ IsCreated(t, session)
  /\ Returns
  /\ UNCHANGED <<dns, taken, active, timers, find>>

CreateStep(t) == \/ GroupOpens(t) \/ GroupFailsToOpen(t) \/ GroupIsSetUp(t)
                 \/ GroupIsNotSetUp(t) \/ GroupIsUndone(t)

-----------------------------------------------------------------------------
(* The session's events. *)

\* The next event was sent at any time before, and is of any kind.
Takes(e) ==
  /\ HandlerAt("take") /\ session.attached /\ e \in Events /\ taken < MaxEvents[e]
  /\ taken' = taken + 1

\* hadWrongInterface is taken from GotWrongInterface() when the session is left.
HasLeft == ~session.open \/ session.threw

OnGroupStarted ==
  /\ Takes("started")
  /\ CreateP2pGroup("handler")
  /\ UNCHANGED <<dns, active, timers, stack, find>>

OnWrongGroupStarted ==
  /\ Takes("wrong")
  /\ session' = Seen([session EXCEPT !.wrong = @ \/ ~HasLeft])
  /\ UNCHANGED <<dns, proc, group, active, timers, stack, find>>

OnGroupRemoved ==
  /\ Takes("removed")
  /\ IF active = <<>> THEN UNCHANGED <<proc, group, active, stack>>
     ELSE /\ active' = Tail(active)
          /\ IsClosing(group, Head(active))
          /\ proc' = [proc EXCEPT !.handler = [At("closing") EXCEPT !.g = Head(active)]]
          /\ Pumps("handler")
  /\ ~Dangling
  /\ UNCHANGED <<dns, session, timers, find>>

NeverFinishes(s, left) == s  \* a mutant: SetFinished() is forgotten
FinishedIfLast(s, left) == [s EXCEPT !.finished = @ \/ left = <<>>]

GroupIsRemoved ==
  /\ proc.handler.pc = "closing" /\ IsOnTop("handler") /\ Joined(proc.handler.g)
  /\ group' = Deleted(proc.handler.g)
  /\ session' = FinishedIfLast(session, active)
  /\ Goes("handler", "take") /\ Returns
  /\ UNCHANGED <<dns, taken, active, timers, find>>

\* P2P_FIND or P2P_STOP_FIND: requests are made one after the other.
Ask(f, who, command) == [f EXCEPT !.asks = Append(@, <<who, command>>)]

\* EndEnrollment(): passive again if somebody is connected.  A station that is
\* disconnected ends the search in any case.
EndEnrollment(f, e) ==
  Ask(f, "handler", IF e = "disconnected" \/ f.stations # 0 THEN "stop" ELSE "find")

\* While activeGroups is being emptied its elements still point to groups that are being
\* deleted, and are not to be looked at; erase() has moved down those behind the deleted one.
Emptied == proc.main.pc = "closing"
First == IF group[Head(active)].pc = "closing" THEN active[2] ELSE Head(active)

\* UpdateStationCount() asks the first group, if there is one.
OnStation ==
  /\ \E e \in {"connected", "disconnected"} :
       /\ Takes(e) /\ ~Emptied
       /\ IF active = <<>>
          THEN /\ find' = EndEnrollment([find EXCEPT !.stations = 0], e)
               /\ Goes("handler", "ask")
          ELSE /\ proc' = [proc EXCEPT !.handler = [pc |-> "count", g |-> First, event |-> e]]
               /\ UNCHANGED find
  /\ UNCHANGED <<dns, session, group, active, timers, stack>>

StationsAreCounted ==
  /\ HandlerAt("count")
  /\ \E n \in {0, 1} :
       /\ group[proc.handler.g].pc # "open" => n = 0
       /\ find' = EndEnrollment([find EXCEPT !.stations = n], proc.handler.event)
  /\ Goes("handler", "ask")
  /\ UNCHANGED <<dns, session, taken, group, active, timers, stack>>

OnEnrollmentFailed ==
  /\ Takes("failed")
  /\ find' = EndEnrollment(find, "failed")
  /\ Goes("handler", "ask")
  /\ UNCHANGED <<dns, session, group, active, timers, stack>>

\* OnProvDiscShowPin() and OnProvDiscPbcReq() ask to connect; an exception is caught.
OnEnrolls ==
  /\ Takes("enrolls")
  /\ Goes("handler", "connect")
  /\ UNCHANGED <<dns, session, group, active, timers, stack, find>>

IsAsked ==
  /\ HandlerAt("connect")
  /\ Goes("handler", "take")
  /\ UNCHANGED <<dns, session, taken, group, active, timers, stack, find>>

\* The queue is closed, and empty.
HandlerEnds ==
  /\ HandlerAt("take") /\ session.closed
  /\ Goes("handler", "ended")
  /\ UNCHANGED <<dns, session, taken, group, active, timers, stack, find>>

UsesDangling ==
  /\ Dangling
  /\ \/ /\ HandlerAt("take")
        /\ \E e \in Events : /\ taken < MaxEvents[e]
                             /\ \/ e = "removed"
                                \/ Emptied /\ e \in {"connected", "disconnected"}
     \/ \E g \in timers : CanRun(g) /\ Contains(active, g)
     \/ \E t \in Threads : proc[t].pc = "setup" /\ CanRun(t)
     \/ MainAt("groups")
  /\ session' = [session EXCEPT !.crashed = TRUE]
  /\ UNCHANGED <<dns, proc, taken, group, active, timers, stack, find>>

\* The dispatcher that finds a coroutine which has ended with an exception terminates the
\* process, before anybody misses the reader.
ReaderThrows ==
  /\ ReaderFails
  /\ session' = [session EXCEPT !.crashed = TRUE]
  /\ UNCHANGED <<dns, proc, taken, group, active, timers, stack, find>>

SessionCrashes == UsesDangling \/ ReaderThrows

EventArrives == \/ OnGroupStarted \/ OnWrongGroupStarted \/ OnGroupRemoved
                \/ OnStation \/ OnEnrollmentFailed \/ OnEnrolls
HandlerStep == \/ GroupIsRemoved \/ StationsAreCounted \/ IsAsked \/ HandlerEnds
               \/ CreateStep("handler")

-----------------------------------------------------------------------------
(* CloseGroup()'s functions: the delay they are posted with is the time of day, so they *)
(* run late.                                                                            *)

\* A group that is not active, or not yet, is left alone.  One that is not the last of the
\* list leaves it when it has been deleted.
CloseGroup(g) ==
  /\ g \in timers /\ CanRun(g) /\ ~(Dangling /\ Contains(active, g))
  /\ timers' = timers \ {g}
  /\ IF Contains(active, g)
     THEN /\ active' = IF Last(active) = g THEN Front(active) ELSE active
          /\ IsClosing(group, g) /\ Pumps(g)
     ELSE UNCHANGED <<active, group, stack>>
  /\ UNCHANGED <<dns, session, proc, taken, find>>

GroupIsClosed(g) ==
  /\ IsOnTop(g) /\ Joined(g)
  /\ group' = Deleted(g)
  /\ active' = RemoveFirst(active, g)
  /\ session' = FinishedIfLast(session, active')
  /\ Returns
  /\ UNCHANGED <<dns, proc, taken, timers, find>>

-----------------------------------------------------------------------------
(* ScanProc(). *)

LooksAway(f) == f.scan = "found" /\ f.stations # 0  \* a mutant: not after every delay

\* Every delay is followed by a look at connectedStations: if there are any it waits
\* until there are none, or else changes over between searching and not.
Looks(f) == f.stations # 0

ScanAsks ==
  /\ find.scan \in {"delay", "found"} /\ ~session.closed
  /\ find' = IF Looks(find) THEN [find EXCEPT !.scan = "delay"]
             ELSE [Ask(find, "scan", IF find.scan = "found" THEN "stop" ELSE "find")
                   EXCEPT !.scan = "ask"]
  /\ UNCHANGED <<dns, session, proc, taken, group, active, timers, stack>>

\* The oldest request is answered ...
Answered(who, f, pc) ==
  [f EXCEPT !.asks = Tail(@), !.scan = IF who = "scan" THEN pc ELSE @]
Continues(who) == /\ who = "handler" => CanRun("handler")
                  /\ IF who = "handler" THEN Goes(who, "take") ELSE UNCHANGED proc

FindIsAnswered ==
  /\ find.asks # <<>> /\ ~session.closed
  /\ LET who == Head(find.asks)[1]  finds == Head(find.asks)[2] = "find"
     IN  /\ find' = [Answered(who, find, IF finds THEN "found" ELSE "delay")
                     EXCEPT !.searching = IF finds THEN "yes" ELSE "no"]
         /\ Continues(who)
  /\ UNCHANGED <<dns, session, taken, group, active, timers, stack>>

\* ... or fails, done or not.
FindFails ==
  /\ find.asks # <<>>
  /\ find' = [Answered(Head(find.asks)[1], find, "ended") EXCEPT !.searching = "unknown"]
  /\ Continues(Head(find.asks)[1])
  /\ UNCHANGED <<dns, session, taken, group, active, timers, stack>>

FindStep == ScanAsks \/ FindIsAnswered \/ FindFails

-----------------------------------------------------------------------------
(* CoMain(): it opens the session ... *)

\* From here on nobody asks any more whether the session had a group, or is finished.
Leaves(s) == [s EXCEPT !.finished = TRUE, !.hadGroup = FALSE]
Throws(s) == session' = [Leaves(s) EXCEPT !.threw = TRUE] /\ Goes("main", "groups")

\* The delay of 3 s, and Open(): the channel is opened, with retries, or not.
Open ==
  /\ MainAt("start")
  /\ \/ /\ session' = [session EXCEPT !.open = TRUE, !.attached = TRUE, !.closed = FALSE]
        /\ proc' = [main |-> At("init"), handler |-> At("take")]
     \/ Throws(session) \* after ten retries
  /\ UNCHANGED <<dns, taken, group, active, timers, stack, find>>

\* CoOnInit(), up to the answer that lists the interfaces: the group is there, or not.
InitSession ==
  /\ MainAt("init")
  /\ find' = [find EXCEPT !.scan = "delay"]
  /\ \/ CreateP2pGroup("main")
     \/ Goes("main", "add") /\ UNCHANGED <<session, group>>
     \/ Throws(session) /\ UNCHANGED group
  /\ UNCHANGED <<dns, taken, active, timers, stack>>

\* P2P_GROUP_ADD is answered, and SynchronousWaitForEvent() called.
AddGroup ==
  /\ MainAt("add")
  /\ \/ /\ session' = [session EXCEPT !.waits = TRUE]
        /\ Goes("main", "wait") /\ Pumps("main")
     \/ Throws(session) /\ UNCHANGED stack
  /\ UNCHANGED <<dns, taken, group, active, timers, find>>

GroupIsAdded ==
  /\ proc.main.pc = "wait" /\ IsOnTop("main") /\ ~session.waits
  /\ Returns
  /\ IF active # <<>> THEN Goes("main", "dnsmasq") /\ UNCHANGED session ELSE Throws(session)
  /\ UNCHANGED <<dns, taken, group, active, timers, find>>

AddTimesOut ==
  /\ proc.main.pc = "wait" /\ IsOnTop("main") /\ session.waits
  /\ Returns
  /\ Throws([session EXCEPT !.finished = TRUE])
  /\ UNCHANGED <<dns, taken, group, active, timers, find>>

\* dnsmasq is started, and looked at 100 ms later; any exception is caught.
StartDnsMasq ==
  /\ MainAt("dnsmasq")
  /\ \/ DnsStarted /\ Goes("main", "settle")
     \/ UNCHANGED dns /\ Goes("main", "announce")
  /\ UNCHANGED <<session, taken, group, active, timers, stack, find>>

DnsMasqSettles ==
  /\ MainAt("settle")
  /\ \/ UNCHANGED dns /\ Goes("main", "announce")
     \/ HasTerminated /\ Goes("main", "stop")
  /\ UNCHANGED <<session, taken, group, active, timers, stack, find>>

StartServiceDiscovery ==
  /\ MainAt("announce")
  /\ \/ Goes("main", "poll") /\ UNCHANGED session
     \/ Throws(session)
  /\ UNCHANGED <<dns, taken, group, active, timers, stack, find>>

-----------------------------------------------------------------------------
(* ... and closes it, or has it destroyed by the exception. *)

\* The session is finished, or there was a signal: it is only looked at here.
Poll ==
  /\ MainAt("poll")
  /\ session' = [Leaves(session) EXCEPT !.open = FALSE]
  /\ Goes("main", "uninit")
  /\ UNCHANGED <<dns, taken, group, active, timers, stack, find>>

\* StopServiceDiscovery(), whatever the answer.
StopServiceDiscovery ==
  /\ MainAt("uninit")
  /\ Goes("main", "groups")
  /\ UNCHANGED <<dns, session, taken, group, active, timers, stack, find>>

Deletes(g) == proc' = [proc EXCEPT !.main = [At("closing") EXCEPT !.g = g]]

\* activeGroups.resize(0), or its destructor: the groups are deleted one after the other.
CloseGroups ==
  /\ MainAt("groups") /\ ~Dangling
  /\ IF active = <<>> THEN Goes("main", "stop") /\ UNCHANGED <<group, stack>>
     ELSE Deletes(Head(active)) /\ IsClosing(group, Head(active)) /\ Pumps("main")
  /\ UNCHANGED <<dns, session, taken, active, timers, find>>

GroupsAreClosed ==
  /\ Emptied /\ IsOnTop("main") /\ Joined(proc.main.g)
  /\ active' = Tail(active)
  /\ IF active' = <<>>
     THEN Goes("main", "stop") /\ Returns /\ group' = Deleted(proc.main.g)
     ELSE /\ Deletes(Head(active')) /\ UNCHANGED stack
          /\ IsClosing(Deleted(proc.main.g), Head(active'))
  /\ UNCHANGED <<dns, session, taken, timers, find>>

\* dnsMasqProcess.Stop() is a wait of CoMain(), or in the destructor pumps messages.
StopReturns == Goes("main", IF session.open /\ ~session.threw THEN "announce" ELSE "close")
MayGoOn == IF session.threw THEN IsOnTop("main") ELSE CanRun("main")
MayReturn == IF session.threw THEN Returns ELSE UNCHANGED stack

StopDnsMasq ==
  /\ MainAt("stop")
  /\ \/ NothingToStop /\ StopReturns /\ UNCHANGED stack
     \/ /\ StopBegins /\ Goes("main", "term")
        /\ IF session.threw THEN Pumps("main") ELSE UNCHANGED stack
  /\ UNCHANGED <<session, taken, group, active, timers, find>>

DnsMasqIsStopped ==
  /\ proc.main.pc \in {"term", "kill"} /\ MayGoOn /\ ReadersDone
  /\ dns' = Waited
  /\ StopReturns /\ MayReturn
  /\ UNCHANGED <<session, taken, group, active, timers, find>>

KillDnsMasq ==
  /\ proc.main.pc = "term" /\ MayGoOn /\ ~ReadersDone
  /\ dns' = Killed /\ Goes("main", "kill")
  /\ UNCHANGED <<session, taken, group, active, timers, stack, find>>

\* CloseChannel(), in Close() or in the destructor: one that is not open is left alone.
CloseChannel ==
  /\ MainAt("close")
  /\ IF session.closed THEN Goes("main", "exit") /\ UNCHANGED <<session, stack>>
     ELSE /\ session' = [session EXCEPT !.closed = TRUE]
          /\ Goes("main", "join") /\ Pumps("main")
  /\ UNCHANGED <<dns, taken, group, active, timers, find>>

HandlerJoined == proc.handler.pc = "ended"

\* Both event threads are done; the requests that are left fail; PumpMessages(300ms).
ChannelIsClosed ==
  /\ proc.main.pc = "join" /\ IsOnTop("main") /\ HandlerJoined /\ find.asks = <<>>
  /\ Goes("main", "exit") /\ Returns
  /\ UNCHANGED <<dns, session, taken, group, active, timers, find>>

OpenStep  == \/ Open \/ InitSession \/ CreateStep("main") \/ AddGroup \/ GroupIsAdded
             \/ AddTimesOut \/ StartDnsMasq \/ DnsMasqSettles \/ StartServiceDiscovery
CloseStep == \/ Poll \/ StopServiceDiscovery \/ CloseGroups \/ GroupsAreClosed
             \/ StopDnsMasq \/ DnsMasqIsStopped \/ KillDnsMasq \/ CloseChannel
             \/ ChannelIsClosed

-----------------------------------------------------------------------------
(* wpa_supplicant, the keep-alive and dnsmasq. *)

\* SetFinished(), because wpa_supplicant is terminating or does not answer KeepAliveProc().
\* It may happen at any time before, but only CoMain() looks at the flag, here.
KeepAliveEnds ==
  /\ proc.main.pc = "poll" /\ ~session.finished
  /\ session' = [session EXCEPT !.finished = TRUE]
  /\ UNCHANGED <<dns, proc, taken, group, active, timers, stack, find>>

\* Only then does somebody look at it.
DnsMasqRuns ==
  /\ proc.main.pc \in {"term", "kill"}
  /\ DnsEnvironment
  /\ UNCHANGED <<session, proc, taken, group, active, timers, stack, find>>

IsUp == proc.main.pc # "exit" /\ ~session.crashed /\ ~dns.spins

SessionNext ==
  IsUp /\ \/ HandlerStep \/ FindStep \/ OpenStep \/ CloseStep
          \/ EventArrives \/ SessionCrashes \/ KeepAliveEnds \/ DnsMasqRuns
          \/ \E g \in Group : \/ GroupIsAnswered(g) \/ TerminateGroup(g)
                              \/ CloseGroup(g) \/ GroupIsClosed(g)

-----------------------------------------------------------------------------
(* Correctness. *)

\* A session that had a group and has none left is finished, or somebody who is about to
\* find that out is closing the last one.
FinishedWithLastGroup ==
  session.hadGroup /\ active = <<>> /\ proc.main.pc \in {"dnsmasq", "settle", "announce", "poll"}
    => session.finished \/ \E who \in Group \cup {"handler"} : Contains(stack, who)

\* No device is searched for while a station is connected, whatever the order in which
\* ScanProc() and the event handler look at the stations and make their requests, once
\* the requests are answered.
PassiveWhenConnected ==
  find.stations # 0 /\ find.asks = <<>> => find.searching # "yes"

\* Nobody waits for an answer on the channel of a group that has been deleted.
NoUseOfDeletedGroup == proc.handler.pc = "count" => group[proc.handler.g].pc # "none"

\* Once Stop() has returned nobody is left: the readers, sudo and dnsmasq have ended, and
\* waitpid() did not block.
NoOrphan == dns.pid \/ (dns.readers = 0 /\ ~dns.server /\ dns.sudo \in {"none", "reaped"})
=============================================================================
