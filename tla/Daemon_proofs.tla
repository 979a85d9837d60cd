----------------------------- MODULE Daemon_proofs -----------------------------
(***************************************************************************)
(* RestartCounter bounds the restarts of dhcpcd, whatever a session does   *)
(* and however often the process dies.  In each life of the process, the   *)
(* session knows its groups, however many there are and in whatever order  *)
(* they come, are removed and are lost, notices that the last one is gone, *)
(* searches for no device while a station is connected, and leaves nobody  *)
(* of dnsmasq behind.                                                      *)
(***************************************************************************)
EXTENDS Daemon, ListLemmas

\* The file is behind the restarts by the crashes that came before Increment() only.
FileCounts ==
  counter.pc # "increment" => dhcpcd.restarts <= counter.file + dhcpcd.crashes

\* What Increment() will write is one more than the file says, or nothing is to be counted.
CountIsNext ==
  counter.pc = "increment" =>
    /\ counter.count <= counter.file + 1
    /\ dhcpcd.restarts <= counter.count + dhcpcd.crashes

CounterInv == CounterTypeOK /\ FileCounts /\ CountIsNext /\ DhcpcdRestartsAreBounded

\* The inductive invariant of the counter's file, its value in memory and the restarts.
THEOREM CounterInvariance == Spec => []CounterInv
<1>1. Init => CounterInv
  BY DaemonAssumption
  DEF Init, DaemonInit, CounterInv, CounterTypeOK, FileCounts, CountIsNext,
      DhcpcdRestartsAreBounded
<1>2. CounterInv /\ [Next]_vars => CounterInv'
  <2> SUFFICES ASSUME CounterInv, [Next]_vars PROVE CounterInv'
    OBVIOUS
  <2> USE DaemonAssumption
      DEF CounterInv, CounterTypeOK, FileCounts, CountIsNext, DhcpcdRestartsAreBounded
  <2>1. CASE UNCHANGED daemonVars
    BY <2>1 DEF daemonVars
  <2>2. CASE SessionEnds
    <3>1. CASE session.wrong
      <4>1. /\ counter' = [counter EXCEPT !.pc = "increment", !.count = counter.file + 1]
            /\ dhcpcd' = [dhcpcd EXCEPT !.restarts = @ + (IF counter.file <= MaxCount THEN 1 ELSE 0)]
        BY <2>2, <3>1, Zenon DEF SessionEnds
      <4>2. counter.pc = "session"
        BY <2>2, Zenon DEF SessionEnds
      <4>3. CounterTypeOK'
        <5>1. counter.file + 1 \in Nat /\ (IF counter.file <= MaxCount THEN 1 ELSE 0) \in Nat
          OBVIOUS
        <5>2. dhcpcd.restarts + (IF counter.file <= MaxCount THEN 1 ELSE 0) \in Nat
          BY <5>1
        <5>3. counter' \in [file : Nat, count : Nat, pc : {"session", "increment", "ended"}]
          BY <4>1, <5>1
        <5>4. dhcpcd' \in [restarts : Nat, crashes : Nat]
          BY <4>1, <5>2
        <5> QED
          BY <5>3, <5>4
      <4>4. /\ counter'.pc = "increment" /\ counter'.count = counter.file + 1
            /\ counter'.file = counter.file /\ dhcpcd'.crashes = dhcpcd.crashes
            /\ dhcpcd'.restarts = dhcpcd.restarts + (IF counter.file <= MaxCount THEN 1 ELSE 0)
        BY <4>1
      <4>5. CASE counter.file <= MaxCount
        BY <4>2, <4>3, <4>4, <4>5
      <4>6. CASE ~(counter.file <= MaxCount)
        BY <4>2, <4>3, <4>4, <4>6
      <4> QED
        BY <4>5, <4>6
    <3>2. CASE ~session.wrong
      <4>1. /\ counter' = [counter EXCEPT !.pc = "increment", !.count = 0]
            /\ dhcpcd' = [restarts |-> 0, crashes |-> 0]
        BY <2>2, <3>2, Zenon DEF SessionEnds
      <4>2. CounterTypeOK'
        BY <4>1
      <4>3. /\ counter'.pc = "increment" /\ counter'.count = 0
            /\ counter'.file = counter.file /\ dhcpcd'.crashes = 0 /\ dhcpcd'.restarts = 0
        BY <4>1
      <4> QED
        BY <4>2, <4>3
    <3> QED
      BY <3>1, <3>2
  <2>3. CASE Increment
    BY <2>3 DEF Increment, Incremented
  <2>4. CASE Crash
    <3>1. /\ counter.pc \in {"session", "increment"}
          /\ counter' = [counter EXCEPT !.pc = "ended", !.count = 0]
          /\ dhcpcd' = [dhcpcd EXCEPT !.crashes = @ + (IF counter.count # 0 THEN 1 ELSE 0)]
      BY <2>4, Zenon DEF Crash
    <3>2. CounterTypeOK'
      <4>1. dhcpcd.crashes + (IF counter.count # 0 THEN 1 ELSE 0) \in Nat
        OBVIOUS
      <4>2. counter' \in [file : Nat, count : Nat, pc : {"session", "increment", "ended"}]
        BY <3>1
      <4>3. dhcpcd' \in [restarts : Nat, crashes : Nat]
        BY <3>1, <4>1
      <4> QED
        BY <4>2, <4>3
    <3>3. /\ counter'.pc = "ended" /\ counter'.file = counter.file
          /\ dhcpcd'.restarts = dhcpcd.restarts
          /\ dhcpcd'.crashes = dhcpcd.crashes + (IF counter.count # 0 THEN 1 ELSE 0)
      BY <3>1
    <3>4. CASE counter.pc = "increment"
      BY <3>2, <3>3, <3>4
    <3>5. CASE counter.pc = "session"
      BY <3>2, <3>3, <3>5
    <3> QED
      BY <3>1, <3>4, <3>5
  <2>5. CASE Restart
    BY <2>5 DEF Restart
  <2> QED
    BY <2>1, <2>2, <2>3, <2>4, <2>5 DEF Next, vars
<1> QED
  BY <1>1, <1>2, PTL DEF Spec

\* While the interface is the wrong one, dhcpcd is restarted at most MaxCount + 1 times
\* and once for each crash before Increment(), for every MaxCount and any session.
THEOREM DhcpcdIsSpared == Spec => []DhcpcdRestartsAreBounded
BY CounterInvariance, PTL DEF CounterInv
-----------------------------------------------------------------------------
(* What is true of a session. *)

ProcPc == {"none", "start", "init", "take", "opening", "setup", "undo", "closing", "count",
           "ask", "connect", "ended", "add", "wait", "dnsmasq", "settle", "announce", "poll",
           "uninit", "groups", "stop", "term", "kill", "close", "join", "exit"}
Requests == {"handler", "scan"} \X {"find", "stop"}

\* The types of what TypeOK does not tell in full.
ProcOK == proc \in [Threads -> [pc : ProcPc, g : Group \cup {NoGroup}, event : EventKinds \cup {"none"}]]
GroupOK ==
  group \in [Group -> [pc : {"none", "opening", "setup", "open", "closing"}, busy : BOOLEAN]]
Searches == [stations : {0, 1}, searching : {"yes", "no", "unknown"}, asks : Seq(Requests),
             scan : {"none", "delay", "found", "ask", "ended"}]
FindOK == find \in Searches
Flags ==
  [open : BOOLEAN, threw : BOOLEAN, attached : BOOLEAN, closed : BOOLEAN, finished : BOOLEAN,
   wrong : BOOLEAN, waits : BOOLEAN, hadGroup : BOOLEAN, crashed : BOOLEAN]
Shape == SessionTypeOK /\ ProcOK /\ GroupOK /\ FindOK

\* Every reader counts itself out, and only at the end of its output.
ReadersAreCounted ==
  /\ dns.pid => /\ dns.readers + dns.terminated = 2
                /\ dns.terminated > 0 => EndOfOutput
  /\ NoOrphan
  /\ proc.main.pc = "settle" => dns.pid /\ dns.terminated = 0

\* The last request that is not answered yet is not one to search.
SearchIsStopped ==
  find.stations # 0 => IF find.asks = <<>> THEN find.searching # "yes"
                       ELSE Last(find.asks)[2] = "stop"

\* The event handler waits for the answer to its request, and is there only once the
\* channel is open.
HandlerAsks ==
  /\ proc.main.pc = "start" => proc.handler.pc = "none"
  /\ \A i \in DOMAIN find.asks : find.asks[i][1] = "handler" =>
       /\ proc.handler.pc = "ask"
       /\ \A j \in DOMAIN find.asks : find.asks[j][1] = "handler" => i = j

Holds(t, g) == proc[t].g = g /\ proc[t].pc \in {"opening", "setup", "undo", "closing"}

\* A group is being created or deleted by a coroutine that knows it, or it is active.
HoldersAreTrue ==
  \A t \in Threads :
    /\ proc[t].pc \in {"opening", "setup"} => /\ proc[t].g \in Group
                                              /\ group[proc[t].g].pc = proc[t].pc
    /\ proc[t].pc \in {"undo", "closing"} => /\ proc[t].g \in Group
                                             /\ group[proc[t].g].pc = "closing"
                                             /\ Contains(stack, t)

\* ... and nobody else has it in hand.
HeldByOne ==
  /\ IsInjective(active) /\ IsInjective(stack)
  /\ \A g \in Group :
       /\ ~(Holds("main", g) /\ Holds("handler", g))
       /\ Contains(stack, g) => group[g].pc = "closing" /\ ~Holds("main", g) /\ ~Holds("handler", g)
       /\ Contains(active, g) =>
            /\ group[g].pc \in {"open", "closing"}
            /\ group[g].pc = "closing" => IF Emptied THEN g = Head(active) ELSE Contains(stack, g)
            /\ ~Holds("handler", g)
            /\ Holds("main", g) => Emptied
  /\ Emptied => active # <<>> /\ proc.main.g = Head(active)

\* While erase() deletes a group that is still on the list, it is the only one, and has
\* another behind it.
Erased(g) == Contains(active, g) /\ group[g].pc = "closing"
OneIsErased ==
  ~Emptied => \A g, h \in Group : Erased(g) /\ Erased(h) => g = h /\ g # Last(active)

\* A group on whose channel the event handler waits is neither new nor gone.
CountedIsThere ==
  proc.handler.pc = "count" => /\ proc.handler.g \in Group
                               /\ group[proc.handler.g].pc \in {"open", "closing"}

\* A session without groups is finished, or about to be by who is deleting the last one.
LastGroupIsNoticed ==
  /\ session.hadGroup /\ active = <<>> =>
       \/ session.finished
       \/ \E g \in Group : Contains(stack, g)
       \/ proc.handler.pc = "closing"
  /\ proc.main.pc \in {"uninit", "groups", "closing"} => session.finished

SessionInv ==
  /\ Shape
  /\ ReadersAreCounted
  /\ SearchIsStopped /\ HandlerAsks
  /\ HoldersAreTrue /\ HeldByOne /\ OneIsErased /\ CountedIsThere
  /\ LastGroupIsNoticed

-----------------------------------------------------------------------------
(* The search for devices. *)

LEMMA WhoChangesFind ==
  ASSUME SessionNext, find' # find
  PROVE  \/ OnStation \/ StationsAreCounted \/ OnEnrollmentFailed \/ FindStep \/ InitSession
<1>1. ASSUME NEW t \in Threads, CreateStep(t) PROVE find' = find
  BY <1>1 DEF CreateStep, GroupOpens, GroupFailsToOpen, GroupIsSetUp, GroupIsNotSetUp, GroupIsUndone
<1>2. OnGroupStarted \/ OnWrongGroupStarted \/ OnGroupRemoved \/ OnEnrolls => find' = find
  BY DEF OnGroupStarted, OnWrongGroupStarted, OnGroupRemoved, OnEnrolls
<1>3. GroupIsRemoved \/ IsAsked \/ HandlerEnds \/ SessionCrashes => find' = find
  BY DEF GroupIsRemoved, IsAsked, HandlerEnds, SessionCrashes, UsesDangling, ReaderThrows
<1>4. \A g \in Group :
        GroupIsAnswered(g) \/ TerminateGroup(g) \/ CloseGroup(g) \/ GroupIsClosed(g) => find' = find
  BY DEF GroupIsAnswered, TerminateGroup, CloseGroup, GroupIsClosed
<1>5. Open \/ AddGroup \/ GroupIsAdded \/ AddTimesOut => find' = find
  BY DEF Open, AddGroup, GroupIsAdded, AddTimesOut
<1>6. StartDnsMasq \/ DnsMasqSettles \/ StartServiceDiscovery => find' = find
  BY DEF StartDnsMasq, DnsMasqSettles, StartServiceDiscovery
<1>7. CloseStep => find' = find
  BY DEF CloseStep, Poll, StopServiceDiscovery, CloseGroups, GroupsAreClosed, StopDnsMasq,
         DnsMasqIsStopped, KillDnsMasq, CloseChannel, ChannelIsClosed
<1>8. KeepAliveEnds \/ DnsMasqRuns => find' = find
  BY DEF KeepAliveEnds, DnsMasqRuns
<1> QED
  BY <1>1, <1>2, <1>3, <1>4, <1>5, <1>6, <1>7, <1>8
     DEF SessionNext, EventArrives, HandlerStep, OpenStep, Threads

\* Who waits for the answer to a request, or for a group to be closed, goes on only then;
\* and only who starts dnsmasq gives it time to settle.
LEMMA WhoGoesOn ==
  ASSUME ProcOK, FindOK, HandlerAsks, SessionNext
  PROVE  /\ proc.handler.pc = "ask" => proc'.handler.pc = "ask" \/ FindStep
         /\ proc.handler.pc = "closing" => proc'.handler.pc = "closing" \/ GroupIsRemoved
         /\ proc'.main.pc = "start" => proc'.handler.pc = "none"
         /\ proc'.main.pc = "settle" => proc.main.pc = "settle" \/ StartDnsMasq
<1> USE DEF ProcOK, Threads, Goes, At, HandlerAsks
<1> DEFINE Kept == /\ proc.handler.pc = "ask" => proc'.handler.pc = "ask" \/ FindStep
                   /\ proc.handler.pc = "closing" => proc'.handler.pc = "closing" \/ GroupIsRemoved
                   /\ proc'.main.pc = "start" => proc'.handler.pc = "none"
                   /\ proc'.main.pc = "settle" => proc.main.pc = "settle" \/ StartDnsMasq
<1>1. ASSUME NEW t \in Threads, CreateStep(t) PROVE Kept
  <2>1. CASE GroupOpens(t)
    BY <2>1 DEF GroupOpens
  <2>2. CASE GroupIsNotSetUp(t)
    BY <2>2 DEF GroupIsNotSetUp
  <2>3. ASSUME GroupFailsToOpen(t) \/ GroupIsSetUp(t) \/ GroupIsUndone(t) PROVE Kept
    <3>1. proc[t].pc \in {"opening", "setup", "undo"} /\ \E u : IsCreated(t, u)
      BY <2>3 DEF GroupFailsToOpen, GroupIsSetUp, GroupIsUndone
    <3>2. CASE t = "main"
      BY <3>1, <3>2 DEF IsCreated
    <3>3. CASE t # "main"
      BY <3>1, <3>3 DEF IsCreated
    <3> QED BY <3>2, <3>3
  <2> QED BY <1>1, <2>1, <2>2, <2>3 DEF CreateStep
<1>2. ASSUME EventArrives PROVE Kept
  <2>1. /\ proc.handler.pc = "take" /\ \/ proc' = proc
                                       \/ \E r : proc' = [proc EXCEPT !.handler = r]
    BY <1>2 DEF EventArrives, OnGroupStarted, OnWrongGroupStarted, OnGroupRemoved, OnEnrolls,
         OnStation, OnEnrollmentFailed, Takes, HandlerAt, CreateP2pGroup, IsCreated
  <2> QED BY <2>1
<1>3. ASSUME GroupIsRemoved \/ StationsAreCounted \/ IsAsked \/ HandlerEnds PROVE Kept
  BY <1>3 DEF GroupIsRemoved, StationsAreCounted, IsAsked, HandlerEnds, HandlerAt
<1>4. \A g \in Group : GroupIsAnswered(g) \/ TerminateGroup(g) \/ CloseGroup(g) \/ GroupIsClosed(g)
        => proc' = proc
  BY DEF GroupIsAnswered, TerminateGroup, CloseGroup, GroupIsClosed
<1>5. SessionCrashes \/ KeepAliveEnds \/ DnsMasqRuns => proc' = proc
  BY DEF SessionCrashes, UsesDangling, ReaderThrows, KeepAliveEnds, DnsMasqRuns
<1>6. ASSUME Open PROVE Kept
  BY <1>6 DEF Open, MainAt, Throws
<1>7. ASSUME InitSession \/ AddGroup \/ GroupIsAdded \/ AddTimesOut PROVE Kept
  BY <1>7 DEF InitSession, AddGroup, GroupIsAdded, AddTimesOut, Throws, CreateP2pGroup, IsCreated
<1>8. ASSUME StartDnsMasq \/ DnsMasqSettles \/ StartServiceDiscovery PROVE Kept
  BY <1>8 DEF StartDnsMasq, DnsMasqSettles, StartServiceDiscovery, Throws
<1>9. ASSUME CloseStep PROVE Kept
  <2>1. ASSUME NEW g, Deletes(g) PROVE Kept
    BY <2>1 DEF Deletes
  <2>2. ASSUME CloseGroups \/ GroupsAreClosed PROVE Kept
    BY <2>1, <2>2 DEF CloseGroups, GroupsAreClosed
  <2>3. ASSUME Poll \/ StopServiceDiscovery \/ KillDnsMasq \/ CloseChannel \/ ChannelIsClosed
        PROVE  Kept
    BY <2>3 DEF Poll, StopServiceDiscovery, KillDnsMasq, CloseChannel, ChannelIsClosed
  <2>4. ASSUME StopDnsMasq \/ DnsMasqIsStopped PROVE Kept
    BY <2>4 DEF StopDnsMasq, DnsMasqIsStopped, StopReturns
  <2> QED BY <1>9, <2>2, <2>3, <2>4 DEF CloseStep
<1>10. ASSUME FindStep PROVE Kept
  <2>1. proc' = proc \/ (find.asks # <<>> /\ Continues(Head(find.asks)[1]))
    BY <1>10 DEF FindStep, ScanAsks, FindIsAnswered, FindFails
  <2>2. find.asks # <<>> => Head(find.asks) = find.asks[1] /\ 1 \in DOMAIN find.asks
    BY DEF FindOK, Searches
  <2> QED BY <1>10, <2>1, <2>2 DEF Continues
<1> QED
  BY <1>1, <1>2, <1>3, <1>4, <1>5, <1>6, <1>7, <1>8, <1>9, <1>10
     DEF SessionNext, HandlerStep, OpenStep, Threads
\* What one more request does to the search.
LEMMA Asked ==
  ASSUME NEW f \in Searches, NEW who \in {"handler", "scan"}, NEW command \in {"find", "stop"}
  PROVE  /\ Ask(f, who, command) \in Searches
         /\ Ask(f, who, command).stations = f.stations
         /\ Ask(f, who, command).scan = f.scan
         /\ Ask(f, who, command).asks = Append(f.asks, <<who, command>>)
         /\ Ask(f, who, command).asks # <<>>
         /\ Last(Ask(f, who, command).asks)[2] = command
<1>1. <<who, command>> \in Requests
  BY DEF Requests
<1>2. /\ Append(f.asks, <<who, command>>) \in Seq(Requests)
      /\ Append(f.asks, <<who, command>>) # <<>>
      /\ Last(Append(f.asks, <<who, command>>)) = <<who, command>>
  BY <1>1 DEF Last, Searches
<1>3. Ask(f, who, command) = [f EXCEPT !.asks = Append(f.asks, <<who, command>>)]
  BY DEF Ask
<1>4. Ask(f, who, command).asks = Append(f.asks, <<who, command>>)
  BY <1>3 DEF Searches
<1>5. Ask(f, who, command) \in Searches /\ Ask(f, who, command).stations = f.stations
      /\ Ask(f, who, command).scan = f.scan
  BY <1>2, <1>3 DEF Searches
<1> QED BY <1>2, <1>4, <1>5

LEMMA HandlerAsksOnce ==
  ASSUME ProcOK, FindOK, HandlerAsks, proc.handler.pc # "ask", proc'.handler.pc = "ask",
         proc.main.pc # "start" \/ proc.handler.pc # "none", proc'.main = proc.main,
         NEW command \in {"find", "stop"},
         find'.asks = Append(find.asks, <<"handler", command>>)
  PROVE  HandlerAsks'
<1>1. \A i \in DOMAIN find.asks : find.asks[i][1] # "handler"
  BY DEF HandlerAsks
<1>2. /\ DOMAIN find'.asks = DOMAIN find.asks \cup {Len(find.asks) + 1}
      /\ \A i \in DOMAIN find.asks : find'.asks[i] = find.asks[i]
  BY DEF FindOK, Searches, Requests
<1> QED BY <1>1, <1>2 DEF HandlerAsks

\* A request of the event handler is "find" only if nobody is connected.
LEMMA EnrollmentEnds ==
  ASSUME ProcOK, FindOK, HandlerAsks, NEW n \in {0, 1}, NEW e,
         proc.handler.pc \in {"take", "count"}, Goes("handler", "ask"),
         find' = EndEnrollment([find EXCEPT !.stations = n], e)
  PROVE  FindOK' /\ SearchIsStopped' /\ HandlerAsks'
<1> DEFINE f == [find EXCEPT !.stations = n]
           command == IF e = "disconnected" \/ f.stations # 0 THEN "stop" ELSE "find"
<1>1. f \in Searches /\ f.asks = find.asks /\ f.stations = n
  BY DEF FindOK, Searches
<1>2. command \in {"find", "stop"} /\ (n # 0 => command = "stop")
  BY <1>1
<1>3. find' = Ask(f, "handler", command)
  BY DEF EndEnrollment
<1> HIDE DEF f, command
<1>4. /\ find'.stations = n /\ find'.asks = Append(find.asks, <<"handler", command>>)
      /\ find'.asks # <<>> /\ Last(find'.asks)[2] = command
  <2>1. /\ Ask(f, "handler", command).stations = f.stations
        /\ Ask(f, "handler", command).asks = Append(f.asks, <<"handler", command>>)
        /\ Ask(f, "handler", command).asks # <<>>
        /\ Last(Ask(f, "handler", command).asks)[2] = command
    BY <1>1, <1>2, Asked
  <2> QED BY <1>1, <1>3, <2>1
<1>5. FindOK'
  BY <1>1, <1>2, <1>3, Asked DEF FindOK
<1>6. SearchIsStopped'
  BY <1>2, <1>4 DEF SearchIsStopped
<1>7. /\ proc'.handler.pc = "ask" /\ proc'.main = proc.main
  BY DEF ProcOK, Threads, Goes, At
<1>8. HandlerAsks'
  BY <1>2, <1>4, <1>7, HandlerAsksOnce
<1> QED BY <1>5, <1>6, <1>8

LEMMA RequestEnds ==
  ASSUME ProcOK, FindOK, HandlerAsks, SearchIsStopped, find.asks # <<>>,
         Continues(Head(find.asks)[1]), find'.asks = Tail(find.asks),
         find'.stations = find.stations,
         Head(find.asks)[2] = "stop" => find'.searching # "yes"
  PROVE  SearchIsStopped' /\ HandlerAsks'
<1>0. find.asks \in Seq(Requests)
  BY DEF FindOK, Searches
<1>1. /\ Head(find.asks) = find.asks[1] /\ Len(find.asks) \in Nat \ {0}
      /\ DOMAIN find'.asks = 1 .. Len(find.asks) - 1 /\ Len(find'.asks) = Len(find.asks) - 1
      /\ \A i \in DOMAIN find'.asks : find'.asks[i] = find.asks[i + 1]
      /\ DOMAIN find.asks = 1 .. Len(find.asks)
      /\ find'.asks = <<>> => Last(find.asks) = Head(find.asks)
      /\ find'.asks # <<>> => Last(find'.asks) = Last(find.asks)
  <2> DEFINE a == find.asks
             b == Tail(a)
  <2>1. a \in Seq(Requests) /\ a # <<>> /\ find'.asks = b /\ find.asks = a
    BY <1>0
  <2> HIDE DEF a
  <2>2. Head(a) = a[1] /\ Len(a) \in Nat \ {0} /\ DOMAIN a = 1 .. Len(a)
    BY <2>1
  <2>3. b \in Seq(Requests) /\ DOMAIN b = 1 .. Len(a) - 1 /\ Len(b) = Len(a) - 1
        /\ \A i \in DOMAIN b : b[i] = a[i + 1]
    BY <2>1
  <2> HIDE DEF b
  <2>4. (b = <<>> => Last(a) = Head(a)) /\ (b # <<>> => Last(b) = Last(a))
    BY <2>2, <2>3 DEF Last
  <2> QED BY <2>1, <2>2, <2>3, <2>4
<1>2. SearchIsStopped'
  BY <1>1 DEF SearchIsStopped
<1>3. CASE find.asks[1][1] = "handler"
  <2>1. proc.handler.pc = "ask" /\ proc'.handler.pc = "take" /\ proc'.main = proc.main
    BY <1>1, <1>3 DEF Continues, HandlerAsks, Goes, At, ProcOK, Threads
  <2>2. \A i \in DOMAIN find'.asks : i + 1 \in DOMAIN find.asks /\ i + 1 # 1 /\ 1 \in DOMAIN find.asks
    BY <1>1
  <2>3. \A i \in DOMAIN find'.asks : find'.asks[i][1] # "handler"
    BY <1>1, <1>3, <2>2 DEF HandlerAsks
  <2> QED BY <1>2, <2>1, <2>3 DEF HandlerAsks
<1>4. CASE find.asks[1][1] # "handler"
  <2>1. proc' = proc
    BY <1>1, <1>4 DEF Continues
  <2>2. \A i \in DOMAIN find'.asks : find'.asks[i][1] = "handler" =>
          /\ proc.handler.pc = "ask"
          /\ \A j \in DOMAIN find.asks : find.asks[j][1] = "handler" => i + 1 = j
    BY <1>1 DEF HandlerAsks
  <2>3. ASSUME NEW i \in DOMAIN find'.asks, NEW j \in DOMAIN find'.asks,
               find'.asks[i][1] = "handler", find'.asks[j][1] = "handler"
        PROVE  i = j
    <3>1. j + 1 \in DOMAIN find.asks /\ find.asks[j + 1][1] = "handler"
      BY <1>1, <2>3
    <3>2. i + 1 = j + 1
      BY <2>2, <2>3, <3>1
    <3> QED BY <1>1, <3>2
  <2> QED BY <1>2, <2>1, <2>2, <2>3 DEF HandlerAsks
<1> QED BY <1>2, <1>3, <1>4

LEMMA SearchStep ==
  ASSUME Shape, SearchIsStopped, HandlerAsks, SessionNext
  PROVE  FindOK' /\ SearchIsStopped' /\ HandlerAsks'
<1> USE DEF Shape
<1>1. CASE find' = find /\ ~FindStep
  BY <1>1, WhoGoesOn DEF FindOK, SearchIsStopped, HandlerAsks
<1>2. CASE OnStation
  <2>1. PICK e \in {"connected", "disconnected"} :
          /\ Takes(e)
          /\ \/ /\ find' = find
                /\ proc' = [proc EXCEPT !.handler = [pc |-> "count", g |-> First, event |-> e]]
             \/ /\ find' = EndEnrollment([find EXCEPT !.stations = 0], e)
                /\ Goes("handler", "ask")
    BY <1>2 DEF OnStation
  <2>2. proc.handler.pc = "take"
    BY <2>1 DEF Takes, HandlerAt
  <2>4. CASE /\ find' = find
             /\ proc' = [proc EXCEPT !.handler = [pc |-> "count", g |-> First, event |-> e]]
    BY <2>2, <2>4 DEF FindOK, SearchIsStopped, HandlerAsks, ProcOK, Threads
  <2>5. CASE find' = EndEnrollment([find EXCEPT !.stations = 0], e) /\ Goes("handler", "ask")
    BY <2>2, <2>5, EnrollmentEnds
  <2> QED BY <2>1, <2>4, <2>5
<1>3. CASE StationsAreCounted
  <2>1. proc.handler.pc = "count" /\ Goes("handler", "ask")
    BY <1>3 DEF StationsAreCounted, HandlerAt
  <2>2. PICK n \in {0, 1} :
          find' = EndEnrollment([find EXCEPT !.stations = n], proc.handler.event)
    BY <1>3 DEF StationsAreCounted
  <2> QED BY <2>1, <2>2, EnrollmentEnds
<1>4. CASE OnEnrollmentFailed
  <2>1. /\ proc.handler.pc = "take" /\ Goes("handler", "ask")
        /\ find' = EndEnrollment(find, "failed") /\ "failed" \in EventKinds
    BY <1>4 DEF OnEnrollmentFailed, Takes, HandlerAt, EventKinds
  <2>2. find = [find EXCEPT !.stations = find.stations] /\ find.stations \in {0, 1}
    BY DEF FindOK, Searches
  <2> QED BY <2>1, <2>2, EnrollmentEnds
<1>5. CASE ScanAsks
  <2>1. proc' = proc
    BY <1>5 DEF ScanAsks
  <2>2. CASE Looks(find)
    BY <1>5, <2>1, <2>2 DEF ScanAsks, FindOK, Searches, SearchIsStopped, HandlerAsks
  <2>3. CASE ~Looks(find)
    <3> DEFINE command == IF find.scan = "found" THEN "stop" ELSE "find"
    <3>1. find' = [Ask(find, "scan", command) EXCEPT !.scan = "ask"] /\ find.stations = 0
      BY <1>5, <2>3 DEF ScanAsks, Looks
    <3> HIDE DEF command
    <3>2. command \in {"find", "stop"}
      BY DEF command
    <3>3. Ask(find, "scan", command) \in Searches
          /\ Ask(find, "scan", command).stations = 0
          /\ Ask(find, "scan", command).asks = Append(find.asks, <<"scan", command>>)
      BY <3>1, <3>2, Asked DEF FindOK
    <3>4. FindOK' /\ find'.stations = 0 /\ find'.asks = Append(find.asks, <<"scan", command>>)
      BY <3>1, <3>3 DEF FindOK, Searches
    <3>5. /\ DOMAIN find'.asks = DOMAIN find.asks \cup {Len(find.asks) + 1}
          /\ \A i \in DOMAIN find.asks : find'.asks[i] = find.asks[i]
          /\ find'.asks[Len(find.asks) + 1][1] = "scan"
      <4>1. find.asks \in Seq(Requests)
        BY DEF FindOK, Searches
      <4> QED BY <3>4, <4>1
    <3> QED BY <2>1, <3>4, <3>5 DEF SearchIsStopped, HandlerAsks
  <2> QED BY <2>2, <2>3
<1>6. CASE FindIsAnswered
  <2> DEFINE who == Head(find.asks)[1]
             finds == Head(find.asks)[2] = "find"
  <2>1. /\ find.asks # <<>> /\ Continues(who)
        /\ find' = [Answered(who, find, IF finds THEN "found" ELSE "delay")
                    EXCEPT !.searching = IF finds THEN "yes" ELSE "no"]
    BY <1>6 DEF FindIsAnswered
  <2> HIDE DEF who, finds
  <2>2. /\ FindOK' /\ find'.asks = Tail(find.asks) /\ find'.stations = find.stations
        /\ find'.searching = IF finds THEN "yes" ELSE "no"
    <3>1. find.asks \in Seq(Requests) /\ Tail(find.asks) \in Seq(Requests)
      BY <2>1 DEF FindOK, Searches
    <3> QED BY <2>1, <3>1 DEF Answered, FindOK, Searches
  <2> QED BY <2>1, <2>2, RequestEnds DEF who, finds
<1>7. CASE FindFails
  <2> DEFINE who == Head(find.asks)[1]
  <2>1. /\ find.asks # <<>> /\ Continues(who)
        /\ find' = [Answered(who, find, "ended") EXCEPT !.searching = "unknown"]
    BY <1>7 DEF FindFails
  <2> HIDE DEF who
  <2>2. /\ FindOK' /\ find'.asks = Tail(find.asks) /\ find'.stations = find.stations
        /\ find'.searching = "unknown"
    <3>1. find.asks \in Seq(Requests) /\ Tail(find.asks) \in Seq(Requests)
      BY <2>1 DEF FindOK, Searches
    <3> QED BY <2>1, <3>1 DEF Answered, FindOK, Searches
  <2> QED BY <2>1, <2>2, RequestEnds DEF who
<1>8. CASE InitSession
  <2>1. find' = [find EXCEPT !.scan = "delay"]
    BY <1>8 DEF InitSession
  <2>2. proc'.handler = proc.handler /\ proc'.main.pc # "start"
    BY <1>8
       DEF InitSession, CreateP2pGroup, IsCreated, Throws, Goes, At, ProcOK, Threads
  <2> QED BY <2>1, <2>2 DEF FindOK, Searches, SearchIsStopped, HandlerAsks
<1> QED
  BY <1>1, <1>2, <1>3, <1>4, <1>5, <1>6, <1>7, <1>8, WhoChangesFind DEF FindStep
-----------------------------------------------------------------------------
(* dnsmasq and its readers. *)

LEMMA WhoChangesDns ==
  ASSUME SessionNext, dns' # dns
  PROVE  StartDnsMasq \/ DnsMasqSettles \/ StopDnsMasq \/ DnsMasqIsStopped \/ KillDnsMasq \/ DnsMasqRuns
<1>1. ASSUME NEW t \in Threads, CreateStep(t) PROVE dns' = dns
  BY <1>1 DEF CreateStep, GroupOpens, GroupFailsToOpen, GroupIsSetUp, GroupIsNotSetUp, GroupIsUndone
<1>2. EventArrives => dns' = dns
  BY DEF EventArrives, OnGroupStarted, OnWrongGroupStarted, OnGroupRemoved, OnEnrolls, OnStation,
         OnEnrollmentFailed
<1>3. GroupIsRemoved \/ StationsAreCounted \/ IsAsked \/ HandlerEnds \/ SessionCrashes => dns' = dns
  BY DEF GroupIsRemoved, StationsAreCounted, IsAsked, HandlerEnds, SessionCrashes, UsesDangling, ReaderThrows
<1>4. \A g \in Group :
        GroupIsAnswered(g) \/ TerminateGroup(g) \/ CloseGroup(g) \/ GroupIsClosed(g) => dns' = dns
  BY DEF GroupIsAnswered, TerminateGroup, CloseGroup, GroupIsClosed
<1>5. Open \/ InitSession \/ AddGroup \/ GroupIsAdded \/ AddTimesOut => dns' = dns
  BY DEF Open, InitSession, AddGroup, GroupIsAdded, AddTimesOut
<1>6. StartServiceDiscovery \/ FindStep \/ KeepAliveEnds => dns' = dns
  BY DEF StartServiceDiscovery, FindStep, ScanAsks, FindIsAnswered, FindFails, KeepAliveEnds
<1>7. Poll \/ StopServiceDiscovery \/ CloseGroups \/ GroupsAreClosed \/ CloseChannel
        \/ ChannelIsClosed => dns' = dns
  BY DEF Poll, StopServiceDiscovery, CloseGroups, GroupsAreClosed, CloseChannel, ChannelIsClosed
<1> QED
  BY <1>1, <1>2, <1>3, <1>4, <1>5, <1>6, <1>7
     DEF SessionNext, HandlerStep, OpenStep, CloseStep, Threads

LEMMA ReadersStep ==
  ASSUME Shape, ReadersAreCounted, HandlerAsks, SessionNext
  PROVE  DnsTypeOK' /\ ReadersAreCounted'
<1> DEFINE Typed == DnsTypeOK
           Counted == /\ dns.pid => /\ dns.readers + dns.terminated = 2
                                    /\ dns.terminated > 0 => EndOfOutput
                      /\ NoOrphan
<1>0. Typed /\ Counted /\ ProcOK
  BY DEF Shape, SessionTypeOK, ReadersAreCounted
<1>1. proc'.main.pc = "settle" => proc.main.pc = "settle" \/ StartDnsMasq
  BY WhoGoesOn DEF Shape
<1>2. ASSUME dns' = dns PROVE Typed' /\ Counted'
  BY <1>0, <1>2 DEF DnsTypeOK, NoOrphan, EndOfOutput
<1>3. CASE StartDnsMasq
  <2>1. \/ DnsStarted
        \/ dns' = dns /\ proc'.main.pc # "settle"
    BY <1>0, <1>3 DEF StartDnsMasq, Goes, At, ProcOK, Threads
  <2>2. CASE DnsStarted
    <3>1. /\ DnsTypeOK' /\ dns'.pid /\ dns'.readers = 2 /\ dns'.terminated = 0 /\ dns'.running
      BY <2>2 DEF DnsStarted, Spawned, DnsTypeOK
    <3> QED BY <3>1 DEF ReadersAreCounted, NoOrphan
  <2> QED BY <1>2, <2>1, <2>2 DEF ReadersAreCounted
<1>4. CASE DnsMasqSettles
  <2>1. proc.main.pc = "settle" /\ proc'.main.pc # "settle"
    BY <1>0, <1>4 DEF DnsMasqSettles, MainAt, Goes, At, ProcOK, Threads
  <2>2. CASE dns' = dns
    BY <1>2, <2>1, <2>2 DEF ReadersAreCounted
  <2>3. CASE HasTerminated
    <3>1. PICK b \in BOOLEAN : dns' = [dns EXCEPT !.sudo = "reaped", !.server = b]
      BY <2>3 DEF HasTerminated
    <3>2. DnsTypeOK' /\ dns'.pid = dns.pid /\ dns'.readers = dns.readers
          /\ dns'.terminated = dns.terminated /\ dns'.running = dns.running
      BY <1>0, <3>1 DEF DnsTypeOK
    <3>3. dns.pid /\ dns.terminated = 0
      BY <2>1 DEF ReadersAreCounted
    <3> QED BY <1>0, <2>1, <3>2, <3>3 DEF ReadersAreCounted, NoOrphan
  <2> QED
    BY <1>4, <2>2, <2>3 DEF DnsMasqSettles
<1>5. ASSUME proc.main.pc # "settle", ~StartDnsMasq, Typed', Counted' PROVE ReadersAreCounted'
  BY <1>1, <1>5 DEF ReadersAreCounted
<1>6. CASE StopDnsMasq \/ KillDnsMasq \/ DnsMasqIsStopped
  <2>1. proc.main.pc # "settle" /\ ~StartDnsMasq
    BY <1>6 DEF StopDnsMasq, KillDnsMasq, DnsMasqIsStopped, MainAt, StartDnsMasq
  <2>2. \/ dns' = dns
        \/ dns.running /\ dns' = [dns EXCEPT !.running = FALSE]
        \/ dns' = Killed
        \/ dns.terminated = 2 /\ dns' = Waited
    BY <1>6 DEF StopDnsMasq, NothingToStop, KillDnsMasq, DnsMasqIsStopped, StopBegins, ReadersDone
  <2>3. CASE dns' = [dns EXCEPT !.running = FALSE]
    <3>1. DnsTypeOK' /\ dns'.pid = dns.pid /\ dns'.readers = dns.readers
          /\ dns'.terminated = dns.terminated /\ dns'.running = FALSE
          /\ dns'.server = dns.server /\ dns'.sudo = dns.sudo
      BY <1>0, <2>3 DEF DnsTypeOK
    <3> QED BY <1>0, <1>5, <2>1, <3>1 DEF NoOrphan, EndOfOutput
  <2>4. CASE dns' = Killed
    <3>1. DnsTypeOK' /\ dns'.pid = dns.pid /\ dns'.readers = dns.readers
          /\ dns'.terminated = dns.terminated /\ dns'.server = dns.server
          /\ dns'.sudo = IF dns.sudo = "alive" THEN "zombie" ELSE dns.sudo
      BY <1>0, <2>4 DEF DnsTypeOK, Killed
    <3> QED BY <1>0, <1>5, <2>1, <3>1 DEF NoOrphan, EndOfOutput
  <2>5. CASE dns.terminated = 2 /\ dns' = Waited
    <3>1. DnsTypeOK' /\ dns'.pid = FALSE /\ dns'.readers = dns.readers
          /\ dns'.terminated = dns.terminated /\ dns'.server = dns.server /\ dns'.sudo = "reaped"
      BY <1>0, <2>5 DEF DnsTypeOK, Waited
    <3>2. dns.readers \in 0..2 /\ dns.terminated \in 0..2
      BY <1>0 DEF DnsTypeOK
    <3> QED BY <1>0, <1>5, <2>1, <2>5, <3>1, <3>2 DEF NoOrphan, EndOfOutput
  <2> QED BY <1>2, <1>5, <2>1, <2>2, <2>3, <2>4, <2>5
<1>7. CASE DnsMasqRuns
  <2>1. proc.main.pc # "settle" /\ ~StartDnsMasq
    BY <1>7 DEF DnsMasqRuns, MainAt, StartDnsMasq
  <2>2. DnsServerEnds \/ SudoEnds \/ ReaderEnds \/ ReaderSpins
    BY <1>7 DEF DnsMasqRuns, DnsEnvironment
  <2>3. CASE DnsServerEnds \/ SudoEnds \/ ReaderSpins
    <3>1. DnsTypeOK' /\ dns'.pid = dns.pid /\ dns'.readers = dns.readers
          /\ dns'.terminated = dns.terminated /\ dns'.running = dns.running
      BY <1>0, <2>3 DEF DnsTypeOK, DnsServerEnds, SudoEnds, ReaderSpins
    <3>2. DnsServerEnds \/ ReaderSpins => (dns'.server => dns.server) /\ dns'.sudo = dns.sudo
      BY <1>0 DEF DnsTypeOK, DnsServerEnds, ReaderSpins
    <3>3. SudoEnds => dns'.server = dns.server /\ dns.sudo = "alive" /\ dns'.sudo = "zombie"
      BY <1>0 DEF DnsTypeOK, SudoEnds
    <3> QED BY <1>0, <1>5, <2>1, <2>3, <3>1, <3>2, <3>3 DEF NoOrphan, EndOfOutput
  <2>4. CASE ReaderEnds
    <3>0. dns.readers \in 0..2 /\ dns.terminated \in 0..2 /\ dns.readers > 0 /\ EndOfOutput
      BY <1>0, <2>4 DEF DnsTypeOK, ReaderEnds
    <3>1. dns.pid
      BY <1>0, <3>0 DEF NoOrphan
    <3>2. dns.readers + dns.terminated = 2
      BY <1>0, <3>1
    <3>3. dns.readers - 1 \in 0..2 /\ dns.terminated + 1 \in 0..2
          /\ (dns.readers - 1) + (dns.terminated + 1) = 2
      BY <3>0, <3>2
    <3>4. dns' = [dns EXCEPT !.readers = dns.readers - 1, !.terminated = dns.terminated + 1]
      BY <2>4 DEF ReaderEnds, CountsOut
    <3>5. DnsTypeOK' /\ dns'.pid = dns.pid /\ dns'.readers = dns.readers - 1
          /\ dns'.terminated = dns.terminated + 1 /\ dns'.running = dns.running
          /\ dns'.server = dns.server /\ dns'.sudo = dns.sudo
      BY <1>0, <3>3, <3>4 DEF DnsTypeOK
    <3> QED BY <1>0, <1>5, <2>1, <3>0, <3>1, <3>3, <3>5 DEF NoOrphan, EndOfOutput
  <2> QED BY <2>2, <2>3, <2>4
<1>8. CASE dns' = dns /\ ~StartDnsMasq
  BY <1>1, <1>2, <1>8 DEF ReadersAreCounted
<1> QED BY <1>3, <1>4, <1>6, <1>7, <1>8, WhoChangesDns
-----------------------------------------------------------------------------
(* The flags, and where CoMain() and the event handler are. *)

LEMMA FlagsStep ==
  ASSUME session \in Flags, SessionNext
  PROVE  session' \in Flags
<1> USE DEF Flags
<1>1. ASSUME NEW t \in Threads, NEW s \in Flags, IsCreated(t, s) PROVE session' \in Flags
  BY <1>1 DEF IsCreated, Seen
<1>2. ASSUME NEW s \in Flags, Throws(s) PROVE session' \in Flags
  BY <1>2 DEF Throws, Leaves
<1>3. ASSUME NEW t \in Threads, CreateStep(t) PROVE session' \in Flags
  <2>1. CASE GroupOpens(t) \/ GroupIsNotSetUp(t)
    BY <2>1 DEF GroupOpens, GroupIsNotSetUp
  <2>2. CASE GroupFailsToOpen(t) \/ GroupIsUndone(t)
    BY <1>1, <2>2 DEF GroupFailsToOpen, GroupIsUndone
  <2>3. CASE GroupIsSetUp(t)
    <3>1. [session EXCEPT !.hadGroup = TRUE] \in Flags
      OBVIOUS
    <3> QED BY <1>1, <2>3, <3>1 DEF GroupIsSetUp
  <2> QED BY <1>3, <2>1, <2>2, <2>3 DEF CreateStep
<1>4. ASSUME EventArrives PROVE session' \in Flags
  <2>1. CASE OnGroupStarted
    BY <1>1, <2>1 DEF OnGroupStarted, CreateP2pGroup, Threads
  <2>2. CASE OnWrongGroupStarted
    <3>1. (session.wrong \/ ~HasLeft) \in BOOLEAN
      BY DEF HasLeft
    <3> QED BY <2>2, <3>1 DEF OnWrongGroupStarted, Seen, HasLeft
  <2> QED
    BY <1>4, <2>1, <2>2 DEF EventArrives, OnGroupRemoved, OnStation, OnEnrollmentFailed, OnEnrolls
<1>5. ASSUME GroupIsRemoved \/ \E g \in Group : GroupIsClosed(g) PROVE session' \in Flags
  <2>1. PICK left : session' = FinishedIfLast(session, left)
    BY <1>5 DEF GroupIsRemoved, GroupIsClosed
  <2>2. (session.finished \/ left = <<>>) \in BOOLEAN
    OBVIOUS
  <2> QED BY <2>1, <2>2 DEF FinishedIfLast
<1>6. StationsAreCounted \/ IsAsked \/ HandlerEnds \/ FindStep \/ DnsMasqRuns => session' \in Flags
  BY DEF StationsAreCounted, IsAsked, HandlerEnds, FindStep, ScanAsks, FindIsAnswered, FindFails,
         DnsMasqRuns
<1>7. SessionCrashes \/ KeepAliveEnds => session' \in Flags
  BY DEF SessionCrashes, UsesDangling, ReaderThrows, KeepAliveEnds
<1>8. \A g \in Group : GroupIsAnswered(g) \/ TerminateGroup(g) \/ CloseGroup(g) => session' \in Flags
  BY DEF GroupIsAnswered, TerminateGroup, CloseGroup
<1>9. ASSUME Open \/ AddGroup PROVE session' \in Flags
  BY <1>2, <1>9 DEF Open, AddGroup
<1>10. ASSUME InitSession PROVE session' \in Flags
  BY <1>1, <1>2, <1>10 DEF InitSession, CreateP2pGroup, Threads
<1>11. ASSUME GroupIsAdded \/ AddTimesOut \/ StartServiceDiscovery PROVE session' \in Flags
  BY <1>2, <1>11, [session EXCEPT !.finished = TRUE] \in Flags
     DEF GroupIsAdded, AddTimesOut, StartServiceDiscovery
<1>12. StartDnsMasq \/ DnsMasqSettles => session' \in Flags
  BY DEF StartDnsMasq, DnsMasqSettles
<1>13. CloseStep => session' \in Flags
  BY DEF CloseStep, Poll, Leaves, StopServiceDiscovery, CloseGroups, GroupsAreClosed, StopDnsMasq,
         DnsMasqIsStopped, KillDnsMasq, CloseChannel, ChannelIsClosed
<1> QED
  BY <1>3, <1>4, <1>5, <1>6, <1>7, <1>8, <1>9, <1>10, <1>11, <1>12, <1>13
     DEF SessionNext, HandlerStep, OpenStep, Threads
-----------------------------------------------------------------------------
(* Who has which group. *)

InHand == {"opening", "setup", "undo", "closing"}

GroupsInv ==
  /\ ProcOK /\ GroupOK /\ active \in Seq(Group) /\ stack \in Seq(Threads \cup Group)
  /\ HoldersAreTrue /\ HeldByOne /\ OneIsErased /\ CountedIsThere

\* A step of a coroutine that has no group in hand, before or after, nor waits for one.
PlainMove ==
  /\ ProcOK' /\ UNCHANGED <<group, active>>
  /\ \A t \in Threads : \/ proc'[t] = proc[t]
                        \/ proc[t].pc \notin InHand /\ proc'[t].pc \notin InHand \cup {"count"}
  /\ \/ stack' = stack
     \/ CanRun("main") /\ Pumps("main")
     \/ IsOnTop("main") /\ Returns /\ proc.main.pc \notin InHand

LEMMA PlainlyGoes ==
  ASSUME ProcOK, NEW t \in Threads, NEW pc \in ProcPc \ (InHand \cup {"count"}), Goes(t, pc),
         proc[t].pc \notin InHand, UNCHANGED <<group, active>>,
         \/ stack' = stack
         \/ CanRun("main") /\ Pumps("main")
         \/ IsOnTop("main") /\ Returns /\ proc.main.pc \notin InHand
  PROVE  PlainMove
<1>1. At(pc) \in [pc : ProcPc, g : Group \cup {NoGroup}, event : EventKinds \cup {"none"}]
  BY DEF At
<1>2. ProcOK' /\ proc'[t].pc = pc /\ \A u \in Threads : u # t => proc'[u] = proc[u]
  BY <1>1 DEF ProcOK, Goes, At
<1> QED BY <1>2 DEF PlainMove

LEMMA PlainStays ==
  ASSUME ProcOK, UNCHANGED <<proc, group, active, stack>>
  PROVE  PlainMove
  BY DEF PlainMove, ProcOK

\* The stack when CoMain() begins to pump messages, or ends.
LEMMA MainPumps ==
  ASSUME stack \in Seq(Threads \cup Group), IsInjective(stack),
         \/ stack' = stack
         \/ CanRun("main") /\ Pumps("main")
         \/ IsOnTop("main") /\ Returns
  PROVE  /\ stack' \in Seq(Threads \cup Group) /\ IsInjective(stack')
         /\ \A x : x # "main" => (Contains(stack', x) <=> Contains(stack, x))
         /\ Contains(stack, "main") => Contains(stack', "main") \/ Returns
<1>1. CASE stack' = stack
  BY <1>1
<1>2. CASE CanRun("main") /\ Pumps("main")
  <2>1. "main" \notin Range(stack) /\ "main" \in Threads \cup Group
    BY <1>2, ContainsIsRange DEF CanRun, Threads
  <2>2. /\ stack' \in Seq(Threads \cup Group) /\ IsInjective(stack')
        /\ Range(stack') = Range(stack) \cup {"main"}
    BY <1>2, <2>1, ListWith DEF Pumps
  <2> QED BY <2>2, ContainsIsRange
<1>3. CASE IsOnTop("main") /\ Returns
  <2>1. /\ stack' \in Seq(Threads \cup Group) /\ IsInjective(stack')
        /\ Range(stack') = Range(stack) \ {"main"}
    BY <1>3, ListFront DEF IsOnTop, Returns
  <2> QED BY <1>3, <2>1, ContainsIsRange
<1> QED BY <1>1, <1>2, <1>3

LEMMA PlainKeeps == ASSUME GroupsInv, PlainMove PROVE GroupsInv'
<1> USE SessionAssumption DEF GroupsInv
<1>1. /\ group' = group /\ active' = active /\ ProcOK'
      /\ \A t \in Threads : proc'[t] = proc[t]
            \/ (proc[t].pc \notin InHand /\ proc'[t].pc \notin InHand \cup {"count"})
  BY DEF PlainMove
<1>2. /\ stack' \in Seq(Threads \cup Group) /\ IsInjective(stack')
      /\ \A x : x # "main" => (Contains(stack', x) <=> Contains(stack, x))
      /\ Contains(stack, "main") => Contains(stack', "main") \/ proc.main.pc \notin InHand
  <2>1. IsInjective(stack)
    BY DEF HeldByOne
  <2>2. CASE stack' = stack
    BY <2>1, <2>2
  <2>3. CASE CanRun("main") /\ Pumps("main")
    BY <2>1, <2>3, MainPumps DEF CanRun
  <2>4. CASE IsOnTop("main") /\ Returns /\ proc.main.pc \notin InHand
    BY <2>1, <2>4, MainPumps
  <2> QED BY <2>2, <2>3, <2>4 DEF PlainMove
<1>3. \A g \in Group : Contains(stack', g) <=> Contains(stack, g)
  BY <1>2 DEF Threads
<1>4. \A t \in Threads, g \in Group : Holds(t, g)' <=> Holds(t, g)
  BY <1>1 DEF Holds, InHand
<1>5. Emptied' <=> Emptied
  BY <1>1 DEF Emptied, InHand, Threads
<1>6. HoldersAreTrue'
  <2> SUFFICES ASSUME NEW t \in Threads, proc'[t].pc \in InHand
               PROVE  /\ proc[t].pc = proc'[t].pc /\ proc[t].g = proc'[t].g
                      /\ Contains(stack, t) => Contains(stack', t)
    BY <1>1 DEF HoldersAreTrue, InHand
  <2>1. proc'[t] = proc[t]
    BY <1>1
  <2>2. t # "main" => (Contains(stack', t) <=> Contains(stack, t))
    BY <1>2
  <2> QED BY <1>2, <2>1, <2>2
<1>7. HeldByOne'
  BY <1>1, <1>2, <1>3, <1>4, <1>5 DEF HeldByOne, Threads, Emptied, InHand
<1>8. OneIsErased' /\ CountedIsThere'
  BY <1>1, <1>5 DEF OneIsErased, Erased, CountedIsThere, Threads
<1> QED BY <1>1, <1>2, <1>6, <1>7, <1>8 DEF GroupOK
\* The actions of the event handler that have no group in hand, and those of others that
\* leave the coroutines alone.
HandlerIsPlain ==
  \/ OnWrongGroupStarted \/ OnEnrollmentFailed \/ OnEnrolls
  \/ active = <<>> /\ (OnGroupRemoved \/ OnStation)
  \/ StationsAreCounted \/ IsAsked \/ HandlerEnds \/ FindStep
  \/ SessionCrashes \/ KeepAliveEnds \/ DnsMasqRuns \/ \E g \in Group : TerminateGroup(g)

LEMMA HandlerPlainly == ASSUME Shape, HandlerAsks, HandlerIsPlain PROVE PlainMove
<1> USE DEF Shape
<1>1. CASE \/ OnWrongGroupStarted \/ SessionCrashes \/ KeepAliveEnds \/ DnsMasqRuns
           \/ \E g \in Group : TerminateGroup(g)
  BY <1>1, PlainStays
     DEF OnWrongGroupStarted, SessionCrashes, UsesDangling, ReaderThrows, KeepAliveEnds, DnsMasqRuns, TerminateGroup
<1>2. CASE active = <<>> /\ OnGroupRemoved
  BY <1>2, PlainStays DEF OnGroupRemoved
<1>3. CASE OnEnrollmentFailed \/ OnEnrolls \/ IsAsked \/ HandlerEnds \/ StationsAreCounted
           \/ (active = <<>> /\ OnStation)
  <2>1. /\ proc["handler"].pc \notin InHand /\ UNCHANGED <<group, active>> /\ stack' = stack
        /\ \E pc \in {"ask", "connect", "take", "ended"} : Goes("handler", pc)
    BY <1>3
       DEF OnEnrollmentFailed, OnEnrolls, IsAsked, HandlerEnds, StationsAreCounted, OnStation,
           Takes, HandlerAt, InHand
  <2> QED BY <2>1, PlainlyGoes DEF ProcPc, InHand, Threads
<1>4. CASE FindStep
  <2>1. CASE proc' = proc
    BY <1>4, <2>1, PlainStays DEF FindStep, ScanAsks, FindIsAnswered, FindFails
  <2>2. CASE proc' # proc
    <3>1. find.asks # <<>> /\ Continues(Head(find.asks)[1]) /\ UNCHANGED <<group, active, stack>>
      BY <1>4, <2>2 DEF FindStep, ScanAsks, FindIsAnswered, FindFails
    <3>2. Head(find.asks) = find.asks[1] /\ 1 \in DOMAIN find.asks
      BY <3>1 DEF FindOK, Searches
    <3>3. Goes("handler", "take") /\ proc["handler"].pc = "ask"
      BY <2>2, <3>1, <3>2 DEF Continues, HandlerAsks
    <3> QED BY <3>1, <3>3, PlainlyGoes DEF ProcPc, InHand, Threads
  <2> QED BY <2>1, <2>2
<1> QED BY <1>1, <1>2, <1>3, <1>4 DEF HandlerIsPlain

\* ... and those of CoMain().
MainIsPlain ==
  \/ AddGroup \/ GroupIsAdded \/ AddTimesOut \/ StartDnsMasq \/ DnsMasqSettles
  \/ StartServiceDiscovery \/ Poll \/ StopServiceDiscovery
  \/ active = <<>> /\ CloseGroups
  \/ StopDnsMasq \/ DnsMasqIsStopped \/ KillDnsMasq \/ CloseChannel \/ ChannelIsClosed

LEMMA MainPlainly == ASSUME ProcOK, MainIsPlain PROVE PlainMove
<1> DEFINE Stack == \/ stack' = stack
                    \/ CanRun("main") /\ Pumps("main")
                    \/ IsOnTop("main") /\ Returns
           GoesOn == \E pc \in ProcPc \ (InHand \cup {"count"}) : Goes("main", pc)
<1> USE DEF MainAt, InHand
<1>1. CASE AddGroup \/ GroupIsAdded \/ AddTimesOut \/ StartServiceDiscovery
  <2>1. proc.main.pc \notin InHand /\ UNCHANGED <<group, active>> /\ Stack
    BY <1>1 DEF AddGroup, GroupIsAdded, AddTimesOut, StartServiceDiscovery
  <2>2. GoesOn
    BY <1>1 DEF AddGroup, GroupIsAdded, AddTimesOut, StartServiceDiscovery, Throws, ProcPc
  <2> QED BY <2>1, <2>2, PlainlyGoes DEF Threads
<1>2. CASE StartDnsMasq \/ DnsMasqSettles \/ Poll \/ StopServiceDiscovery \/ KillDnsMasq
           \/ (active = <<>> /\ CloseGroups)
  <2>1. proc.main.pc \notin InHand /\ UNCHANGED <<group, active>> /\ Stack
    BY <1>2 DEF StartDnsMasq, DnsMasqSettles, Poll, StopServiceDiscovery, KillDnsMasq, CloseGroups
  <2>2. GoesOn
    BY <1>2
       DEF StartDnsMasq, DnsMasqSettles, Poll, StopServiceDiscovery, KillDnsMasq, CloseGroups, ProcPc
  <2> QED BY <2>1, <2>2, PlainlyGoes DEF Threads
<1>3. CASE StopDnsMasq \/ DnsMasqIsStopped \/ CloseChannel \/ ChannelIsClosed
  <2>1. proc.main.pc \notin InHand /\ UNCHANGED <<group, active>> /\ Stack
    BY <1>3
       DEF StopDnsMasq, DnsMasqIsStopped, CloseChannel, ChannelIsClosed, MayGoOn, MayReturn
  <2>2. GoesOn
    BY <1>3
       DEF StopDnsMasq, DnsMasqIsStopped, CloseChannel, ChannelIsClosed, StopReturns, ProcPc
  <2> QED BY <2>1, <2>2, PlainlyGoes DEF Threads
<1> QED BY <1>1, <1>2, <1>3 DEF MainIsPlain
\* The list of active groups, and who pumps messages, are on nobody's hands but theirs.
LEMMA ActiveGroups ==
  ASSUME GroupsInv
  PROVE  /\ \A x : Contains(active, x) <=> x \in Range(active)
         /\ \A x : Contains(stack, x) <=> x \in Range(stack)
         /\ \A x : Contains(active, x) => x \in Group
         /\ Emptied => /\ active # <<>> /\ Contains(active, Head(active)) /\ Dangling
                       /\ group[Head(active)].pc = "closing"
<1>1. /\ \A x : Contains(active, x) <=> x \in Range(active)
      /\ \A x : Contains(stack, x) <=> x \in Range(stack)
      /\ \A x : Contains(active, x) => x \in Group
  BY ContainsIsRange DEF GroupsInv, Contains
<1>2. ASSUME Emptied
      PROVE  /\ active # <<>> /\ Contains(active, Head(active)) /\ Dangling
             /\ group[Head(active)].pc = "closing"
  <2>1. active # <<>> /\ proc["main"].g = Head(active) /\ proc["main"].pc = "closing"
    BY <1>2 DEF GroupsInv, HeldByOne, Emptied
  <2>2. Contains(active, Head(active)) /\ Head(active) \in Group
    BY <2>1, ListEnds DEF GroupsInv
  <2>3. group[Head(active)].pc = "closing"
    BY <2>1 DEF GroupsInv, HoldersAreTrue, Threads
  <2> QED BY <2>1, <2>2, <2>3 DEF Dangling
<1> QED BY <1>1, <1>2

\* One more pumps messages, or the last one no longer does.
LEMMA StackGrows ==
  ASSUME GroupsInv, NEW who \in Threads \cup Group, CanRun(who), Pumps(who)
  PROVE  /\ stack' \in Seq(Threads \cup Group) /\ IsInjective(stack')
         /\ \A x : Contains(stack', x) <=> Contains(stack, x) \/ x = who
<1>1. stack \in Seq(Threads \cup Group) /\ IsInjective(stack) /\ who \notin Range(stack)
  BY ActiveGroups DEF GroupsInv, HeldByOne, CanRun
<1>2. /\ stack' \in Seq(Threads \cup Group) /\ IsInjective(stack')
      /\ Range(stack') = Range(stack) \cup {who}
  BY <1>1, ListWith DEF Pumps
<1> QED BY <1>1, <1>2, ContainsIsRange

LEMMA StackShrinks ==
  ASSUME GroupsInv, NEW who, IsOnTop(who), Returns
  PROVE  /\ stack' \in Seq(Threads \cup Group) /\ IsInjective(stack')
         /\ \A x : Contains(stack', x) <=> Contains(stack, x) /\ x # who
         /\ Contains(stack, who)
<1>1. stack \in Seq(Threads \cup Group) /\ IsInjective(stack) /\ stack # <<>> /\ Last(stack) = who
  BY DEF GroupsInv, HeldByOne, IsOnTop
<1>2. /\ stack' \in Seq(Threads \cup Group) /\ IsInjective(stack')
      /\ Range(stack') = Range(stack) \ {who} /\ who \in Range(stack)
  BY <1>1, ListFront DEF Returns
<1> QED BY <1>1, <1>2, ContainsIsRange

\* One coroutine's group changes, and who is on the lists does not.
LEMMA HandChanges ==
  ASSUME GroupsInv, NEW t \in Threads, NEW g \in Group, UNCHANGED <<active, stack>>,
         ProcOK', GroupOK', \A u \in Threads \ {t} : proc'[u] = proc[u],
         \A h \in Group \ {g} : group'[h] = group[h],
         proc[t].pc # "closing", proc'[t].pc \notin {"undo", "closing", "count"},
         \A u \in Threads : Holds(u, g) => u = t,
         proc[t].pc \in InHand => proc[t].g = g,
         ~Contains(active, g), ~Contains(stack, g),
         ~(proc.handler.pc = "count" /\ proc.handler.g = g),
         proc'[t].pc \in InHand => proc'[t].g = g /\ group'[g].pc = proc'[t].pc
  PROVE  GroupsInv'
<1> USE DEF GroupsInv
<1>1. \A u \in Threads, h \in Group : h # g => (Holds(u, h)' <=> Holds(u, h))
  BY DEF Holds, InHand
<1>2. \A u \in Threads : Holds(u, g)' => u = t
  BY DEF Holds
<1>3. Emptied' <=> Emptied
  BY DEF Emptied, Threads
<1>4. HoldersAreTrue'
  BY DEF HoldersAreTrue, InHand, Holds
<1>5. \A h \in Group : Contains(active, h) \/ Contains(stack, h) => h # g
  OBVIOUS
<1>6. HeldByOne'
  <2>1. Emptied => t # "main"
    BY DEF Emptied
  <2> QED BY <1>1, <1>2, <1>3, <1>5, <2>1 DEF HeldByOne, Threads
<1>7. OneIsErased'
  BY <1>3, <1>5 DEF OneIsErased, Erased
<1>8. CountedIsThere'
  BY DEF CountedIsThere, Threads
<1> QED BY <1>4, <1>6, <1>7, <1>8
\* A group that is being created is known to its coroutine only.
LEMMA OwnGroup ==
  ASSUME GroupsInv, NEW t \in Threads, proc[t].pc \in {"opening", "setup", "undo"}
  PROVE  /\ proc[t].g \in Group
         /\ group[proc[t].g].pc = IF proc[t].pc = "undo" THEN "closing" ELSE proc[t].pc
         /\ \A u \in Threads : Holds(u, proc[t].g) => u = t
         /\ ~Contains(active, proc[t].g) /\ ~Contains(stack, proc[t].g)
<1>1. /\ proc[t].g \in Group
      /\ group[proc[t].g].pc = IF proc[t].pc = "undo" THEN "closing" ELSE proc[t].pc
  BY DEF GroupsInv, HoldersAreTrue
<1>2. Holds(t, proc[t].g) /\ (t = "main" => ~Emptied)
  BY DEF Holds, Emptied
<1> QED BY <1>1, <1>2 DEF GroupsInv, HeldByOne, Threads

LEMMA CreatedPlainly ==
  ASSUME ProcOK, NEW t \in Threads, NEW s, IsCreated(t, s)
  PROVE  /\ ProcOK' /\ proc'[t].pc \in {"dnsmasq", "take"}
         /\ \A u \in Threads \ {t} : proc'[u] = proc[u]
<1>1. \E pc \in {"dnsmasq", "take"} : Goes(t, pc)
  BY DEF IsCreated
<1> QED BY <1>1 DEF Goes, At, ProcOK, ProcPc

LEMMA CreateBegins ==
  ASSUME GroupsInv, NEW t \in Threads, proc[t].pc \in {"take", "init"}, CreateP2pGroup(t),
         UNCHANGED <<active, stack>>
  PROVE  GroupsInv'
<1>1. CASE IsCreated(t, session) /\ UNCHANGED group
  <2>1. \E pc \in ProcPc \ (InHand \cup {"count"}) : Goes(t, pc)
    BY <1>1 DEF IsCreated, ProcPc, InHand
  <2> QED BY <1>1, <2>1, PlainlyGoes, PlainKeeps DEF GroupsInv, InHand
<1>2. ASSUME NEW g \in Group, group[g].pc = "none", group' = [group EXCEPT ![g].pc = "opening"],
             proc' = [proc EXCEPT ![t] = [At("opening") EXCEPT !.g = g]]
      PROVE  GroupsInv'
  <2>1. ProcOK' /\ GroupOK' /\ proc'[t].pc = "opening" /\ proc'[t].g = g
        /\ group'[g].pc = "opening"
        /\ (\A u \in Threads \ {t} : proc'[u] = proc[u])
        /\ (\A h \in Group \ {g} : group'[h] = group[h])
    BY <1>2 DEF GroupsInv, ProcOK, GroupOK, At, ProcPc
  <2>2. /\ \A u \in Threads : ~Holds(u, g)
        /\ ~Contains(active, g) /\ ~Contains(stack, g)
        /\ ~(proc.handler.pc = "count" /\ proc.handler.g = g)
    BY <1>2 DEF GroupsInv, HoldersAreTrue, HeldByOne, Holds, CountedIsThere
  <2> QED BY <2>1, <2>2, HandChanges DEF InHand
<1> QED BY <1>1, <1>2 DEF CreateP2pGroup

LEMMA GroupOpensStep == ASSUME GroupsInv, NEW t \in Threads, GroupOpens(t) PROVE GroupsInv'
<1> DEFINE g == proc[t].g
<1>1. /\ g \in Group /\ group[g].pc = "opening" /\ (\A u \in Threads : Holds(u, g) => u = t)
      /\ ~Contains(active, g) /\ ~Contains(stack, g)
  BY OwnGroup DEF GroupOpens
<1>2. /\ GroupOK' /\ group'[g].pc = "setup" /\ (\A h \in Group \ {g} : group'[h] = group[h])
  <2>1. group' = [group EXCEPT ![g].pc = "setup"] BY DEF GroupOpens
  <2>2. GroupOK BY DEF GroupsInv
  <2> HIDE DEF g
  <2> QED BY <1>1, <2>1, <2>2 DEF GroupOK
<1>5. /\ ProcOK' /\ proc'[t].pc = "setup" /\ proc'[t].g = g
      /\ (\A u \in Threads \ {t} : proc'[u] = proc[u])
  <2>1. proc' = [proc EXCEPT ![t].pc = "setup"] BY DEF GroupOpens
  <2>2. ProcOK /\ "setup" \in ProcPc BY DEF GroupsInv, ProcPc
  <2> QED BY <2>1, <2>2 DEF ProcOK
<1>3. ~(proc.handler.pc = "count" /\ proc.handler.g = g)
  BY <1>1 DEF GroupsInv, CountedIsThere
<1>4. proc[t].pc = "opening" /\ UNCHANGED <<active, stack>>
  BY DEF GroupOpens
<1> HIDE DEF g
<1> QED BY <1>1, <1>2, <1>3, <1>4, <1>5, HandChanges DEF InHand, g

LEMMA GroupFailsToOpenStep ==
  ASSUME GroupsInv, NEW t \in Threads, GroupFailsToOpen(t) PROVE GroupsInv'
<1> DEFINE g == proc[t].g
<1>1. /\ g \in Group /\ group[g].pc = "opening" /\ (\A u \in Threads : Holds(u, g) => u = t)
      /\ ~Contains(active, g) /\ ~Contains(stack, g)
  BY OwnGroup DEF GroupFailsToOpen
<1>2. /\ GroupOK' /\ (\A h \in Group \ {g} : group'[h] = group[h])
  BY <1>1 DEF GroupFailsToOpen, GroupsInv, GroupOK, Deleted
<1>3. ~(proc.handler.pc = "count" /\ proc.handler.g = g)
  BY <1>1 DEF GroupsInv, CountedIsThere
<1>4. proc[t].pc = "opening" /\ UNCHANGED <<active, stack>> /\ IsCreated(t, session)
  BY DEF GroupFailsToOpen
<1>5. /\ ProcOK' /\ proc'[t].pc \in {"dnsmasq", "take"}
      /\ \A u \in Threads \ {t} : proc'[u] = proc[u]
  BY <1>4, CreatedPlainly DEF GroupsInv
<1>6. proc[t].pc \in InHand => proc[t].g = g
  OBVIOUS
<1> HIDE DEF g
<1> QED BY <1>1, <1>2, <1>3, <1>4, <1>5, <1>6, HandChanges DEF InHand
LEMMA GroupIsSetUpStep ==
  ASSUME GroupsInv, NEW t \in Threads, GroupIsSetUp(t) PROVE GroupsInv'
<1> DEFINE g == proc[t].g
<1>1. /\ g \in Group /\ (\A u \in Threads : Holds(u, g) => u = t)
      /\ group[g].pc = "setup" /\ ~Contains(active, g) /\ ~Contains(stack, g)
  BY OwnGroup DEF GroupIsSetUp
<1>2. /\ proc[t].pc = "setup" /\ ~Dangling /\ active' = Append(active, g) /\ stack' = stack
      /\ \E s : IsCreated(t, s)
  BY DEF GroupIsSetUp
<1>3. /\ GroupOK' /\ group'[g].pc = "open" /\ \A h \in Group \ {g} : group'[h] = group[h]
  BY <1>1 DEF GroupIsSetUp, GroupsInv, GroupOK
<1>4. /\ ProcOK' /\ proc'[t].pc \in {"dnsmasq", "take"}
      /\ \A u \in Threads \ {t} : proc'[u] = proc[u]
  BY <1>2, CreatedPlainly DEF GroupsInv
<1>5. ~Emptied /\ ~Emptied'
  BY <1>2, <1>4, ActiveGroups DEF Emptied, Threads
<1>6. /\ active' \in Seq(Group) /\ IsInjective(active')
      /\ \A h : Contains(active', h) <=> Contains(active, h) \/ h = g
  <2>1. active \in Seq(Group) /\ IsInjective(active) /\ g \notin Range(active)
    BY <1>1, ActiveGroups DEF GroupsInv, HeldByOne
  <2>2. /\ active' \in Seq(Group) /\ IsInjective(active')
        /\ Range(active') = Range(active) \cup {g}
    BY <1>1, <1>2, <2>1, ListWith
  <2> QED BY <2>1, <2>2, ContainsIsRange
<1> HIDE DEF g
<1>7. \A u \in Threads, h \in Group : Holds(u, h)' => Holds(u, h) /\ h # g
  BY <1>1, <1>4 DEF Holds, InHand
<1>8. HoldersAreTrue'
  BY <1>1, <1>2, <1>3, <1>4 DEF GroupsInv, HoldersAreTrue, Holds
<1>9. HeldByOne'
  <2>1. \A h \in Group : h # g => group'[h] = group[h]
    BY <1>3
  <2>2. \A h \in Group : Contains(active, h) => group[h].pc # "closing"
    BY <1>2 DEF Dangling
  <2> QED BY <1>1, <1>2, <1>3, <1>5, <1>6, <1>7, <2>1, <2>2 DEF GroupsInv, HeldByOne, Threads
<1>10. OneIsErased'
  BY <1>2, <1>3, <1>6 DEF OneIsErased, Erased, Dangling
<1>11. CountedIsThere'
  BY <1>3, <1>4 DEF GroupsInv, CountedIsThere, Threads
<1> QED BY <1>2, <1>3, <1>4, <1>6, <1>8, <1>9, <1>10, <1>11 DEF GroupsInv

LEMMA GroupIsNotSetUpStep ==
  ASSUME GroupsInv, NEW t \in Threads, GroupIsNotSetUp(t) PROVE GroupsInv'
<1> DEFINE g == proc[t].g
<1>1. /\ g \in Group /\ (\A u \in Threads : Holds(u, g) => u = t)
      /\ group[g].pc \in {"opening", "setup"} /\ ~Contains(active, g) /\ ~Contains(stack, g)
  BY OwnGroup DEF GroupIsNotSetUp
<1>2. /\ proc[t].pc \in {"opening", "setup"} /\ active' = active /\ CanRun(t) /\ Pumps(t)
      /\ proc' = [proc EXCEPT ![t].pc = "undo"]
  BY DEF GroupIsNotSetUp
<1>3. /\ GroupOK' /\ group'[g].pc = "closing" /\ \A h \in Group \ {g} : group'[h] = group[h]
  <2>1. PICK b \in BOOLEAN : group' = [group EXCEPT ![g] = [pc |-> "closing", busy |-> b]]
    BY DEF GroupIsNotSetUp, IsClosing
  <2>2. GroupOK BY DEF GroupsInv
  <2> HIDE DEF g
  <2> QED BY <1>1, <2>1, <2>2 DEF GroupOK
<1>4. /\ ProcOK' /\ proc'[t].pc = "undo" /\ proc'[t].g = g
      /\ \A u \in Threads \ {t} : proc'[u] = proc[u]
  <2>1. ProcOK /\ "undo" \in ProcPc BY DEF GroupsInv, ProcPc
  <2> QED BY <1>2, <2>1 DEF ProcOK
<1>5. Emptied' <=> Emptied
  BY <1>2, <1>4 DEF Emptied, Threads
<1>6. /\ stack' \in Seq(Threads \cup Group) /\ IsInjective(stack')
      /\ \A x : Contains(stack', x) <=> Contains(stack, x) \/ x = t
  BY <1>2, StackGrows
<1> HIDE DEF g
<1>7. \A u \in Threads, h \in Group : Holds(u, h)' <=> Holds(u, h)
  BY <1>2, <1>4 DEF Holds, g
<1>8. HoldersAreTrue'
  <2>1. SUFFICES ASSUME NEW u \in Threads
                 PROVE  /\ proc'[u].pc \in {"opening", "setup"} =>
                             proc'[u].g \in Group /\ group'[proc'[u].g].pc = proc'[u].pc
                        /\ proc'[u].pc \in {"undo", "closing"} =>
                             /\ proc'[u].g \in Group /\ group'[proc'[u].g].pc = "closing"
                             /\ Contains(stack', u)
    BY DEF HoldersAreTrue
  <2>2. CASE u = t BY <1>1, <1>3, <1>4, <1>6, <2>2
  <2>3. CASE u # t
    <3>1. proc'[u] = proc[u] BY <1>4, <2>3
    <3>2. proc[u].pc \in {"opening", "setup", "undo", "closing"} => proc[u].g # g
      BY <1>1, <2>3 DEF Holds
    <3> QED BY <1>3, <1>6, <3>1, <3>2 DEF GroupsInv, HoldersAreTrue
  <2> QED BY <2>2, <2>3
<1>9. HeldByOne'
  <2>1. \A h \in Group : Contains(active, h) \/ Contains(stack', h) => group'[h] = group[h]
    BY <1>1, <1>3, <1>6, SessionAssumption
  <2>2. \A h \in Group : Contains(stack', h) <=> Contains(stack, h)
    BY <1>6, SessionAssumption
  <2>3. Emptied => proc'["main"] = proc["main"]
    BY <1>2, <1>4 DEF Emptied, Threads
  <2>4. IsInjective(active') /\ (Emptied' => active' # <<>> /\ proc'["main"].g = Head(active'))
    BY <1>2, <1>5, <2>3 DEF GroupsInv, HeldByOne
  <2>5. \A h \in Group :
          /\ ~(Holds("main", h)' /\ Holds("handler", h)')
          /\ Contains(stack', h) =>
               group'[h].pc = "closing" /\ ~Holds("main", h)' /\ ~Holds("handler", h)'
    BY <1>7, <2>1, <2>2 DEF GroupsInv, HeldByOne, Threads
  <2>6. \A h \in Group : Contains(active', h) =>
          /\ group'[h].pc \in {"open", "closing"}
          /\ group'[h].pc = "closing" => IF Emptied' THEN h = Head(active') ELSE Contains(stack', h)
          /\ ~Holds("handler", h)'
          /\ Holds("main", h)' => Emptied'
    BY <1>2, <1>5, <1>7, <2>1, <2>2 DEF GroupsInv, HeldByOne, Threads
  <2> QED BY <1>6, <2>4, <2>5, <2>6 DEF HeldByOne
<1>10. OneIsErased'
  BY <1>1, <1>2, <1>3, <1>5 DEF GroupsInv, OneIsErased, Erased
<1>11. CountedIsThere'
  BY <1>1, <1>3, <1>4 DEF GroupsInv, CountedIsThere, Threads
<1> QED BY <1>2, <1>3, <1>4, <1>6, <1>8, <1>9, <1>10, <1>11 DEF GroupsInv

LEMMA GroupIsUndoneStep ==
  ASSUME GroupsInv, NEW t \in Threads, GroupIsUndone(t) PROVE GroupsInv'
<1> DEFINE g == proc[t].g
<1>1. /\ g \in Group /\ (\A u \in Threads : Holds(u, g) => u = t)
      /\ ~Contains(active, g) /\ ~Contains(stack, g)
  BY OwnGroup DEF GroupIsUndone
<1>2. /\ proc[t].pc = "undo" /\ active' = active /\ IsOnTop(t) /\ Returns
      /\ IsCreated(t, session) /\ Joined(g)
  BY DEF GroupIsUndone
<1>3. /\ GroupOK' /\ group'[g].pc = "none" /\ \A h \in Group \ {g} : group'[h] = group[h]
  BY <1>1 DEF GroupIsUndone, Deleted, GroupsInv, GroupOK
<1>4. /\ ProcOK' /\ proc'[t].pc \in {"dnsmasq", "take"}
      /\ \A u \in Threads \ {t} : proc'[u] = proc[u]
  BY <1>2, CreatedPlainly DEF GroupsInv
<1>5. (Emptied' <=> Emptied) /\ (Emptied => t # "main")
  BY <1>2, <1>4 DEF Emptied, Threads
<1>6. /\ stack' \in Seq(Threads \cup Group) /\ IsInjective(stack')
      /\ \A x : Contains(stack', x) <=> Contains(stack, x) /\ x # t
  BY <1>2, StackShrinks
<1>7. ~(proc.handler.pc = "count" /\ proc.handler.g = g)
  BY <1>2 DEF Joined
<1> HIDE DEF g
<1>8. \A u \in Threads, h \in Group : Holds(u, h)' => Holds(u, h) /\ u # t
  BY <1>4 DEF Holds
<1>9. HoldersAreTrue'
  BY <1>1, <1>3, <1>4, <1>6 DEF GroupsInv, HoldersAreTrue, Holds
<1>10. HeldByOne'
  <2>1. \A h \in Group : Contains(active, h) \/ Contains(stack', h) => group'[h] = group[h]
    BY <1>1, <1>3, <1>6
  <2>2. \A h \in Group : Contains(stack', h) <=> Contains(stack, h)
    BY <1>6, SessionAssumption
  <2>3. Emptied => proc'["main"] = proc["main"]
    BY <1>4, <1>5 DEF Threads
  <2>4. IsInjective(active') /\ (Emptied' => active' # <<>> /\ proc'["main"].g = Head(active'))
    BY <1>2, <1>5, <2>3 DEF GroupsInv, HeldByOne
  <2>5. \A h \in Group :
          /\ ~(Holds("main", h)' /\ Holds("handler", h)')
          /\ Contains(stack', h) =>
               group'[h].pc = "closing" /\ ~Holds("main", h)' /\ ~Holds("handler", h)'
    BY <1>8, <2>1, <2>2 DEF GroupsInv, HeldByOne, Threads
  <2>6. \A h \in Group : Contains(active', h) =>
          /\ group'[h].pc \in {"open", "closing"}
          /\ group'[h].pc = "closing" => IF Emptied' THEN h = Head(active') ELSE Contains(stack', h)
          /\ ~Holds("handler", h)'
          /\ Holds("main", h)' => Emptied'
    BY <1>2, <1>5, <1>8, <2>1, <2>2 DEF GroupsInv, HeldByOne, Threads
  <2> QED BY <1>6, <2>4, <2>5, <2>6 DEF HeldByOne
<1>11. OneIsErased'
  BY <1>1, <1>2, <1>3, <1>5 DEF GroupsInv, OneIsErased, Erased
<1>12. CountedIsThere'
  BY <1>3, <1>4, <1>7 DEF GroupsInv, CountedIsThere, Threads
<1> QED BY <1>2, <1>3, <1>4, <1>6, <1>9, <1>10, <1>11, <1>12 DEF GroupsInv
LEMMA OnGroupStartedStep == ASSUME GroupsInv, OnGroupStarted PROVE GroupsInv'
<1>1. proc["handler"].pc = "take" /\ CreateP2pGroup("handler") /\ UNCHANGED <<active, stack>>
  BY DEF OnGroupStarted, Takes, HandlerAt
<1> QED BY <1>1, CreateBegins DEF Threads

LEMMA OpensStep == ASSUME GroupsInv, HandlerAsks, Open \/ InitSession PROVE GroupsInv'
<1>1. CASE InitSession
  <2>1. proc["main"].pc = "init" /\ UNCHANGED <<active, stack>>
    BY <1>1 DEF InitSession, MainAt
  <2>2. CASE CreateP2pGroup("main")
    BY <2>1, <2>2, CreateBegins DEF Threads
  <2>3. CASE ~CreateP2pGroup("main")
    <3>1. /\ group' = group
          /\ \E pc \in ProcPc \ (InHand \cup {"count"}) : Goes("main", pc)
      BY <1>1, <2>3 DEF InitSession, Throws, ProcPc, InHand
    <3> QED BY <2>1, <3>1, PlainlyGoes, PlainKeeps DEF GroupsInv, InHand, Threads
  <2> QED BY <2>2, <2>3
<1>2. CASE Open
  <2>1. proc["main"].pc = "start" /\ proc["handler"].pc = "none" /\ UNCHANGED <<group, active, stack>>
    BY <1>2 DEF Open, MainAt, HandlerAsks
  <2>2. CASE Goes("main", "groups")
    BY <2>1, <2>2, PlainlyGoes, PlainKeeps DEF GroupsInv, InHand, Threads, ProcPc
  <2>3. CASE proc' = [main |-> At("init"), handler |-> At("take")]
    <3>1. ProcOK'
      BY <2>3 DEF ProcOK, At, ProcPc, Threads
    <3>2. PlainMove
      BY <2>1, <2>3, <3>1 DEF PlainMove, InHand, Threads, At
    <3> QED BY <3>2, PlainKeeps
  <2> QED BY <1>2, <2>2, <2>3 DEF Open, Throws
<1> QED BY <1>1, <1>2

LEMMA GroupIsAnsweredStep ==
  ASSUME GroupsInv, NEW g \in Group, GroupIsAnswered(g) PROVE GroupsInv'
<1>1. /\ GroupOK' /\ (\A h \in Group : group'[h].pc = group[h].pc)
      /\ UNCHANGED <<proc, active, stack>>
  BY DEF GroupIsAnswered, GroupsInv, GroupOK
<1>2. ProcOK' /\ active' \in Seq(Group) /\ stack' \in Seq(Threads \cup Group)
  BY <1>1 DEF GroupsInv, ProcOK
<1>3. HoldersAreTrue' /\ CountedIsThere'
  BY <1>1 DEF GroupsInv, HoldersAreTrue, CountedIsThere
<1>4. HeldByOne'
  BY <1>1 DEF GroupsInv, HeldByOne, Holds, Emptied
<1>5. OneIsErased'
  BY <1>1 DEF GroupsInv, OneIsErased, Erased, Emptied
<1> QED BY <1>1, <1>2, <1>3, <1>4, <1>5 DEF GroupsInv

\* The group whose stations are counted is there, also while erase() deletes another.
LEMMA FirstIsThere ==
  ASSUME GroupsInv, active # <<>>, ~Emptied
  PROVE  First \in Group /\ group[First].pc \in {"open", "closing"}
<1>1. \A g : Contains(active, g) => g \in Group /\ group[g].pc \in {"open", "closing"}
  BY ActiveGroups DEF GroupsInv, HeldByOne
<1>2. Contains(active, Head(active)) /\ (Head(active) # Last(active) => Contains(active, active[2]))
  BY ListEnds DEF GroupsInv
<1>3. group[Head(active)].pc = "closing" => Head(active) # Last(active)
  BY <1>1, <1>2 DEF GroupsInv, OneIsErased, Erased
<1> QED BY <1>1, <1>2, <1>3 DEF First

LEMMA OnStationStep == ASSUME GroupsInv, active # <<>>, OnStation PROVE GroupsInv'
<1>1. PICK e \in {"connected", "disconnected"} :
        /\ Takes(e) /\ ~Emptied
        /\ proc' = [proc EXCEPT !.handler = [pc |-> "count", g |-> First, event |-> e]]
  BY DEF OnStation
<1>2. proc["handler"].pc = "take" /\ UNCHANGED <<group, active, stack>>
  BY <1>1 DEF OnStation, Takes, HandlerAt
<1>3. First \in Group /\ group[First].pc \in {"open", "closing"}
  BY <1>1, FirstIsThere
<1>4. /\ ProcOK' /\ proc'["main"] = proc["main"]
      /\ proc'["handler"].pc = "count" /\ proc'["handler"].g = First
  BY <1>1, <1>3 DEF GroupsInv, ProcOK, ProcPc, EventKinds, Threads
<1>5. \A u \in Threads, h \in Group : Holds(u, h)' <=> Holds(u, h)
  BY <1>2, <1>4 DEF Holds, Threads
<1>6. Emptied' <=> Emptied
  BY <1>4 DEF Emptied
<1>7. HoldersAreTrue'
  BY <1>2, <1>4 DEF GroupsInv, HoldersAreTrue, Threads
<1>8. HeldByOne'
  BY <1>2, <1>4, <1>5, <1>6 DEF GroupsInv, HeldByOne, Threads
<1>9. OneIsErased' /\ CountedIsThere'
  BY <1>2, <1>3, <1>4, <1>6 DEF GroupsInv, OneIsErased, Erased, CountedIsThere
<1> QED BY <1>2, <1>4, <1>7, <1>8, <1>9 DEF GroupsInv, GroupOK
\* Nobody has an active group in hand before it begins to close.
LEMMA OpenGroup ==
  ASSUME GroupsInv, ~Dangling, NEW g, Contains(active, g)
  PROVE  /\ g \in Group /\ group[g].pc = "open" /\ ~Contains(stack, g) /\ ~Emptied
         /\ \A u \in Threads : ~Holds(u, g)
<1>1. g \in Group /\ ~Emptied
  BY ActiveGroups
<1>2. group[g].pc = "open"
  BY <1>1 DEF GroupsInv, HeldByOne, Dangling
<1> QED BY <1>1, <1>2 DEF GroupsInv, HeldByOne, Threads

LEMMA OnGroupRemovedStep == ASSUME GroupsInv, active # <<>>, OnGroupRemoved PROVE GroupsInv'
<1> DEFINE g == Head(active)
<1>1. /\ proc["handler"].pc = "take" /\ CanRun("handler") /\ ~Dangling /\ Pumps("handler")
      /\ active' = Tail(active) /\ IsClosing(group, g)
      /\ proc' = [proc EXCEPT !.handler = [At("closing") EXCEPT !.g = g]]
  BY DEF OnGroupRemoved, Takes, HandlerAt
<1>2. Contains(active, g)
  BY ListEnds DEF GroupsInv
<1>3. /\ g \in Group /\ group[g].pc = "open" /\ ~Contains(stack, g) /\ ~Emptied
      /\ \A u \in Threads : ~Holds(u, g)
  BY <1>1, <1>2, OpenGroup
<1>4. /\ active' \in Seq(Group) /\ IsInjective(active')
      /\ \A x : Contains(active', x) <=> Contains(active, x) /\ x # g
  <2>1. /\ active' \in Seq(Group) /\ IsInjective(active') /\ Range(active') = Range(active) \ {g}
    BY <1>1, ListTail DEF GroupsInv, HeldByOne
  <2> QED BY <2>1, ContainsIsRange DEF GroupsInv
<1>5. /\ GroupOK' /\ group'[g].pc = "closing" /\ \A h \in Group \ {g} : group'[h] = group[h]
  BY <1>1, <1>3 DEF IsClosing, GroupsInv, GroupOK
<1> HIDE DEF g
<1>6. /\ ProcOK' /\ proc'["main"] = proc["main"]
      /\ proc'["handler"].pc = "closing" /\ proc'["handler"].g = g
  BY <1>1, <1>3 DEF At, GroupsInv, ProcOK, ProcPc, Threads
<1>7. /\ stack' \in Seq(Threads \cup Group) /\ IsInjective(stack')
      /\ \A x : Contains(stack', x) <=> Contains(stack, x) \/ x = "handler"
  BY <1>1, StackGrows DEF Threads
<1>8. \A h \in Group : /\ Holds("main", h)' <=> Holds("main", h)
                       /\ Holds("handler", h)' <=> h = g
                       /\ Contains(stack', h) <=> Contains(stack, h)
  BY <1>6, <1>7, SessionAssumption DEF Holds, Threads
<1>9. ~Emptied'
  BY <1>3, <1>6 DEF Emptied
<1>10. HoldersAreTrue'
  <2>1. proc["main"].pc \in InHand /\ proc["main"].g \in Group => Holds("main", proc["main"].g)
    BY DEF Holds, InHand
  <2>2. CASE proc["main"].pc \in InHand
    BY <1>3, <1>5, <1>6, <1>7, <2>1, <2>2 DEF GroupsInv, HoldersAreTrue, Threads, InHand
  <2>3. CASE proc["main"].pc \notin InHand
    BY <1>3, <1>5, <1>6, <1>7, <2>3 DEF HoldersAreTrue, Threads, InHand
  <2> QED BY <2>2, <2>3
<1>11. \A h \in Group : Contains(active', h) => /\ group'[h] = group[h] /\ group[h].pc = "open"
                                                /\ ~Holds("handler", h)' /\ ~Holds("main", h)'
  BY <1>1, <1>4, <1>5, <1>8, OpenGroup DEF Threads
<1>12. HeldByOne'
  <2>1. \A h \in Group : /\ ~(Holds("main", h)' /\ Holds("handler", h)')
                         /\ Contains(stack', h) =>
                              group'[h].pc = "closing" /\ ~Holds("main", h)' /\ ~Holds("handler", h)'
    BY <1>3, <1>5, <1>8 DEF GroupsInv, HeldByOne, Threads
  <2> QED BY <1>4, <1>7, <1>9, <1>11, <2>1 DEF HeldByOne
<1>13. OneIsErased' /\ CountedIsThere'
  BY <1>6, <1>11 DEF OneIsErased, Erased, CountedIsThere
<1> QED BY <1>4, <1>5, <1>6, <1>7, <1>10, <1>12, <1>13 DEF GroupsInv

LEMMA GroupIsRemovedStep == ASSUME GroupsInv, GroupIsRemoved PROVE GroupsInv'
<1> DEFINE g == proc["handler"].g
<1>1. /\ proc["handler"].pc = "closing" /\ IsOnTop("handler") /\ Returns
      /\ Goes("handler", "take") /\ group' = Deleted(g) /\ active' = active
  BY DEF GroupIsRemoved
<1>2. g \in Group /\ group[g].pc = "closing" /\ Holds("handler", g)
  BY <1>1 DEF GroupsInv, HoldersAreTrue, Threads, Holds
<1>3. ~Contains(active, g) /\ ~Contains(stack, g) /\ ~Holds("main", g)
  BY <1>2 DEF GroupsInv, HeldByOne
<1>4. /\ GroupOK' /\ \A h \in Group \ {g} : group'[h] = group[h]
  BY <1>1, <1>2 DEF Deleted, GroupsInv, GroupOK
<1>5. /\ ProcOK' /\ proc'["main"] = proc["main"] /\ proc'["handler"].pc = "take"
  BY <1>1 DEF Goes, At, GroupsInv, ProcOK, ProcPc, Threads
<1> HIDE DEF g
<1>6. /\ stack' \in Seq(Threads \cup Group) /\ IsInjective(stack')
      /\ \A x : Contains(stack', x) <=> Contains(stack, x) /\ x # "handler"
  BY <1>1, StackShrinks
<1>7. \A h \in Group : /\ Holds("main", h)' <=> Holds("main", h)
                       /\ ~Holds("handler", h)'
                       /\ Contains(stack', h) <=> Contains(stack, h)
                       /\ Contains(active', h) <=> Contains(active, h)
                       /\ Contains(active, h) \/ Contains(stack, h) \/ Holds("main", h)
                            => group'[h] = group[h]
  BY <1>1, <1>3, <1>4, <1>5, <1>6, SessionAssumption DEF Holds, Threads
<1>8. Emptied' <=> Emptied
  BY <1>5 DEF Emptied
<1>9. HoldersAreTrue'
  <2>1. proc["main"].pc \in InHand => proc["main"].g \in Group /\ Holds("main", proc["main"].g)
    BY DEF Holds, InHand, GroupsInv, HoldersAreTrue, Threads
  <2> QED BY <1>5, <1>6, <1>7, <2>1 DEF GroupsInv, HoldersAreTrue, Threads, InHand
<1>10. HeldByOne'
  <2>1. \A h \in Group : Contains(stack', h) =>
          group'[h].pc = "closing" /\ ~Holds("main", h)' /\ ~Holds("handler", h)'
    BY <1>7 DEF GroupsInv, HeldByOne
  <2>2. \A h \in Group : Contains(active', h) =>
          /\ group'[h].pc \in {"open", "closing"}
          /\ group'[h].pc = "closing" => IF Emptied' THEN h = Head(active') ELSE Contains(stack', h)
          /\ Holds("main", h)' => Emptied'
    BY <1>1, <1>7, <1>8 DEF GroupsInv, HeldByOne
  <2> QED BY <1>1, <1>5, <1>6, <1>7, <1>8, <2>1, <2>2 DEF GroupsInv, HeldByOne
<1>11. OneIsErased' /\ CountedIsThere'
  BY <1>1, <1>5, <1>7, <1>8 DEF GroupsInv, OneIsErased, Erased, CountedIsThere
<1> QED BY <1>1, <1>4, <1>5, <1>6, <1>9, <1>10, <1>11 DEF GroupsInv
LEMMA CloseGroupStep ==
  ASSUME GroupsInv, NEW g \in Group, CloseGroup(g) PROVE GroupsInv'
<1>1. CASE ~Contains(active, g)
  BY <1>1, PlainStays, PlainKeeps DEF CloseGroup, GroupsInv
<1>2. CASE Contains(active, g)
  <2>1. /\ CanRun(g) /\ ~Dangling /\ IsClosing(group, g) /\ Pumps(g) /\ proc' = proc
        /\ active' = IF Last(active) = g THEN Front(active) ELSE active
    BY <1>2 DEF CloseGroup
  <2>2. /\ group[g].pc = "open" /\ ~Contains(stack, g) /\ ~Emptied
        /\ \A u \in Threads : ~Holds(u, g)
    BY <1>2, <2>1, OpenGroup
  <2>3. /\ GroupOK' /\ group'[g].pc = "closing" /\ \A h \in Group \ {g} : group'[h] = group[h]
    BY <2>1 DEF IsClosing, GroupsInv, GroupOK
  <2>4. /\ stack' \in Seq(Threads \cup Group) /\ IsInjective(stack')
        /\ \A x : Contains(stack', x) <=> Contains(stack, x) \/ x = g
    BY <2>1, StackGrows
  <2>5. /\ active' \in Seq(Group) /\ IsInjective(active')
        /\ \A x : Contains(active', x) => Contains(active, x)
        /\ Contains(active', g) => g # Last(active') /\ active' = active
    <3>1. CASE Last(active) = g
      <4>1. active # <<>>
        BY <1>2 DEF GroupsInv, Contains
      <4>2. /\ active' \in Seq(Group) /\ IsInjective(active')
            /\ Range(active') = Range(active) \ {g}
        BY <2>1, <3>1, <4>1, ListFront DEF GroupsInv, HeldByOne
      <4> QED BY <4>2, ContainsIsRange DEF GroupsInv
    <3>2. CASE Last(active) # g
      BY <2>1, <3>2 DEF GroupsInv, HeldByOne
    <3> QED BY <3>1, <3>2
  <2>6. /\ ProcOK' /\ (Emptied' <=> Emptied)
        /\ \A u \in Threads, h \in Group : Holds(u, h)' <=> Holds(u, h)
    BY <2>1 DEF GroupsInv, ProcOK, Emptied, Holds
  <2>7. HoldersAreTrue'
    <3>1. \A u \in Threads : proc[u].pc \in InHand => proc[u].g \in Group /\ Holds(u, proc[u].g)
      BY DEF Holds, InHand, GroupsInv, HoldersAreTrue
    <3> QED BY <2>1, <2>2, <2>3, <2>4, <3>1 DEF GroupsInv, HoldersAreTrue, InHand
  <2>8. \A h \in Group : Contains(active', h) => /\ group'[h].pc \in {"open", "closing"}
                                                 /\ group'[h].pc = "closing" => h = g
                                                 /\ ~Holds("main", h)' /\ ~Holds("handler", h)'
    <3>1. \A h \in Group : Contains(active, h) =>
            group[h].pc = "open" /\ ~Holds("main", h) /\ ~Holds("handler", h)
      BY <2>1, OpenGroup DEF Threads
    <3> QED BY <2>3, <2>5, <2>6, <3>1 DEF Threads
  <2>9. HeldByOne'
    <3>1. \A h \in Group : /\ ~(Holds("main", h)' /\ Holds("handler", h)')
                           /\ Contains(stack', h) =>
                                group'[h].pc = "closing" /\ ~Holds("main", h)' /\ ~Holds("handler", h)'
      BY <2>2, <2>3, <2>4, <2>6 DEF GroupsInv, HeldByOne, Threads
    <3> QED BY <2>2, <2>4, <2>5, <2>6, <2>8, <3>1 DEF HeldByOne
  <2>10. OneIsErased'
    BY <2>2, <2>5, <2>8 DEF OneIsErased, Erased
  <2>11. CountedIsThere'
    BY <2>1, <2>3 DEF GroupsInv, CountedIsThere
  <2> QED BY <2>3, <2>4, <2>5, <2>6, <2>7, <2>9, <2>10, <2>11 DEF GroupsInv
<1> QED BY <1>1, <1>2

LEMMA GroupIsClosedStep ==
  ASSUME GroupsInv, NEW g \in Group, GroupIsClosed(g) PROVE GroupsInv'
<1>1. /\ IsOnTop(g) /\ Joined(g) /\ group' = Deleted(g) /\ active' = RemoveFirst(active, g)
      /\ Returns /\ proc' = proc
  BY DEF GroupIsClosed
<1>2. /\ stack' \in Seq(Threads \cup Group) /\ IsInjective(stack')
      /\ \A x : Contains(stack', x) <=> Contains(stack, x) /\ x # g
      /\ Contains(stack, g)
  BY <1>1, StackShrinks
<1>3. group[g].pc = "closing" /\ \A u \in Threads : ~Holds(u, g)
  BY <1>2 DEF GroupsInv, HeldByOne, Threads
<1>4. /\ GroupOK' /\ \A h \in Group \ {g} : group'[h] = group[h]
  BY <1>1 DEF Deleted, GroupsInv, GroupOK
<1>5. Emptied => ~Contains(active, g)
  <2>1. Emptied => Holds("main", Head(active))
    BY DEF GroupsInv, HeldByOne, Holds, Emptied
  <2>2. Emptied /\ Contains(active, g) => g = Head(active)
    BY <1>3 DEF GroupsInv, HeldByOne
  <2> QED BY <1>3, <2>1, <2>2 DEF Threads
<1>6. /\ active' \in Seq(Group) /\ IsInjective(active')
      /\ \A x : Contains(active', x) <=> Contains(active, x) /\ x # g
      /\ ~Contains(active, g) => active' = active
  <2>1. CASE Contains(active, g)
    <3>1. /\ active' \in Seq(Group) /\ IsInjective(active')
          /\ Range(active') = Range(active) \ {g}
      BY <1>1, <2>1, ListWithout, ContainsIsRange DEF GroupsInv, HeldByOne
    <3> QED BY <2>1, <3>1, ContainsIsRange DEF GroupsInv
  <2>2. CASE ~Contains(active, g)
    BY <1>1, <2>2, RemoveFirstOfNone DEF GroupsInv, HeldByOne
  <2> QED BY <2>1, <2>2
<1>7. /\ ProcOK' /\ (Emptied' <=> Emptied)
      /\ \A u \in Threads, h \in Group : Holds(u, h)' <=> Holds(u, h)
  BY <1>1 DEF GroupsInv, ProcOK, Emptied, Holds
<1>8. HoldersAreTrue'
  <2>1. \A u \in Threads : proc[u].pc \in InHand => proc[u].g \in Group /\ Holds(u, proc[u].g)
    BY DEF Holds, InHand, GroupsInv, HoldersAreTrue
  <2> QED BY <1>1, <1>2, <1>3, <1>4, <2>1, SessionAssumption
         DEF GroupsInv, HoldersAreTrue, InHand
<1>9. HeldByOne'
  <2>1. \A h \in Group :
          /\ ~(Holds("main", h)' /\ Holds("handler", h)')
          /\ Contains(stack', h) =>
               group'[h].pc = "closing" /\ ~Holds("main", h)' /\ ~Holds("handler", h)'
    BY <1>2, <1>4, <1>7 DEF GroupsInv, HeldByOne, Threads
  <2>2. Emptied => active' = active
    BY <1>5, <1>6
  <2>3. \A h \in Group : Contains(active', h) =>
          /\ group'[h].pc \in {"open", "closing"}
          /\ group'[h].pc = "closing" => IF Emptied' THEN h = Head(active') ELSE Contains(stack', h)
          /\ ~Holds("handler", h)'
          /\ Holds("main", h)' => Emptied'
    BY <1>2, <1>4, <1>6, <1>7, <2>2 DEF GroupsInv, HeldByOne, Threads
  <2>4. Emptied' => active' # <<>> /\ proc'["main"].g = Head(active')
    BY <1>1, <1>7, <2>2 DEF GroupsInv, HeldByOne
  <2> QED BY <1>2, <1>6, <2>1, <2>3, <2>4 DEF HeldByOne
<1>10. OneIsErased'
  <2>1. CASE Contains(active, g)
    <3>1. ~Emptied /\ Erased(g)
      BY <1>3, <1>5, <2>1 DEF Erased
    <3> QED BY <1>4, <1>6, <3>1 DEF GroupsInv, OneIsErased, Erased
  <2>2. CASE ~Contains(active, g)
    BY <1>4, <1>6, <1>7, <2>2 DEF GroupsInv, OneIsErased, Erased
  <2> QED BY <2>1, <2>2
<1>11. CountedIsThere'
  BY <1>1, <1>4 DEF GroupsInv, CountedIsThere, Joined
<1> QED BY <1>2, <1>4, <1>6, <1>7, <1>8, <1>9, <1>10, <1>11 DEF GroupsInv
\* What CoMain() holds while it empties activeGroups.
LEMMA EmptiesOneByOne ==
  ASSUME GroupsInv, ProcOK', GroupOK', active' \in Seq(Group), IsInjective(active'),
         stack' \in Seq(Threads \cup Group), IsInjective(stack'),
         proc'["handler"] = proc["handler"], proc["main"].pc \notin {"opening", "setup", "undo"},
         proc'["main"].pc = "closing", active' # <<>>, proc'["main"].g = Head(active'),
         group'[Head(active')].pc = "closing", Contains(stack', "main"),
         \A x : x # "main" => (Contains(stack', x) <=> Contains(stack, x)),
         \A h \in Group : Contains(active', h) =>
           /\ Contains(active, h) /\ (h # Head(active') => group'[h].pc = "open")
           /\ ~Holds("handler", h) /\ ~Contains(stack, h),
         \A h \in Group : Contains(stack, h) \/ Holds("handler", h) => group'[h] = group[h],
         proc["handler"].pc = "count" => group'[proc["handler"].g].pc \in {"open", "closing"}
  PROVE  GroupsInv'
<1>1. Contains(active', Head(active')) /\ Head(active') \in Group
  BY ListEnds
<1>2. \A h \in Group : /\ Holds("handler", h)' <=> Holds("handler", h)
                       /\ Holds("main", h)' <=> h = Head(active')
                       /\ Contains(stack', h) <=> Contains(stack, h)
  BY SessionAssumption DEF Holds, Threads
<1>3. Emptied'
  BY DEF Emptied
<1>4. HoldersAreTrue'
  <2>1. proc["handler"].pc \in InHand =>
          proc["handler"].g \in Group /\ Holds("handler", proc["handler"].g)
    BY DEF Holds, InHand, GroupsInv, HoldersAreTrue, Threads
  <2>2. Contains(stack', "handler") <=> Contains(stack, "handler")
    OBVIOUS
  <2> QED BY <1>1, <2>1, <2>2 DEF GroupsInv, HoldersAreTrue, Threads, InHand
<1>5. HeldByOne'
  <2>1. \A h \in Group :
          /\ ~(Holds("main", h)' /\ Holds("handler", h)')
          /\ Contains(stack', h) =>
               group'[h].pc = "closing" /\ ~Holds("main", h)' /\ ~Holds("handler", h)'
    BY <1>1, <1>2 DEF GroupsInv, HeldByOne
  <2>2. \A h \in Group : Contains(active', h) =>
          /\ group'[h].pc \in {"open", "closing"}
          /\ group'[h].pc = "closing" => h = Head(active')
          /\ ~Holds("handler", h)'
    BY <1>1, <1>2
  <2> QED BY <1>3, <2>1, <2>2 DEF HeldByOne
<1>6. OneIsErased'
  BY <1>3 DEF OneIsErased
<1>7. CountedIsThere'
  BY DEF GroupsInv, CountedIsThere
<1> QED BY <1>4, <1>5, <1>6, <1>7 DEF GroupsInv
LEMMA CloseGroupsStep == ASSUME GroupsInv, active # <<>>, CloseGroups PROVE GroupsInv'
<1> DEFINE g == Head(active)
<1>1. /\ proc["main"].pc = "groups" /\ CanRun("main") /\ ~Dangling /\ IsClosing(group, g)
      /\ Deletes(g) /\ Pumps("main") /\ active' = active
  BY DEF CloseGroups, MainAt
<1>2. \A h \in Group : Contains(active, h) =>
        group[h].pc = "open" /\ ~Contains(stack, h) /\ ~Holds("handler", h)
  BY <1>1, OpenGroup DEF Threads
<1>3. Contains(active, g) /\ g \in Group
  BY ListEnds DEF GroupsInv
<1>4. /\ GroupOK' /\ group'[g].pc = "closing" /\ \A h \in Group \ {g} : group'[h] = group[h]
  BY <1>1, <1>3 DEF IsClosing, GroupsInv, GroupOK
<1>5. /\ ProcOK' /\ proc'["handler"] = proc["handler"]
      /\ proc'["main"].pc = "closing" /\ proc'["main"].g = g
  BY <1>1, <1>3 DEF Deletes, At, GroupsInv, ProcOK, ProcPc, Threads
<1>6. /\ stack' \in Seq(Threads \cup Group) /\ IsInjective(stack')
      /\ \A x : Contains(stack', x) <=> Contains(stack, x) \/ x = "main"
  BY <1>1, StackGrows DEF Threads
<1>7. active \in Seq(Group) /\ IsInjective(active)
  BY DEF GroupsInv, HeldByOne
<1>8. proc["handler"].pc = "count" => group'[proc["handler"].g].pc \in {"open", "closing"}
  BY <1>4 DEF GroupsInv, CountedIsThere
<1>9. \A h \in Group : Contains(stack, h) \/ Holds("handler", h) => group'[h] = group[h]
  BY <1>2, <1>3, <1>4
<1>10. g = Head(active')
  BY <1>1
<1> HIDE DEF g
<1> QED BY <1>1, <1>2, <1>4, <1>5, <1>6, <1>7, <1>8, <1>9, <1>10, EmptiesOneByOne

LEMMA GroupsAreClosedStep == ASSUME GroupsInv, GroupsAreClosed PROVE GroupsInv'
<1> DEFINE g == proc["main"].g
<1>1. /\ Emptied /\ IsOnTop("main") /\ Joined(g) /\ active' = Tail(active)
      /\ active' = <<>> => Goes("main", "stop") /\ Returns /\ group' = Deleted(g)
      /\ active' # <<>> => /\ Deletes(Head(active')) /\ stack' = stack
                           /\ IsClosing(Deleted(g), Head(active'))
  BY DEF GroupsAreClosed
<1>2. /\ active # <<>> /\ g = Head(active) /\ g \in Group /\ group[g].pc = "closing"
      /\ Contains(active, g) /\ Contains(stack, "main") /\ Holds("main", g)
      /\ proc["main"].pc = "closing"
  <2>1. proc["main"].pc = "closing"
    BY <1>1 DEF Emptied
  <2>2. active # <<>> /\ g = Head(active)
    BY <1>1 DEF GroupsInv, HeldByOne
  <2>3. g \in Group /\ group[g].pc = "closing" /\ Contains(stack, "main")
    BY <2>1 DEF GroupsInv, HoldersAreTrue, Threads
  <2> QED BY <2>1, <2>2, <2>3, ListEnds DEF GroupsInv, Holds
<1>3. ~Holds("handler", g) /\ ~Contains(stack, g)
  BY <1>2 DEF GroupsInv, HeldByOne
<1>4. /\ active' \in Seq(Group) /\ IsInjective(active')
      /\ \A x : Contains(active', x) <=> Contains(active, x) /\ x # g
  <2>1. /\ active' \in Seq(Group) /\ IsInjective(active') /\ Range(active') = Range(active) \ {g}
    BY <1>1, <1>2, ListTail DEF GroupsInv, HeldByOne
  <2> QED BY <2>1, ContainsIsRange DEF GroupsInv
<1>5. \A h \in Group : Contains(active', h) =>
        /\ Contains(active, h) /\ group[h].pc = "open" /\ ~Holds("handler", h)
        /\ ~Contains(stack, h)
  BY <1>1, <1>2, <1>4 DEF GroupsInv, HeldByOne
<1>6. Deleted(g) \in [Group -> [pc : {"none", "opening", "setup", "open", "closing"}, busy : BOOLEAN]]
      /\ \A h \in Group \ {g} : Deleted(g)[h] = group[h]
  BY <1>2 DEF Deleted, GroupsInv, GroupOK
<1>7. proc["handler"].pc = "count" =>
        /\ proc["handler"].g \in Group \ {g}
        /\ group[proc["handler"].g].pc \in {"open", "closing"}
  BY <1>1 DEF Joined, GroupsInv, CountedIsThere
<1> HIDE DEF g
<1>8. CASE active' = <<>>
  <2>1. /\ GroupOK' /\ \A h \in Group \ {g} : group'[h] = group[h]
    BY <1>1, <1>6, <1>8 DEF GroupOK
  <2>2. /\ ProcOK' /\ proc'["main"].pc = "stop" /\ proc'["handler"] = proc["handler"]
    BY <1>1, <1>8 DEF Goes, At, GroupsInv, ProcOK, ProcPc, Threads
  <2>3. /\ stack' \in Seq(Threads \cup Group) /\ IsInjective(stack')
        /\ \A x : Contains(stack', x) <=> Contains(stack, x) /\ x # "main"
    BY <1>1, <1>8, StackShrinks
  <2>4. \A h \in Group : /\ Holds("handler", h)' <=> Holds("handler", h)
                         /\ ~Holds("main", h)'
                         /\ Contains(stack', h) <=> Contains(stack, h)
                         /\ ~Contains(active', h)
    <3>1. \A h : ~Contains(active', h)
      BY <1>8 DEF Contains
    <3> QED BY <2>2, <2>3, <3>1, SessionAssumption DEF Holds, Threads
  <2>5. ~Emptied'
    BY <2>2 DEF Emptied
  <2>6. HoldersAreTrue'
    <3>1. proc["handler"].pc \in InHand =>
            proc["handler"].g \in Group /\ Holds("handler", proc["handler"].g)
      BY DEF Holds, InHand, GroupsInv, HoldersAreTrue, Threads
    <3> QED BY <1>3, <2>1, <2>2, <2>3, <3>1 DEF GroupsInv, HoldersAreTrue, Threads, InHand
  <2>7. HeldByOne'
    BY <1>3, <1>4, <2>1, <2>3, <2>4, <2>5 DEF GroupsInv, HeldByOne
  <2>8. OneIsErased' /\ CountedIsThere'
    BY <1>7, <2>1, <2>2, <2>4 DEF OneIsErased, Erased, CountedIsThere
  <2> QED BY <1>4, <2>1, <2>2, <2>3, <2>6, <2>7, <2>8 DEF GroupsInv
<1>9. CASE active' # <<>>
  <2> DEFINE n == Head(active')
  <2>1. n \in Group /\ Contains(active', n)
    BY <1>4, <1>9, ListEnds
  <2>2. /\ GroupOK' /\ group'[n].pc = "closing" /\ \A h \in Group \ {g, n} : group'[h] = group[h]
    <3>1. IsClosing(Deleted(g), n)
      BY <1>1, <1>9
    <3> HIDE DEF n
    <3> QED BY <1>6, <2>1, <3>1 DEF IsClosing, GroupOK
  <2>3. /\ ProcOK' /\ proc'["handler"] = proc["handler"]
        /\ proc'["main"].pc = "closing" /\ proc'["main"].g = n
    <3>1. Deletes(n)
      BY <1>1, <1>9
    <3> HIDE DEF n
    <3> QED BY <2>1, <3>1 DEF Deletes, At, GroupsInv, ProcOK, ProcPc, Threads
  <2> HIDE DEF n
  <2>4. \A h \in Group : Contains(active', h) =>
          /\ Contains(active, h) /\ (h # n => group'[h].pc = "open")
          /\ ~Holds("handler", h) /\ ~Contains(stack, h)
    BY <1>4, <1>5, <2>2
  <2>5. \A h \in Group : Contains(stack, h) \/ Holds("handler", h) => group'[h] = group[h]
    BY <1>3, <2>1, <2>2, <2>4
  <2>6. proc["handler"].pc = "count" => group'[proc["handler"].g].pc \in {"open", "closing"}
    BY <1>7, <2>2
  <2>7. stack' = stack /\ stack \in Seq(Threads \cup Group) /\ IsInjective(stack)
    BY <1>1, <1>9 DEF GroupsInv, HeldByOne
  <2>8. n = Head(active')
    BY DEF n
  <2> QED
    BY <1>2, <1>4, <1>9, <2>2, <2>3, <2>4, <2>5, <2>6, <2>7, <2>8, EmptiesOneByOne
<1> QED BY <1>8, <1>9
LEMMA GroupsStep ==
  ASSUME Shape, GroupsInv, HandlerAsks, SessionNext
  PROVE  GroupsInv'
<1>1. ASSUME NEW t \in Threads, CreateStep(t) PROVE GroupsInv'
  BY <1>1, GroupOpensStep, GroupFailsToOpenStep, GroupIsSetUpStep, GroupIsNotSetUpStep,
     GroupIsUndoneStep DEF CreateStep
<1>2. CASE HandlerIsPlain \/ MainIsPlain
  BY <1>2, HandlerPlainly, MainPlainly, PlainKeeps DEF GroupsInv
<1>3. CASE EventArrives /\ ~HandlerIsPlain
  <2>1. OnGroupStarted \/ (active # <<>> /\ (OnGroupRemoved \/ OnStation))
    BY <1>3 DEF EventArrives, HandlerIsPlain
  <2> QED BY <2>1, OnGroupStartedStep, OnGroupRemovedStep, OnStationStep
<1>4. CASE GroupIsRemoved
  BY <1>4, GroupIsRemovedStep
<1>5. CASE Open \/ InitSession
  BY <1>5, OpensStep
<1>6. ASSUME NEW g \in Group, GroupIsAnswered(g) \/ CloseGroup(g) \/ GroupIsClosed(g)
      PROVE  GroupsInv'
  BY <1>6, GroupIsAnsweredStep, CloseGroupStep, GroupIsClosedStep
<1>7. CASE CloseGroups \/ GroupsAreClosed
  BY <1>2, <1>7, CloseGroupsStep, GroupsAreClosedStep DEF MainIsPlain
<1>8. \/ \E t \in Threads : CreateStep(t)
      \/ HandlerIsPlain \/ MainIsPlain \/ EventArrives \/ GroupIsRemoved \/ Open \/ InitSession
      \/ \E g \in Group : GroupIsAnswered(g) \/ CloseGroup(g) \/ GroupIsClosed(g)
      \/ CloseGroups \/ GroupsAreClosed
  <2>1. "handler" \in Threads /\ "main" \in Threads
    BY DEF Threads
  <2>2. HandlerStep => GroupIsRemoved \/ HandlerIsPlain \/ CreateStep("handler")
    BY DEF HandlerStep, HandlerIsPlain
  <2>3. OpenStep => Open \/ InitSession \/ MainIsPlain \/ CreateStep("main")
    BY DEF OpenStep, MainIsPlain
  <2>4. CloseStep => CloseGroups \/ GroupsAreClosed \/ MainIsPlain
    BY DEF CloseStep, MainIsPlain
  <2>5. FindStep \/ SessionCrashes \/ KeepAliveEnds \/ DnsMasqRuns => HandlerIsPlain
    BY DEF HandlerIsPlain
  <2>6. \A g \in Group : TerminateGroup(g) => HandlerIsPlain
    BY DEF HandlerIsPlain
  <2> QED BY <2>1, <2>2, <2>3, <2>4, <2>5, <2>6 DEF SessionNext
<1> QED BY <1>1, <1>2, <1>3, <1>4, <1>5, <1>6, <1>7, <1>8
-----------------------------------------------------------------------------
(* The last group. *)

\* A session that is finished remains so; and what it finds out about its groups.
LEMMA FinishedStays ==
  ASSUME Shape, GroupsInv, SessionNext
  PROVE  /\ session.finished => session'.finished
         /\ session'.hadGroup => session.hadGroup \/ \E t \in Threads : GroupIsSetUp(t)
         /\ proc'.main.pc \in {"uninit", "groups", "closing"} =>
              session'.finished \/ proc.main.pc \in {"uninit", "groups", "closing"}
<1> DEFINE Stays == /\ session.finished => session'.finished
                    /\ session'.hadGroup => session.hadGroup \/ \E t \in Threads : GroupIsSetUp(t)
                    /\ proc'.main.pc \in {"uninit", "groups", "closing"} =>
                         session'.finished \/ proc.main.pc \in {"uninit", "groups", "closing"}
<1>0. session \in Flags /\ ProcOK
  BY DEF Shape, SessionTypeOK, Flags
<1>1. ASSUME NEW t \in Threads, CreateStep(t) PROVE Stays
  <2>1. CASE GroupOpens(t)
    BY <1>0, <2>1 DEF GroupOpens, ProcOK, Threads
  <2>2. CASE GroupIsNotSetUp(t)
    BY <1>0, <2>2 DEF GroupIsNotSetUp, ProcOK, Threads
  <2>3. ASSUME NEW s \in {session, [session EXCEPT !.hadGroup = TRUE]}, IsCreated(t, s)
        PROVE  /\ session.finished => session'.finished
               /\ session'.hadGroup => session.hadGroup \/ s # session
               /\ proc'.main = proc.main \/ proc'.main.pc = "dnsmasq"
    <3>1. CASE t = "main"
      BY <1>0, <2>3, <3>1 DEF IsCreated, Goes, At, Flags, ProcOK, Threads
    <3>2. CASE t = "handler"
      BY <1>0, <2>3, <3>2 DEF IsCreated, Goes, At, Flags, ProcOK, Threads, Seen
    <3> QED BY <3>1, <3>2 DEF Threads
  <2>4. CASE GroupFailsToOpen(t) \/ GroupIsUndone(t)
    BY <2>3, <2>4 DEF GroupFailsToOpen, GroupIsUndone
  <2>5. CASE GroupIsSetUp(t)
    BY <2>3, <2>5 DEF GroupIsSetUp
  <2> QED BY <1>1, <2>1, <2>2, <2>4, <2>5 DEF CreateStep
<1>2. ASSUME EventArrives PROVE Stays
  <2>1. \/ session' = session
        \/ session' = Seen(session)
        \/ session' = Seen([session EXCEPT !.wrong = @ \/ ~HasLeft])
    BY <1>2 DEF EventArrives, OnGroupStarted, OnWrongGroupStarted, OnGroupRemoved, OnStation,
                OnEnrollmentFailed, OnEnrolls, CreateP2pGroup, IsCreated
  <2>2. \/ proc' = proc
        \/ \E r : proc' = [proc EXCEPT !.handler = r]
    BY <1>2 DEF EventArrives, OnGroupStarted, OnWrongGroupStarted, OnGroupRemoved, OnStation,
                OnEnrollmentFailed, OnEnrolls, CreateP2pGroup, IsCreated, Goes
  <2> QED BY <1>0, <2>1, <2>2 DEF Seen, Flags, ProcOK, Threads
<1>3. ASSUME GroupIsRemoved \/ \E g \in Group : GroupIsClosed(g) PROVE Stays
  <2>1. \E left : session' = FinishedIfLast(session, left)
    BY <1>3 DEF GroupIsRemoved, GroupIsClosed
  <2>2. proc' = proc \/ Goes("handler", "take")
    BY <1>3 DEF GroupIsRemoved, GroupIsClosed
  <2> QED BY <1>0, <2>1, <2>2 DEF FinishedIfLast, Flags, Goes, At, ProcOK, Threads
<1>4. ASSUME StationsAreCounted \/ IsAsked \/ HandlerEnds \/ FindStep PROVE Stays
  <2>1. session' = session /\ (proc' = proc \/ \E pc : Goes("handler", pc))
    BY <1>4 DEF StationsAreCounted, IsAsked, HandlerEnds, FindStep, ScanAsks, FindIsAnswered,
                FindFails, Continues
  <2> QED BY <1>0, <2>1 DEF Goes, ProcOK, Threads
<1>5. ASSUME SessionCrashes \/ KeepAliveEnds \/ DnsMasqRuns PROVE Stays
  BY <1>0, <1>5 DEF SessionCrashes, UsesDangling, ReaderThrows, KeepAliveEnds, DnsMasqRuns, Flags
<1>6. ASSUME NEW g \in Group, GroupIsAnswered(g) \/ TerminateGroup(g) \/ CloseGroup(g) PROVE Stays
  BY <1>6 DEF GroupIsAnswered, TerminateGroup, CloseGroup
<1>7. ASSUME NEW s \in Flags, Throws(s)
      PROVE  session'.finished /\ ~session'.hadGroup
  BY <1>7 DEF Throws, Leaves, Flags
<1>8. ASSUME Open \/ InitSession PROVE Stays
  <2>1. CASE Throws(session)
    BY <1>0, <1>7, <2>1
  <2>2. CASE session' = session /\ \E pc \in {"add", "dnsmasq"} : Goes("main", pc)
    BY <1>0, <2>2 DEF Goes, At, ProcOK, Threads
  <2>3. CASE /\ session' = session
             /\ \E g \in Group : proc' = [proc EXCEPT !["main"] = [At("opening") EXCEPT !.g = g]]
    BY <1>0, <2>3 DEF At, ProcOK, Threads
  <2>4. CASE /\ session' = [session EXCEPT !.open = TRUE, !.attached = TRUE, !.closed = FALSE]
             /\ proc' = [main |-> At("init"), handler |-> At("take")]
    BY <1>0, <2>4 DEF At, Flags
  <2> QED
    BY <1>8, <2>1, <2>2, <2>3, <2>4 DEF Open, InitSession, CreateP2pGroup, IsCreated
<1>9. ASSUME AddGroup \/ GroupIsAdded \/ AddTimesOut \/ StartServiceDiscovery PROVE Stays
  <2>1. \/ Throws(session)
        \/ Throws([session EXCEPT !.finished = TRUE])
        \/ /\ session' = session \/ session' = [session EXCEPT !.waits = TRUE]
           /\ Goes("main", "wait") \/ Goes("main", "dnsmasq") \/ Goes("main", "poll")
    BY <1>9 DEF AddGroup, GroupIsAdded, AddTimesOut, StartServiceDiscovery
  <2>2. CASE Throws(session) \/ Throws([session EXCEPT !.finished = TRUE])
    BY <1>0, <1>7, <2>2, [session EXCEPT !.finished = TRUE] \in Flags DEF Flags
  <2> QED BY <1>0, <2>1, <2>2 DEF Goes, At, Flags, ProcOK, Threads
<1>10. ASSUME StartDnsMasq \/ DnsMasqSettles PROVE Stays
  BY <1>0, <1>10 DEF StartDnsMasq, DnsMasqSettles, Goes, At, ProcOK, Threads
<1>11. ASSUME Poll PROVE Stays
  BY <1>0, <1>11 DEF Poll, Leaves, Flags
<1>12. ASSUME StopServiceDiscovery \/ CloseGroups \/ GroupsAreClosed PROVE Stays
  BY <1>0, <1>12 DEF StopServiceDiscovery, CloseGroups, GroupsAreClosed, MainAt, Emptied
<1>13. ASSUME StopDnsMasq \/ DnsMasqIsStopped \/ KillDnsMasq PROVE Stays
  BY <1>0, <1>13
     DEF StopDnsMasq, DnsMasqIsStopped, KillDnsMasq, StopReturns, Goes, At, ProcOK, Threads
<1>14. ASSUME CloseChannel \/ ChannelIsClosed PROVE Stays
  BY <1>0, <1>14 DEF CloseChannel, ChannelIsClosed, Goes, At, Flags, ProcOK, Threads
<1> HIDE DEF Stays
<1>15. "handler" \in Threads /\ "main" \in Threads
  BY DEF Threads
<1>16. Stays
  BY <1>1, <1>2, <1>3, <1>4, <1>5, <1>6, <1>8, <1>9, <1>10, <1>11, <1>12, <1>13, <1>14, <1>15
     DEF SessionNext, HandlerStep, OpenStep, CloseStep
<1> QED BY <1>16 DEF Stays
LEMMA WhoChangesActive ==
  ASSUME SessionNext, active' # active
  PROVE  \/ \E t \in Threads : GroupIsSetUp(t)
         \/ OnGroupRemoved \/ GroupsAreClosed
         \/ \E g \in Group : CloseGroup(g) \/ GroupIsClosed(g)
<1>1. ASSUME NEW t \in Threads, CreateStep(t) PROVE active' = active \/ GroupIsSetUp(t)
  BY <1>1 DEF CreateStep, GroupOpens, GroupFailsToOpen, GroupIsNotSetUp, GroupIsUndone
<1>2. EventArrives => active' = active \/ OnGroupRemoved
  BY DEF EventArrives, OnGroupStarted, OnWrongGroupStarted, OnEnrolls, OnStation, OnEnrollmentFailed
<1>3. GroupIsRemoved \/ StationsAreCounted \/ IsAsked \/ HandlerEnds \/ SessionCrashes
        => active' = active
  BY DEF GroupIsRemoved, StationsAreCounted, IsAsked, HandlerEnds, SessionCrashes, UsesDangling, ReaderThrows
<1>4. \A g \in Group : GroupIsAnswered(g) \/ TerminateGroup(g) => active' = active
  BY DEF GroupIsAnswered, TerminateGroup
<1>5. Open \/ InitSession \/ AddGroup \/ GroupIsAdded \/ AddTimesOut => active' = active
  BY DEF Open, InitSession, AddGroup, GroupIsAdded, AddTimesOut
<1>6. StartDnsMasq \/ DnsMasqSettles \/ StartServiceDiscovery \/ FindStep \/ KeepAliveEnds
        \/ DnsMasqRuns => active' = active
  BY DEF StartDnsMasq, DnsMasqSettles, StartServiceDiscovery, FindStep, ScanAsks, FindIsAnswered,
         FindFails, KeepAliveEnds, DnsMasqRuns
<1>7. CloseStep => active' = active \/ GroupsAreClosed
  BY DEF CloseStep, Poll, StopServiceDiscovery, CloseGroups, CloseChannel, ChannelIsClosed,
         StopDnsMasq, DnsMasqIsStopped, KillDnsMasq
<1>8. "handler" \in Threads /\ "main" \in Threads
  BY DEF Threads
<1> QED
  BY <1>1, <1>2, <1>3, <1>4, <1>5, <1>6, <1>7, <1>8 DEF SessionNext, HandlerStep, OpenStep

\* Who pumps messages for a posted function does so until its group is closed.
LEMMA GroupStays ==
  ASSUME GroupsInv, SessionNext, NEW g \in Group, Contains(stack, g),
         ~ \E h \in Group : GroupIsClosed(h)
  PROVE  Contains(stack', g)
<1> DEFINE Moves == \/ stack' = stack
                    \/ \E who \in Threads \cup Group : CanRun(who) /\ Pumps(who)
                    \/ \E t \in Threads : IsOnTop(t) /\ Returns
<1>0. "handler" \in Threads /\ "main" \in Threads /\ "handler" \notin Group /\ "main" \notin Group
  BY SessionAssumption DEF Threads
<1>1. ASSUME NEW t \in Threads, CreateStep(t) PROVE Moves
  BY <1>1 DEF CreateStep, GroupOpens, GroupFailsToOpen, GroupIsSetUp, GroupIsNotSetUp, GroupIsUndone
<1>2. ASSUME EventArrives PROVE Moves
  BY <1>0, <1>2 DEF EventArrives, OnGroupStarted, OnWrongGroupStarted, OnGroupRemoved, OnEnrolls,
                    OnStation, OnEnrollmentFailed, Takes, HandlerAt
<1>3. ASSUME GroupIsRemoved \/ StationsAreCounted \/ IsAsked \/ HandlerEnds \/ SessionCrashes
      PROVE  Moves
  BY <1>0, <1>3 DEF GroupIsRemoved, StationsAreCounted, IsAsked, HandlerEnds, SessionCrashes, UsesDangling, ReaderThrows
<1>4. ASSUME NEW h \in Group, GroupIsAnswered(h) \/ TerminateGroup(h) \/ CloseGroup(h) PROVE Moves
  BY <1>4 DEF GroupIsAnswered, TerminateGroup, CloseGroup
<1>5. ASSUME Open \/ InitSession \/ AddGroup \/ GroupIsAdded \/ AddTimesOut PROVE Moves
  BY <1>0, <1>5 DEF Open, InitSession, AddGroup, GroupIsAdded, AddTimesOut, MainAt
<1>6. ASSUME \/ StartDnsMasq \/ DnsMasqSettles \/ StartServiceDiscovery
             \/ FindStep \/ KeepAliveEnds \/ DnsMasqRuns
      PROVE  Moves
  BY <1>6 DEF StartDnsMasq, DnsMasqSettles, StartServiceDiscovery, FindStep, ScanAsks,
              FindIsAnswered, FindFails, KeepAliveEnds, DnsMasqRuns
<1>7. ASSUME CloseStep PROVE Moves
  BY <1>0, <1>7
     DEF CloseStep, Poll, StopServiceDiscovery, CloseGroups, GroupsAreClosed, CloseChannel,
         ChannelIsClosed, StopDnsMasq, DnsMasqIsStopped, KillDnsMasq, MainAt, MayGoOn, MayReturn
<1>8. Moves
  BY <1>0, <1>1, <1>2, <1>3, <1>4, <1>5, <1>6, <1>7 DEF SessionNext, HandlerStep, OpenStep
<1>9. ASSUME NEW who \in Threads \cup Group, CanRun(who), Pumps(who) PROVE Contains(stack', g)
  BY <1>9, StackGrows
<1>10. ASSUME NEW t \in Threads, IsOnTop(t), Returns PROVE Contains(stack', g)
  BY <1>10, StackShrinks, SessionAssumption
<1> QED BY <1>8, <1>9, <1>10

LEMMA LastGroupStep ==
  ASSUME Shape, GroupsInv, HandlerAsks, LastGroupIsNoticed, SessionNext
  PROVE  LastGroupIsNoticed'
<1>1. proc'.main.pc \in {"uninit", "groups", "closing"} => session'.finished
  BY FinishedStays DEF LastGroupIsNoticed
<1>2. SUFFICES ASSUME session'.hadGroup, active' = <<>>, ~session'.finished
               PROVE  (\E g \in Group : Contains(stack', g)) \/ proc'.handler.pc = "closing"
  BY <1>1 DEF LastGroupIsNoticed
<1>3. ~session.finished /\ session \in Flags
  BY <1>2, FinishedStays DEF Shape, SessionTypeOK, Flags
<1>4. ~ \E t \in Threads : GroupIsSetUp(t)
  <2>1. ASSUME NEW t \in Threads, GroupIsSetUp(t) PROVE FALSE
    <3>1. active' = Append(active, proc[t].g) /\ proc[t].g \in Group /\ active \in Seq(Group)
      BY <2>1, OwnGroup DEF GroupIsSetUp, GroupsInv
    <3> QED BY <1>2, <3>1
  <2> QED BY <2>1
<1>5. session.hadGroup
  BY <1>2, <1>4, FinishedStays
<1>6. ~GroupIsRemoved /\ ~ \E g \in Group : GroupIsClosed(g)
  <2>1. ASSUME session' = FinishedIfLast(session, <<>>) PROVE FALSE
    BY <1>2, <1>3, <2>1 DEF FinishedIfLast, Flags
  <2> QED BY <1>2, <2>1 DEF GroupIsRemoved, GroupIsClosed
<1>7. CASE active = <<>>
  <2>1. CASE proc.handler.pc = "closing"
    BY <1>6, <2>1, WhoGoesOn DEF Shape
  <2>2. CASE \E g \in Group : Contains(stack, g)
    BY <1>6, <2>2, GroupStays
  <2> QED BY <1>3, <1>5, <1>7, <2>1, <2>2 DEF LastGroupIsNoticed
<1>8. CASE active # <<>>
  <2>1. OnGroupRemoved \/ GroupsAreClosed \/ \E g \in Group : CloseGroup(g)
    BY <1>2, <1>4, <1>6, <1>8, WhoChangesActive
  <2>2. CASE OnGroupRemoved
    BY <1>8, <2>2 DEF OnGroupRemoved, At, GroupsInv, ProcOK, Threads
  <2>3. CASE GroupsAreClosed
    BY <1>3, <2>3 DEF GroupsAreClosed, Emptied, LastGroupIsNoticed
  <2>4. ASSUME NEW g \in Group, CloseGroup(g) PROVE Contains(stack', g)
    <3>1. CanRun(g) /\ (active' = active \/ Pumps(g))
      BY <2>4 DEF CloseGroup
    <3>2. Pumps(g)
      BY <1>2, <1>8, <3>1
    <3> QED BY <3>1, <3>2, StackGrows
  <2> QED BY <2>1, <2>2, <2>3, <2>4
<1> QED BY <1>7, <1>8
-----------------------------------------------------------------------------
(* The session. *)

LEMMA NextTaken == ASSUME taken \in Nat, SessionNext PROVE taken' \in Nat
<1>1. \A e : Takes(e) => taken' = taken + 1
  BY DEF Takes
<1>2. EventArrives => taken' = taken + 1
  BY <1>1 DEF EventArrives, OnGroupStarted, OnWrongGroupStarted, OnGroupRemoved, OnStation,
              OnEnrollmentFailed, OnEnrolls
<1>3. \A t \in Threads : CreateStep(t) => taken' = taken
  BY DEF CreateStep, GroupOpens, GroupFailsToOpen, GroupIsSetUp, GroupIsNotSetUp, GroupIsUndone
<1>4. GroupIsRemoved \/ StationsAreCounted \/ IsAsked \/ HandlerEnds \/ SessionCrashes => taken' = taken
  BY DEF GroupIsRemoved, StationsAreCounted, IsAsked, HandlerEnds, SessionCrashes, UsesDangling, ReaderThrows
<1>5. \A g \in Group : GroupIsAnswered(g) \/ TerminateGroup(g) \/ CloseGroup(g) \/ GroupIsClosed(g)
        => taken' = taken
  BY DEF GroupIsAnswered, TerminateGroup, CloseGroup, GroupIsClosed
<1>6. Open \/ InitSession \/ AddGroup \/ GroupIsAdded \/ AddTimesOut => taken' = taken
  BY DEF Open, InitSession, AddGroup, GroupIsAdded, AddTimesOut
<1>7. StartDnsMasq \/ DnsMasqSettles \/ StartServiceDiscovery \/ FindStep \/ KeepAliveEnds
        \/ DnsMasqRuns => taken' = taken
  BY DEF StartDnsMasq, DnsMasqSettles, StartServiceDiscovery, FindStep, ScanAsks, FindIsAnswered,
         FindFails, KeepAliveEnds, DnsMasqRuns
<1>8. CloseStep => taken' = taken
  BY DEF CloseStep, Poll, StopServiceDiscovery, CloseGroups, GroupsAreClosed, CloseChannel,
         ChannelIsClosed, StopDnsMasq, DnsMasqIsStopped, KillDnsMasq
<1>9. "handler" \in Threads /\ "main" \in Threads
  BY DEF Threads
<1>10. taken' \in {taken, taken + 1}
  BY <1>2, <1>3, <1>4, <1>5, <1>6, <1>7, <1>8, <1>9 DEF SessionNext, HandlerStep, OpenStep
<1> QED BY <1>10

LEMMA NextTimers == ASSUME timers \subseteq Group, SessionNext PROVE timers' \subseteq Group
<1>1. EventArrives => timers' = timers
  BY DEF EventArrives, OnGroupStarted, OnWrongGroupStarted, OnGroupRemoved, OnStation,
         OnEnrollmentFailed, OnEnrolls
<1>2. \A t \in Threads : CreateStep(t) => timers' = timers
  BY DEF CreateStep, GroupOpens, GroupFailsToOpen, GroupIsSetUp, GroupIsNotSetUp, GroupIsUndone
<1>3. GroupIsRemoved \/ StationsAreCounted \/ IsAsked \/ HandlerEnds \/ SessionCrashes
        => timers' = timers
  BY DEF GroupIsRemoved, StationsAreCounted, IsAsked, HandlerEnds, SessionCrashes, UsesDangling, ReaderThrows
<1>4. \A g \in Group : GroupIsAnswered(g) \/ TerminateGroup(g) \/ CloseGroup(g) \/ GroupIsClosed(g)
        => timers' \subseteq Group
  BY DEF GroupIsAnswered, TerminateGroup, CloseGroup, GroupIsClosed
<1>5. Open \/ InitSession \/ AddGroup \/ GroupIsAdded \/ AddTimesOut => timers' = timers
  BY DEF Open, InitSession, AddGroup, GroupIsAdded, AddTimesOut
<1>6. StartDnsMasq \/ DnsMasqSettles \/ StartServiceDiscovery \/ FindStep \/ KeepAliveEnds
        \/ DnsMasqRuns => timers' = timers
  BY DEF StartDnsMasq, DnsMasqSettles, StartServiceDiscovery, FindStep, ScanAsks, FindIsAnswered,
         FindFails, KeepAliveEnds, DnsMasqRuns
<1>7. CloseStep => timers' = timers
  BY DEF CloseStep, Poll, StopServiceDiscovery, CloseGroups, GroupsAreClosed, CloseChannel,
         ChannelIsClosed, StopDnsMasq, DnsMasqIsStopped, KillDnsMasq
<1>8. "handler" \in Threads /\ "main" \in Threads
  BY DEF Threads
<1> QED
  BY <1>1, <1>2, <1>3, <1>4, <1>5, <1>6, <1>7, <1>8 DEF SessionNext, HandlerStep, OpenStep

LEMMA SessionStep == ASSUME SessionInv, SessionNext PROVE SessionInv'
<1>1. GroupsInv
  BY DEF SessionInv, Shape, SessionTypeOK, GroupsInv
<1>2. FindOK' /\ SearchIsStopped' /\ HandlerAsks'
  BY SearchStep DEF SessionInv
<1>3. DnsTypeOK' /\ ReadersAreCounted'
  BY ReadersStep DEF SessionInv
<1>4. session' \in Flags
  BY FlagsStep DEF SessionInv, Shape, SessionTypeOK, Flags
<1>5. GroupsInv'
  BY <1>1, GroupsStep DEF SessionInv
<1>6. LastGroupIsNoticed'
  BY <1>1, LastGroupStep DEF SessionInv
<1>7. taken' \in Nat /\ timers' \subseteq Group
  BY NextTaken, NextTimers DEF SessionInv, Shape, SessionTypeOK
<1>8. Shape'
  <2>1. \A t \in Threads : proc'[t].g \in Group \cup {NoGroup}
    BY <1>5 DEF GroupsInv, ProcOK
  <2>2. \A g \in Group : group'[g] \in [pc : {"none", "opening", "setup", "open", "closing"},
                                       busy : BOOLEAN]
    BY <1>5 DEF GroupsInv, GroupOK
  <2>3. /\ find'.stations \in {0, 1} /\ find'.searching \in {"yes", "no", "unknown"}
        /\ find'.scan \in {"none", "delay", "found", "ask", "ended"}
    BY <1>2 DEF FindOK, Searches
  <2>4. SessionTypeOK'
    BY <1>3, <1>4, <1>5, <1>7, <2>1, <2>2, <2>3 DEF SessionTypeOK, Flags, GroupsInv
  <2> QED BY <1>2, <1>5, <2>4 DEF Shape, GroupsInv
<1> QED BY <1>2, <1>3, <1>5, <1>6, <1>8 DEF SessionInv, GroupsInv

\* A process that has just started, for the first time or again.
JustStarted ==
  taken \in Nat /\ Fresh(dns, session, proc, 0, group, active, timers, stack, find)

LEMMA JustStartedInv == JustStarted => SessionInv
<1> SUFFICES ASSUME JustStarted PROVE SessionInv
  OBVIOUS
<1> USE DEF JustStarted, Fresh
<1>1. DnsTypeOK /\ ReadersAreCounted
  BY DEF NoProcess, DnsTypeOK, ReadersAreCounted, NoOrphan, At
<1>2. session \in Flags
  BY DEF NewSession, Flags
<1>3. /\ ProcOK /\ proc["main"] = At("start") /\ proc["handler"] = At("none")
      /\ \A t \in Threads : proc[t].g \in Group \cup {NoGroup}
                            /\ proc[t].pc \notin InHand \cup {"count"}
  BY DEF ProcOK, ProcPc, At, Threads, InHand
<1>4. GroupOK /\ active = <<>> /\ active \in Seq(Group)
  BY DEF GroupOK
<1>5. stack = <<>> /\ stack \in Seq(Threads \cup Group)
  OBVIOUS
<1>6. FindOK /\ SearchIsStopped /\ find.asks = <<>>
  BY DEF NotSearching, FindOK, Searches, SearchIsStopped
<1>7. HandlerAsks
  BY <1>3, <1>6 DEF HandlerAsks, At
<1>8. \A x : ~Contains(active, x) /\ ~Contains(stack, x)
  BY <1>4, <1>5 DEF Contains
<1>9. IsInjective(active) /\ IsInjective(stack)
  BY <1>4, <1>5, EmptyList
<1>10. HoldersAreTrue /\ HeldByOne /\ OneIsErased /\ CountedIsThere
  BY <1>3, <1>8, <1>9
     DEF HoldersAreTrue, HeldByOne, OneIsErased, Erased, CountedIsThere, Holds, Emptied, InHand, Threads
<1>11. LastGroupIsNoticed
  BY <1>3 DEF LastGroupIsNoticed, NewSession, At
<1>12. Shape
  BY <1>1, <1>2, <1>3, <1>4, <1>5, <1>6
     DEF Shape, SessionTypeOK, Flags, GroupOK, FindOK, Searches
<1> QED BY <1>1, <1>6, <1>7, <1>10, <1>11, <1>12 DEF SessionInv

\* The inductive invariant of a session, in each life of the process: its flags and where
\* its coroutines are, who has which group and who is about to delete it, the requests
\* that are not answered yet, and the readers of dnsmasq's output.
THEOREM SessionInvariance == Spec => []SessionInv
<1>1. Init => JustStarted
  BY DEF Init, SessionInit, JustStarted, Fresh
<1>2. JustStarted => SessionInv
  BY JustStartedInv
<1>3. SessionInv /\ [Next]_vars => SessionInv' \/ JustStarted'
  <2> SUFFICES ASSUME SessionInv, [Next]_vars PROVE SessionInv' \/ JustStarted'
    OBVIOUS
  <2>1. CASE UNCHANGED sessionVars
    BY <2>1 DEF sessionVars, SessionInv, Shape, SessionTypeOK, DnsTypeOK, ProcOK, GroupOK, FindOK,
       ReadersAreCounted, NoOrphan, EndOfOutput, SearchIsStopped, HandlerAsks, HoldersAreTrue,
       HeldByOne, Holds, Emptied, OneIsErased, Erased, CountedIsThere, LastGroupIsNoticed
  <2>2. CASE SessionNext
    BY <2>2, SessionStep
  <2>3. CASE Forgotten
    BY <2>3 DEF Forgotten, JustStarted, SessionInv, Shape, SessionTypeOK
  <2> QED BY <2>1, <2>2, <2>3 DEF Next, vars, SessionEnds, Increment, Crash, Restart, sessionVars
<1> QED BY <1>1, <1>2, <1>3, PTL DEF Spec

\* No device is searched for while a station is connected, once the requests of ScanProc()
\* and of the event handler are answered, in any number and order.
THEOREM NeverSearchesConnected == Spec => []PassiveWhenConnected
<1>1. SessionInv => PassiveWhenConnected
  BY DEF SessionInv, SearchIsStopped, PassiveWhenConnected
<1> QED BY <1>1, SessionInvariance, PTL

\* dnsmasq, sudo and the readers have ended whenever Stop() has returned.
THEOREM NobodyIsLeft == Spec => []NoOrphan
<1>1. SessionInv => NoOrphan
  BY DEF SessionInv, ReadersAreCounted
<1> QED BY <1>1, SessionInvariance, PTL

\* Whatever number of groups there are, and however often wpa_supplicant removes and the
\* access point loses them while CoMain() empties the list or the event handler waits for
\* an answer: none is used that is gone, and the session is finished with its last one.
THEOREM GroupsAreNotLost == Spec => []GroupsAreTracked
<1>1. SessionInv /\ CounterInv => GroupsAreTracked
  <2> SUFFICES ASSUME SessionInv, CounterInv PROVE GroupsAreTracked
    OBVIOUS
  <2>1. TypeOK
    BY DEF SessionInv, Shape, CounterInv, TypeOK
  <2>2. FinishedWithLastGroup
    BY SessionAssumption
       DEF SessionInv, LastGroupIsNoticed, FinishedWithLastGroup, HoldersAreTrue, Threads
  <2>3. NoUseOfDeletedGroup
    BY DEF SessionInv, CountedIsThere, NoUseOfDeletedGroup
  <2> QED BY <2>1, <2>2, <2>3 DEF GroupsAreTracked
<1> QED BY <1>1, SessionInvariance, CounterInvariance, PTL
=============================================================================
