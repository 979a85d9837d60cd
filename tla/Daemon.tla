-------------------------------- MODULE Daemon --------------------------------
(***************************************************************************)
(* pipedal_p2pd (main.cpp) as a service of systemd: a session, what        *)
(* CoMain() does when it has ended, RestartCounter, and the next life of   *)
(* the process.                                                            *)
(***************************************************************************)
EXTENDS P2pSession

CONSTANT MaxCount  \* dhcpcd is restarted if Count() is not above (3)

ASSUME DaemonAssumption == MaxCount \in Nat

VARIABLES
  counter,  \* the file of RestartCounter; what Increment() will write; where CoMain() is
  dhcpcd    \* since the last session without a wrong interface: how often dhcpcd was
            \* restarted, and how often a crash kept Increment() from counting it

daemonVars == <<counter, dhcpcd>>
vars == <<sessionVars, daemonVars>>

CounterTypeOK ==
  /\ counter \in [file : Nat, count : Nat, pc : {"session", "increment", "ended"}]
  /\ dhcpcd \in [restarts : Nat, crashes : Nat]

TypeOK == SessionTypeOK /\ CounterTypeOK

DaemonInit ==
  /\ counter = [file |-> 0, count |-> 0, pc |-> "session"]
  /\ dhcpcd = [restarts |-> 0, crashes |-> 0]

Init == SessionInit /\ DaemonInit

-----------------------------------------------------------------------------
\* What is left of the session's memory is not looked at any more.
Forgotten ==
  /\ Fresh(dns', session', proc', 0, group', active', timers', stack', find')
  /\ UNCHANGED taken

\* hadWrongInterface: dhcpcd is restarted, unless it was too often.
SessionEnds ==
  /\ counter.pc = "session" /\ proc.main.pc = "exit"
  /\ IF session.wrong
     THEN /\ counter' = [counter EXCEPT !.pc = "increment", !.count = counter.file + 1]
          /\ dhcpcd' = [dhcpcd EXCEPT !.restarts = @ + (IF counter.file <= MaxCount THEN 1 ELSE 0)]
     ELSE /\ counter' = [counter EXCEPT !.pc = "increment", !.count = 0]
          /\ dhcpcd' = [restarts |-> 0, crashes |-> 0]
  /\ Forgotten

\* Increment() writes one more than Count() was, which is -1 if nobody has asked for it.
NotIncremented == counter.file  \* a mutant
Incremented == counter.count

Increment ==
  /\ counter.pc = "increment"
  /\ counter' = [counter EXCEPT !.pc = "ended", !.file = Incremented, !.count = 0]
  /\ UNCHANGED <<sessionVars, dhcpcd>>

\* The process dies, by a signal or of its own.
Crash ==
  /\ \/ counter.pc = "session" /\ session.crashed /\ Forgotten
     \/ counter.pc = "increment" /\ UNCHANGED sessionVars
  /\ counter' = [counter EXCEPT !.pc = "ended", !.count = 0]
  /\ dhcpcd' = [dhcpcd EXCEPT !.crashes = @ + (IF counter.count # 0 THEN 1 ELSE 0)]

\* systemd starts it again.
Restart ==
  /\ counter.pc = "ended"
  /\ counter' = [counter EXCEPT !.pc = "session"]
  /\ UNCHANGED <<sessionVars, dhcpcd>>

Next ==
  \/ counter.pc = "session" /\ SessionNext /\ UNCHANGED daemonVars
  \/ SessionEnds \/ Increment \/ Crash \/ Restart

Spec == Init /\ [][Next]_vars

\* What the process itself can do is done, delays and timeouts end, and a request is
\* answered or fails; wpa_supplicant and dnsmasq need not do anything.
Own(A) == counter.pc = "session" /\ IsUp /\ A /\ UNCHANGED daemonVars
Fairness ==
  /\ WF_vars(Own(HandlerStep)) /\ WF_vars(Own(FindStep))
  /\ WF_vars(Own(OpenStep)) /\ WF_vars(Own(CloseStep))
  /\ \A g \in Group : WF_vars(Own(GroupIsAnswered(g) \/ GroupIsClosed(g)))
  /\ WF_vars(Own(DnsMasqRuns /\ dns'.server = dns.server))

FairSpec == Spec /\ Fairness

-----------------------------------------------------------------------------
\* The session knows its groups: neither is the last one missed, nor is one used that is gone.
GroupsAreTracked == TypeOK /\ FinishedWithLastGroup /\ NoUseOfDeletedGroup

\* dhcpcd is not restarted again and again while the interface is the wrong one: at most
\* MaxCount + 1 times, and once more for each crash before Increment().
DhcpcdRestartsAreBounded == dhcpcd.restarts <= MaxCount + 1 + dhcpcd.crashes

\* CoMain() waits for dnsmasq, which does not end, or in a frame above that of the event
\* handler for the event handler; or a reader of dnsmasq's output never suspends.
Hangs ==
  \/ dns.spins
  \/ proc.main.pc \in {"term", "kill"} /\ dns.server
  \/ proc.main.pc = "join" /\ Contains(stack, "handler")

\* A session that is to be closed ends, but for those three cases.
ShutdownEnds ==
  (proc.main.pc = "uninit" \/ (proc.main.pc = "poll" /\ session.finished))
    ~> (proc.main.pc = "exit" \/ session.crashed \/ []Hangs)
=============================================================================
