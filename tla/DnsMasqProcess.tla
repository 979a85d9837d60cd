---------------------------- MODULE DnsMasqProcess ----------------------------
(***************************************************************************)
(* DnsMasqProcess (src/pipedal_p2pd/DnsMasqProcess.cpp) on CoExec          *)
(* (src/lib/CoExec.cpp): `sudo dnsmasq`, a process that runs another one.  *)
(* Both hold the pipes that two coroutines of the daemon read.             *)
(***************************************************************************)
EXTENDS Naturals

VARIABLE
  dns  \* running, how many readers go on, terminatedThreads, does a reader spin, is
       \* CoExec's process id valid; and what the system knows: the child, `sudo`, and is
       \* dnsmasq alive

DnsTypeOK ==
  dns \in [running : BOOLEAN, readers : 0..2, terminated : 0..2, spins : BOOLEAN, pid : BOOLEAN,
           sudo : {"none", "alive", "zombie", "reaped"}, server : BOOLEAN]

NoProcess == [running |-> FALSE, readers |-> 0, terminated |-> 0, spins |-> FALSE,
              pid |-> FALSE, sudo |-> "none", server |-> FALSE]

\* Execute() forks a child with three socket pairs for its standard files; it throws, and
\* nothing is running, when `sudo` is not on the path.
Spawned == [running |-> TRUE, readers |-> 2, terminated |-> 0, spins |-> FALSE,
            pid |-> TRUE, sudo |-> "alive", server |-> TRUE]
DnsStarted == dns' = Spawned

-----------------------------------------------------------------------------
(* The processes. *)

DnsServerEnds == dns.server /\ dns' = [dns EXCEPT !.server = FALSE]
SudoEnds == dns.sudo = "alive" /\ ~dns.server /\ dns' = [dns EXCEPT !.sudo = "zombie"]

\* The pipes are closed when nobody holds them.
EndOfOutput == ~dns.server /\ dns.sudo # "alive"

\* CopyStdoutToDebugLog() and CopyStderrToErrorLog() count themselves out at the end.
Forgets == [dns EXCEPT !.readers = @ - 1]  \* a mutant
CountsOut == [dns EXCEPT !.readers = @ - 1, !.terminated = @ + 1]

ReaderEnds ==
  /\ dns.readers > 0 /\ EndOfOutput
  /\ dns' = CountsOut

\* Its output has ended within a line: CoReadLine() returns that line again and again, and
\* as it never suspends nothing else runs on the thread.
ReaderSpins ==
  /\ dns.readers > 0 /\ EndOfOutput
  /\ dns' = [dns EXCEPT !.spins = TRUE]

\* A read fails: the coroutine ends with the exception, and without counting itself out.
ReaderFails == dns.readers > 0

DnsEnvironment == DnsServerEnds \/ SudoEnds \/ ReaderEnds \/ ReaderSpins

-----------------------------------------------------------------------------
(* Stop(), in the steps between its suspensions, and HasTerminated(). *)

\* HasTerminated() finds the child alive, or reaps it and keeps its process id; dnsmasq
\* may have ended before it, or not.
HasTerminated == \E b \in BOOLEAN : dns' = [dns EXCEPT !.sudo = "reaped", !.server = b]

\* Kill(Terminate): what dnsmasq does about it is for it to decide.
StopBegins == dns.running /\ dns' = [dns EXCEPT !.running = FALSE]
NothingToStop == ~dns.running /\ UNCHANGED dns

AnyReader == dns.terminated > 0  \* a mutant: one reader is enough
ReadersDone == dns.terminated = 2

\* Kill(Kill), 5 s later: sudo cannot pass it on, and dnsmasq may live.
Killed == [dns EXCEPT !.sudo = IF dns.sudo = "alive" THEN "zombie" ELSE @]

\* process.Wait() reaps the child; one that is reaped already is not waited for.
Waited == [dns EXCEPT !.pid = FALSE, !.sudo = "reaped"]
=============================================================================
