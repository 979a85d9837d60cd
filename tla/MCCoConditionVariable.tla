------------------------ MODULE MCCoConditionVariable ------------------------
(* CoConditionVariable with up to three waits and three operations. *)
EXTENDS CoConditionVariable

CONSTANTS w1, w2, w3, n1, n2, n3

MCWaiters == {w1, w2, w3}
MCNotifiers == {n1, n2, n3}

\* Everything runs on the foreground thread, with timeouts, or on several threads,
\* without.
MCForeground(condition) ==
  [waits |-> MCWaiters, pool |-> {}, timed |-> {w1, w2}, past |-> {w3}, background |-> {},
   condition |-> condition]
MCBackground(condition) ==
  [waits |-> MCWaiters, pool |-> {w2}, timed |-> {}, past |-> {}, background |-> {n1, n2},
   condition |-> condition]

\* Waits with timeouts, one of them on a pool thread, are notified on other threads,
\* as the operations of CoFile are on the thread of epoll_wait(); or the timeout of a
\* wait has passed when it begins.
MCRacing(condition) ==
  [waits |-> {w1, w2}, pool |-> {w2}, timed |-> {w1, w2}, past |-> {}, background |-> {n1, n2},
   condition |-> condition]
MCRacingPast ==
  [waits |-> {w1, w2}, pool |-> {w2}, timed |-> {}, past |-> {w2}, background |-> {n1},
   condition |-> "tokens"]

MCUses ==
  {MCRacingPast}
    \cup UNION {{MCForeground(c), MCBackground(c), MCRacing(c)} : c \in {"tokens", "ready"}}

\* A wait on a pool thread whose timeout has passed, and another with a timeout: the use
\* under which TLC refutes NoLockCycle.
MCCrossingUses == {[waits |-> {w1, w2}, pool |-> {w2}, timed |-> {w1}, past |-> {w2},
                    background |-> {}, condition |-> "tokens"]}
=============================================================================
