------------------------------- MODULE FifoLock -------------------------------
(***************************************************************************)
(* What CoMutex promises, seen by its clients: a lock handed over in the   *)
(* order in which it was asked for.  The head of the line owns it.         *)
(***************************************************************************)
EXTENDS Sequences

CONSTANT Clients

VARIABLES line,   \* those who asked for the lock and have not released it, in order
          void    \* the lock is no more; who was waiting is told so

lockVars == <<line, void>>

InLine(c) == \E i \in DOMAIN line : line[i] = c

Init == line = <<>> /\ void = FALSE

Request(c) == /\ ~void /\ ~InLine(c)
              /\ line' = Append(line, c) /\ UNCHANGED void
Release(c) == /\ ~void /\ line # <<>> /\ c = Head(line)
              /\ line' = Tail(line) /\ UNCHANGED void
Destroy    == ~void /\ void' = TRUE /\ line' = <<>>

Next == Destroy \/ \E c \in Clients : Request(c) \/ Release(c)

Spec == Init /\ [][Next]_lockVars
=============================================================================
