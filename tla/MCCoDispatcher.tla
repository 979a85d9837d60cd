---------------------------- MODULE MCCoDispatcher ----------------------------
(* CoDispatcher with a few things to run and a background thread that posts. *)
EXTENDS CoDispatcher

CONSTANTS h1, d1, f1, f2, a1

MCHandles == {h1}
MCDelayed == {d1}
MCFunctions == {f1, f2}
MCPosters == {a1}
MCDelays == {1, 2}

MCPrograms == {[driver |-> "MessageLoop", work |-> {h1, d1, f1}],
               [driver |-> "PumpMessages", work |-> {d1, f1, f2}],
               [driver |-> "SleepUntil", work |-> {h1, d1, f1}]}
=============================================================================
