------------------------------ MODULE MCCoTask ------------------------------
(* CoTask with three coroutines and two threads. *)
EXTENDS CoTask

CONSTANTS a, b, c, p1, p2

MCTasks == {a, b, c}
MCPoolThreads == {p1, p2}
=============================================================================
