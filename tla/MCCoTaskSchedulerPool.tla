------------------------ MODULE MCCoTaskSchedulerPool ------------------------
(* CoTaskSchedulerPool with a pool of one to three threads. *)
EXTENDS CoTaskSchedulerPool

CONSTANTS t1, t2, t3, t4, h1, h2

MCThreads == {t1, t2, t3, t4}
MCHandles == {h1, h2}
MCSizes == {1, 2, 3}
=============================================================================
