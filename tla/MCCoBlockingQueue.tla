-------------------------- MODULE MCCoBlockingQueue --------------------------
(* CoBlockingQueue with a few clients of each kind. *)
EXTENDS CoBlockingQueue

CONSTANTS p1, p2, t1, t2, t3, k1

MCPushers == {p1, p2}
MCTakers == {t1, t2, t3}
MCClosers == {k1}
MCTimed == {p1, t1}
MCBackground == {p2, k1}

\* A pusher with a timeout, and a taker on a pool thread.
MCTimedPusher == {p1}
MCPoolTaker == {t2}
=============================================================================
