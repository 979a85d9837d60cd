----------------------------- MODULE MCCoService -----------------------------
(* CoService on a service awaited on the foreground thread and one awaited on  *)
(* a pool thread, which may also ask for a negative timeout.                  *)
EXTENDS CoService

CONSTANTS f1, p1

MCServices2 == {f1, p1}
MCPool == {p1}
MCPast == {p1}
MCNoPast == {}
=============================================================================
