------------------------------ MODULE MCCoMutex ------------------------------
(* CoMutex shared by five coroutines, or four. *)
EXTENDS CoMutex

CONSTANTS c1, c2, c3, c4, c5

MCClients4 == {c1, c2, c3, c4}
MCClients5 == {c1, c2, c3, c4, c5}
=============================================================================
