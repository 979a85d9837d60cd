--------------------------- MODULE MCWpaSupplicant ---------------------------
(* A channel with its keep-alive and one or two other callers. *)
EXTENDS WpaSupplicant

CONSTANTS ping, user

MCCallers == {ping, user}
=============================================================================
