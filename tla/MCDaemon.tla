------------------------------- MODULE MCDaemon -------------------------------
(* Two groups: that of the start and one that an event brings.  The second event says *)
(* that the interface is wrong, or removes a group.                                   *)
EXTENDS Daemon

CONSTANTS g1, g2

MCMaxEvents == [e \in Events |-> IF e \in {"wrong", "removed"} THEN 2 ELSE 1]

MCGroup == {g1, g2}
=============================================================================
