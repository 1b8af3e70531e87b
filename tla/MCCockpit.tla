------------------------------ MODULE MCCockpit ------------------------------
(* Cockpit with sessions of two workspaces: a daemon and two agents at home, a daemon elsewhere. *)
EXTENDS Cockpit
CONSTANTS d1, d2, a1, a2, home, elsewhere
MCPlace == [s \in {d1, d2, a1, a2} |-> IF s = d2 THEN elsewhere ELSE home]
MCOrder == <<d1, d2, a1, a2>>
MCIds == (1 .. MaxLaunches) \X (1 .. 4)
=============================================================================
