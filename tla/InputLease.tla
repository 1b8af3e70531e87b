------------------------------ MODULE InputLease ------------------------------
(***************************************************************************)
(* What the worker promises the clients of one PTY: any number may watch,  *)
(* at most one holds its input, and who has left never comes back (a       *)
(* stream id is used once).                                                *)
(***************************************************************************)
CONSTANT Streams

VARIABLE role   \* what each stream is to the session

Roles == {"waiting", "holding", "watching", "gone"}
Holders == {s \in Streams : role[s] = "holding"}

Init == role = [s \in Streams |-> "waiting"]

Becomes(s, from, to) == role[s] \in from /\ role' = [role EXCEPT ![s] = to]

Grant(s)  == Holders = {} /\ Becomes(s, {"waiting"}, "holding")
Watch(s)  == Becomes(s, {"waiting"}, "watching")
Refuse(s) == Holders # {} /\ Becomes(s, {"waiting"}, "gone")
Leave(s)  == Becomes(s, {"holding", "watching"}, "gone")

Next == \E s \in Streams : Grant(s) \/ Watch(s) \/ Refuse(s) \/ Leave(s)
Spec == Init /\ [][Next]_role
=============================================================================
