----------------------------- MODULE MCDaemonStart -----------------------------
(* DaemonStart with its hosts and clients as model values. *)
EXTENDS DaemonStart
CONSTANTS h1, h2, c1, c2
=============================================================================
