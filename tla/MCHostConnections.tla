--------------------------- MODULE MCHostConnections ---------------------------
(* HostConnections with its connections as model values and three kinds of record. *)
EXTENDS HostConnections
CONSTANTS c1
MCRecords == {[stream |-> "stdout", ends |-> FALSE], [stream |-> "stdout", ends |-> TRUE],
              [stream |-> "stderr", ends |-> FALSE]}
=============================================================================
