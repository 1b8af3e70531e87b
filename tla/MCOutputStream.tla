---------------------------- MODULE MCOutputStream ----------------------------
(* OutputStream with its observers as model values. *)
EXTENDS OutputStream
CONSTANTS o1
=============================================================================
