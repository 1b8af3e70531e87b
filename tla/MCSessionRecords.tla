--------------------------- MODULE MCSessionRecords ---------------------------
(* SessionRecords with its clients as model values, which are interchangeable. *)
EXTENDS SessionRecords, TLC
CONSTANTS c1, c2, k1
ClientSymmetry == Permutations({c1, c2})
=============================================================================
