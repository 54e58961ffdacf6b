--------------------------- MODULE MCBackpressure ---------------------------
(* Backpressure for model checking: the constants are all in the .cfg files. *)
EXTENDS Backpressure
=============================================================================
