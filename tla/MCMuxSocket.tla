------------------------------ MODULE MCMuxSocket ------------------------------
(* Instances of MuxSocket for TLC: the configurations give all the constants. *)
EXTENDS MuxSocket

=============================================================================
