-------------------------- MODULE MCMirrorConnection --------------------------
(* Instances of MirrorConnection for TLC. *)
EXTENDS MirrorConnection

=============================================================================
