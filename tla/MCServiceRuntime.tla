---------------------------- MODULE MCServiceRuntime ----------------------------
(* Instances of ServiceRuntime for TLC. *)
EXTENDS ServiceRuntime

CONSTANTS k1, k2, r1, r2, c1, c2

MCKey == {k1}
MCKeys == {k1, k2}
MCTwoRes == {r1, r2}
MCNoKey == {}
MCNoRes == {}
MCCall == {c1, c2}

=============================================================================
