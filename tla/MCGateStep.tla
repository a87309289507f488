----------------------------- MODULE MCGateStep -----------------------------
(* Instances of GateStep for TLC. *)
EXTENDS GateStep

CONSTANTS main, g1

MCBases == {main}
MCGates == {g1}
MCNoBase == {{}}
=============================================================================
