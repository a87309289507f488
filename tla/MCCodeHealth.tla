---------------------------- MODULE MCCodeHealth ----------------------------
(* Instances of CodeHealth for TLC. *)
EXTENDS CodeHealth

CONSTANT main

MCBases == {main}
=============================================================================
