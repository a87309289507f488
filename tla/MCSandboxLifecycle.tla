------------------------ MODULE MCSandboxLifecycle ------------------------
(* Instances of SandboxLifecycle for TLC. *)
EXTENDS SandboxLifecycle

CONSTANT s1

MCNames == {s1}
=============================================================================
