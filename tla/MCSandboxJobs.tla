--------------------------- MODULE MCSandboxJobs ---------------------------
(***************************************************************************)
(* Instances of SandboxJobs for TLC: two steps of one workflow run, whose  *)
(* ids share the prefix `<run_id>:', or one job re-posted for ever.        *)
(***************************************************************************)
EXTENDS SandboxJobs

CONSTANTS r1a, r1b, d1

MCJobIds == {r1a, r1b}
MCCallbackIds == {r1a}
MCNoCallbackIds == {}
MCPrefixes == {{r1a, r1b}}
MCDeleters == {d1}
=============================================================================
