--------------------------- MODULE MCWorkflowRuns ---------------------------
(***************************************************************************)
(* Instances of WorkflowRuns for TLC: one run, whose step `test' comes     *)
(* after `build' and may fail, and a job of another run that competes for  *)
(* the slots of the sandbox.                                               *)
(***************************************************************************)
EXTENDS WorkflowRuns

CONSTANTS r1, build, test, other

MCRuns == {r1}
MCJobIds == {build, test, other}
MCSteps == {build, test}
MCRunOf == [j \in Steps |-> r1]
MCNeeds == [j \in Steps |-> IF j = test THEN {build} ELSE {}]
MCAllowFailure == Steps \cap {test}
=============================================================================
