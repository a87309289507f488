SPECIFICATION FairWorkflowSpec
CONSTANTS
    r1 = r1
    build = build
    test = test
    other = other
    JobIds <- MCJobIds
    Steps <- MCSteps
    MaxRunning = 1
    MaxKept = 3
    Runs <- MCRuns
    RunOf <- MCRunOf
    Needs <- MCNeeds
    AllowFailure <- MCAllowFailure
    MaxAttempts = 2
    MaxResets = 1
INVARIANTS
    WorkflowTypeOK
    StartedAfterNeeds
    ScriptOnceWhileKnown
PROPERTIES
    RunSettles
    ImplementsPlan
CHECK_DEADLOCK FALSE
