\* Fair scheduling, a provider that answers.
CONSTANTS
    c1 = c1  c2 = c2
    r1 = r1  r2 = r2
    w1 = w1
    None = None
    Caller = {c1, c2}
    RuntimeId = {r1}
    Workspace = {w1}
    WorkspaceOf <- OneWorkspace
    Ops = {"create", "start", "stop", "kill", "destroy", "restart", "health", "reconcile", "orphans"}
    ProviderFails = FALSE
    MaxCrashes = 0
SPECIFICATION FairSpec
PROPERTIES
    OperationsEnd
    LifetimeEnforced
CHECK_DEADLOCK FALSE
