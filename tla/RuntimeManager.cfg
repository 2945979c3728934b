\* Two callers and two generations of one workspace; a provider that fails; the process dies once,
\* and orphan recovery runs at its next startup.
CONSTANTS
    c1 = c1  c2 = c2
    r1 = r1  r2 = r2
    w1 = w1
    None = None
    Caller = {c1, c2}
    RuntimeId = {r1, r2}
    Workspace = {w1}
    WorkspaceOf <- OneWorkspace
    Ops = {"create", "start", "destroy", "restart", "health"}
    ProviderFails = TRUE
    MaxCrashes = 1
SPECIFICATION Spec
INVARIANTS
    OneSandboxPerWorkspace
    NoLeakedLease
    DestroyedLeavesNothing
PROPERTIES
    MovesFollowGraph
    ImplementsLease
SYMMETRY Callers
CHECK_DEADLOCK FALSE
