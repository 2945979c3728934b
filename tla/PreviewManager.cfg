\* Two callers, the sweeper and the gateway on two projects with room for one preview, a provider that fails.
CONSTANTS
    c1 = c1  c2 = c2
    a = a  b = b
    v1 = v1  v2 = v2  v3 = v3
    None = None
    Caller = {c1, c2}
    Sweeper = Sweeper
    Project = {a, b}
    PreviewId = {v1, v2, v3}
    ProjectOf <- TwoProjects
    MaxActive = 1
    ProviderFails = TRUE
SPECIFICATION Spec
INVARIANTS
    RoutesAreCurrent
    ActiveBound
    StartUndisturbed
    NoForgottenRuntime
SYMMETRY Callers
CHECK_DEADLOCK FALSE
