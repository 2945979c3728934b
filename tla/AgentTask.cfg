\* Two tasks of one workspace with two iterations each, a pool of one thread, a disk that fails.
CONSTANTS
    t1 = t1  t2 = t2
    w1 = w1
    None = None
    Task = {t1, t2}
    Workspace = {w1}
    WorkspaceOf <- OneWorkspace
    MaxIterations = 2
    MaxRetries = 1
    PoolSize = 1
    DiskFails = TRUE
SPECIFICATION FairSpec
INVARIANTS
    SnapshotPrecedesEdits
    ChangesetIsExact
    CancelIsPrompt
PROPERTIES
    RecordFollowsGraph
    ImplementsLease
    TaskEnds
CHECK_DEADLOCK FALSE
