\* Two threads, two source files, a credential and node_modules, one snapshot, two faults, one death.
CONSTANTS
    t1 = t1  t2 = t2
    a = a  b = b  env = env  modules = modules  dist = dist
    s1 = s1  s2 = s2
    None = None  Gone = Gone
    Thread = {t1, t2}
    Source = {a, b}
    Secret = {env}
    Derived = {modules, dist}
    SnapshotId = {s1}
    Size = {1}
    MaxProjectSize = 3
    MaxFiles = 4
    MaxSnapshots = 1
    MaxStorage = 1
    MaxFaults = 2
    MaxDeaths = 1
    SandboxWrites = TRUE
SPECIFICATION Spec
INVARIANTS
    RestoreIsAtomic
    SnapshotIsOneMoment
    NothingIsLost
    QuotasHold
SYMMETRY Swaps
CHECK_DEADLOCK FALSE
