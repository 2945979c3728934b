\* Fair threads and a provider that answers.
CONSTANTS
    c1 = c1  c2 = c2
    a = a  b = b
    v1 = v1  v2 = v2  v3 = v3
    None = None
    Caller = {c1, c2}
    Sweeper = Sweeper
    Project = {a}
    PreviewId = {v1, v2}
    ProjectOf <- TwoProjects
    MaxActive = 1
    ProviderFails = FALSE
SPECIFICATION FairSpec
PROPERTIES
    StartEnds
    SweepNotices
CHECK_DEADLOCK FALSE
