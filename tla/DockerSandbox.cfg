\* A sandbox of every purpose, every docker outcome, one death of the process.
CONSTANTS
    None = None
    Purposes <- Every
    MaxDeaths = 1
SPECIFICATION FairSpec
INVARIANTS
    CleanupIsComplete
    ResultIsTrue
PROPERTIES
    FailsClosed
    EverySandboxEnds
CHECK_DEADLOCK FALSE
