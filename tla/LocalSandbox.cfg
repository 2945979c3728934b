\* A command that writes more than the pipe and the limit take, and a server.
CONSTANTS
    None = None
    Purposes <- Both
    Output = 5
    OutputBytes = 2
    PipeSize = 2
SPECIFICATION FairSpec
INVARIANTS
    OutcomeIsTrue
PROPERTIES
    RunsEnd
CHECK_DEADLOCK FALSE
