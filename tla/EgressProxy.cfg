\* Three clients of a proxy for two, one allowed host, headers of one chunk and tunnels of two.
CONSTANTS
    c1 = c1  c2 = c2  c3 = c3
    registry = registry  other = other
    None = None  NoHost = NoHost
    Conn = {c1, c2, c3}
    Host = {registry, other}
    AllowedHosts = {registry}
    PortNo = {22, 443}
    AllowedPorts = {443}
    Answer <- Edges
    MaxConnections = 2
    MaxHeader = 1
    MaxBytes = 2
SPECIFICATION FairSpec
INVARIANTS
    CountIsExact
    PolicyIsExact
    NoOrphanUpstream
PROPERTIES
    StagesEnd
CHECK_DEADLOCK FALSE
