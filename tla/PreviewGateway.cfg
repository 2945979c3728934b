\* Two previews with one run each on one port, two requests to the first and one to the second.
CONSTANTS
    p1 = p1  p2 = p2
    q1 = q1  q2 = q2  q3 = q3
    x1 = x1  x2 = x2
    n1 = n1
    None = None
    Request = {q1, q2, q3}
    Preview = {p1, p2}
    PreviewOf <- FirstTwo
    Relay = {x1, x2}
    Port = {n1}
    MaxRequests = 1
    MaxRelay = 1
SPECIFICATION FairSpec
INVARIANTS
    NeverAnothersApp
    PermitsAddUp
PROPERTIES
    EverythingEnds
CHECK_DEADLOCK FALSE
