SPECIFICATION Spec
CONSTANTS
    c1 = c1
    c2 = c2
    p1 = p1
    p2 = p2
    Client <- MCClient
    Ip <- MCIp
    AssignedIp <- MCAssignedIp
    Prefix <- MCPrefix
    NoClient = NoClient
    NoPrefix = NoPrefix
    MaxSessions = 3
SYMMETRY MCPrefixSymmetry
CHECK_DEADLOCK FALSE
INVARIANTS
    RoutesAreOwned
    CurrentSessionIsReachable
    ReplacedIsNotified
    DrainedIsEmpty
PROPERTIES
    RoutesAreNotStolen
