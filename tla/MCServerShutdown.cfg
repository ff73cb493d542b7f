SPECIFICATION FairServerSpec
CONSTANTS
    c1 = c1
    p1 = p1
    x1 = x1
    x2 = x2
    Client <- MCClient
    Ip <- MCIp
    AssignedIp <- MCAssignedIp
    Prefix <- MCPrefix
    NoClient = NoClient
    NoPrefix = NoPrefix
    MaxSessions = 2
    Conn <- MCConn
    WorkerOrder <- MCWorkerOrder
    MaxAuthInflight = 1
CHECK_DEADLOCK FALSE
INVARIANTS
    CleanReturn
    ErrorIsReported
PROPERTIES
    StopsAreObeyed
