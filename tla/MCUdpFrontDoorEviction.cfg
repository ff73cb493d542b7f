CONSTANTS
    u1 = u1
    u2 = u2
    u3 = u3
    x1 = x1
    s1 = s1
    s2 = s2
    s3 = s3
    i1 = i1
    i2 = i2
    Peer = {u1, u2, u3}
    Prefix = {x1}
    Session = {s1, s2, s3}
    Ip = {i1, i2}
    SessionIp <- MCSessionIp
    None = None
    MaxEntries = 2
    QueueSize = 1
    MaxTokens = 3
    Mixed = FALSE
SPECIFICATION Spec
CHECK_DEADLOCK FALSE
INVARIANT
    EvictionEndsReader
