SPECIFICATION Spec
CONSTANTS
    EnableUpgrade = TRUE
    RequireUdp = {FALSE}
    CollidingCids = {}
    RejectsAutoCipher = {FALSE}
    MAX_STALE_UPGRADE_IDS = 1
    MaxCids = 2
    MaxKeys = 2
    MaxRetries = 1
CHECK_DEADLOCK FALSE
INVARIANTS
    UdpStateIsBacked
    SwitchIsAgreed
    KeysAgree
    ServerSeesNoViolation
PROPERTIES
    MakeBeforeBreak
