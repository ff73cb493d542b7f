SPECIFICATION FairSpec
CONSTANTS
    EnableUpgrade = TRUE
    RequireUdp = {FALSE, TRUE}
    CollidingCids = {2}
    RejectsAutoCipher = {FALSE, TRUE}
    MAX_STALE_UPGRADE_IDS = 1
    MaxCids = 2
    MaxKeys = 3
    MaxRetries = 0
CHECK_DEADLOCK FALSE
PROPERTIES
    SwitchesSettle
    RequiredUdpIsReached
