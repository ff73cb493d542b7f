CONSTANTS
    Width <- MCWidth
    Allowlist <- MCAllowlist
    Configs <- MCConfigs
    ForeignConfigs <- MCForeignConfigs
    ServerSecret = 1
    MAX_TCP_CLIENT_HELLO_WIRE_LEN = 13
    OwnHello <- MCOwnHello
    ForeignHellos <- MCForeignHellos
    ForeignFrames <- MCForeignFrames
    AUTH_MAX_FRAME = 13
    KeyUpdateInterval = 2
    PacketSizes = {0, 2, 15, 16}
    MaxSends = 2
CHECK_DEADLOCK FALSE
SPECIFICATION Spec
INVARIANTS
    ClaimsAreGenuine
    ChannelIsSound
    EndsAgree
PROPERTIES
    ImplementsPipe
