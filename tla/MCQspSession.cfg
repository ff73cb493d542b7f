SPECIFICATION Spec
CONSTANTS
    PnBase = 4
    PnMax = 511
    PN_REPLAY_WINDOW = 3
    KEY_UPDATE_INTERVAL = 6
    KEY_UPDATE_LATE_MARGIN = 2
    PnStarts <- MCStarts
    MaxPackets = 8
    a1 = a1
    a2 = a2
    SocketAddr <- MCTwoAddrs
SYMMETRY Symmetry
INVARIANTS
    NoReplayAccepted
    PendingPacketOpens
    GenerationsAgree
    PeerFollowsNewest
