SPECIFICATION Spec
CONSTANTS
    Packet <- MCPacket
    Foreign = 9
    Sizes <- MCSizes
    ControlSize = 1
    SocketMaxGso = 3
    MAX_UDP_GSO_PAYLOAD = 5
    QueueSize = 1
    NetSize = 2
CHECK_DEADLOCK FALSE
INVARIANTS
    DatagramsArriveWhole
    SlabIsSound
PROPERTIES
    BatchesAreSent
