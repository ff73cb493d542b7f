SPECIFICATION Spec
CONSTANTS
    AddrBits = 3
    TicksPerMilli = 2
    MAX_TIMEOUT = 7200000
    MAX_TUN_MTU = 1406
    ETHERNET_IP_MTU = 1500
    WrapperOverhead = 94
    U64 = 16777216
    LAST_INSTANT = 268435456
    Proc = {1, 2}
    Inode = {1, 2, 3}
    ClientId = {1, 2, 3, 4}
    Wildcard = {"*.example"}
    NewServer <- MCNewServer
    Habit <- MCHabit
CHECK_DEADLOCK FALSE
INVARIANTS
    
    AddedClientIsAccepted
    AcceptedConfigRuns
