CONSTANTS
    c1 = c1
    c2 = c2
    c3 = c3
    Conn = {c1, c2, c3}
    NoConn = NoConn
    Cap = 2
    ScanLimit = 2
    ScanPasses = 2
    Arrival = {"Incomplete", "Pass"}
    Completion = {"Claim"}
SPECIFICATION Spec
SYMMETRY Symmetry
CHECK_DEADLOCK FALSE
INVARIANTS
    SlotsAreCounted
    TableIsSound
PROPERTIES
    ImplementsAdmission
