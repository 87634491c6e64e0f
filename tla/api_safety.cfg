SPECIFICATION Spec
CONSTANTS
    Requests = {r1, r2, r3}
    Readers = {q1}
    LogEnabled = TRUE
    Disruptions <- AllDisruptions
    MaxClock = 1
    Refused = Refused
    None = None
    r1 = r1
    r2 = r2
    r3 = r3
    q1 = q1
SYMMETRY RequestSymmetry
INVARIANTS
    TypeOK
    NoConflict
    Accounted
    ReceiptBinds
    LogAccounted
