SPECIFICATION Spec
CONSTANTS
    Requests = {r1, r2}
    Readers = {q1}
    LogEnabled = TRUE
    Disruptions <- NoDisruptions
    MaxClock = 2
    Refused = Refused
    None = None
    r1 = r1
    r2 = r2
    q1 = q1
SYMMETRY RequestSymmetry
INVARIANTS
    AtImmutable
