SPECIFICATION Spec
CONSTANTS
    Docs = {d1, d2}
    Builds = {b1}
    Faults <- TornLineFaults
    Journaled = TRUE
    FileStore = TRUE
    MaxSnapshots = 3
    MaxLines = 3
    d1 = d1
    d2 = d2
    b1 = b1
    Garbled = Garbled
    BadUtf8 = BadUtf8
    BlankLine = BlankLine
    Absent = Absent
    Scrap = Scrap
    None = None
SYMMETRY DocSymmetry
INVARIANTS
    ServedForever
