SPECIFICATION ServiceSpec
CONSTANTS
    attempt = attempt
    retry = retry
    other = other
    c1 = c1
    c2 = c2
    Requests <- MCRequests
    Content <- MCContent
    LogEnabled = TRUE
    MaxLog = 3
    PageLimit = 2
    Refused = Refused
    NoOne = NoOne
    Docs <- MCDocs
    Builds = {b1}
    b1 = b1
    Faults <- MCFaults
    Journaled = TRUE
    FileStore = TRUE
    MaxSnapshots = 3
    MaxLines = 3
    Garbled = Garbled
    BadUtf8 = BadUtf8
    BlankLine = BlankLine
    Absent = Absent
    Scrap = Scrap
    None = None
SYMMETRY AttemptSymmetry
INVARIANTS
    ServiceTypeOK
    AnsweredServed
    OneRecordEach
    AnchorsKept
    PagesExact
