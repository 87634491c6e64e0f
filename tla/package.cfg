SPECIFICATION Spec
CONSTANTS
    TimeText <- MCTimeText
    TimeOf <- MCTimeOf
    Null = Null
    Missing = Missing
    Malformed = Malformed
    Empty = Empty
    Unsigned = Unsigned
    ServiceId = ServiceId
    Due = 1
    Submissions <- MCSubmissions
    Instants <- MCInstants
    Receipts <- MCReceipts
    Settings <- MCSettings
    FieldValues <- MCFieldValues
    MaxAlterations = 1
    MinSeedBytes = 2
    DefaultDevSeed <- MCDefaultDevSeed
    Rejected = Rejected
    None = None
    p1 = p1
    p2 = p2
    h1 = h1
    h2 = h2
    l1 = l1
    l2 = l2
INVARIANTS
    LineReplays
    OnlyAsSealed
    NamedKeyDecides
    SignatureCovers
    ReceiptKept
    CommitmentTrue
    OperatorsKey
