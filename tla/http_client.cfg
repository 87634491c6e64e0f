SPECIFICATION FairSpec
CONSTANTS
    Responses <- AllResponses
    Receipts <- ReceiptBodies
    Bytes <- AllBytes
    BufSize = 4
    Incomplete = Incomplete
    None = None
CHECK_DEADLOCK FALSE
INVARIANTS
    TypeOK
    RightBody
    NoFalseEnd
    NeverWaitsForMore
    HonestAnchoring
PROPERTIES
    Ended
