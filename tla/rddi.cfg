SPECIFICATION RddiFairSpec
CONSTANTS
    Requests <- MCRequests
    CountRange = 3
    MaxTransmit = 2
    WordBits = 2
    TdoWords = 3
INVARIANTS
    RddiTypeOK
    InOrder
    ReadsInPlace
    NoFalseError
    ParserAligned
    ChainCounted
    IdListWhole
    RddiInductive
PROPERTIES
    ImplementsRegSequence
    CallReturns
