\* A window and a batch of two bytes, a ring of one: every limit is reached
\* within a few bytes.
SPECIFICATION FairSpec
CONSTANTS
    CreditHigh = 2
    MaxOffset = 4
    AckIds = {a1, a2}
    MaxBytes = 3
    MaxChunk = 1
    AggCap = 2
    RingCap = 1
    DrainChunk = 1
    NoticeLen = 1
    MaxFocusCmds = 2
INVARIANTS
    BytesAccounted
    TruncationPending
    FrontendInStep
PROPERTIES
    StreamSpec
    ForegroundDelivers
