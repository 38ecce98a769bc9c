CONSTANTS
    i1 = i1
    Instruments <- One
    Mapped <- One
    HistoryStart <- FromDay1
    LookbackDays = 1
    TradingDays <- EveryDay
    BufferDays = 1
    MaxGapDays = 2
    BatchSizeDays = 3
    BackfillChunkDays = 3
    Reloaded <- Nobody
    Restated <- Nobody
    RestatedRange <- NoRange
    Overridden <- Nobody
    OverriddenRange <- NoRange
    Extended <- Nobody
    ExtendedStart = 1
    MaxBatches = 2
    MaxDay = 2
    MaxCrashes = 0
    VendorDays <- EveryBar
    InvalidDays <- FirstBad
    RevisedDays <- EveryDay
    Suspendable <- One
    KeysMatch = TRUE
    JobsOverlap = TRUE
    Faults <- AllFaults
    MaxAttempts = 1
    ListLimit = 2
SPECIFICATION Spec
INVARIANTS TypeOK OneBatchInFlight NoUntrackedWork ReceiptNotLost
