CONSTANTS
    i1 = i1
    Instruments <- One
    Mapped <- One
    HistoryStart <- FromDay0
    LookbackDays = 1
    TradingDays <- AllDays
    BufferDays = 1
    MaxGapDays = 2
    BatchSizeDays = 3
    BackfillChunkDays = 1
    Reloaded <- Nobody
    Restated <- Nobody
    RestatedRange <- NoRange
    Overridden <- Nobody
    OverriddenRange <- NoRange
    Extended <- Nobody
    ExtendedStart = 1
    MaxBatches = 2
    MaxDay = 1
    MaxCrashes = 0
    VendorDays <- SinceDay0
    InvalidDays <- AllValid
    RevisedDays <- Nobody
    Suspendable <- Nobody
    KeysMatch = FALSE
    JobsOverlap = FALSE
    Faults <- Nobody
    MaxAttempts = 1
    ListLimit = 2
SPECIFICATION Spec
INVARIANT FailedDaysReplanned
