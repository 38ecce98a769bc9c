CONSTANTS
    i1 = i1
    Instruments <- One
    Mapped <- One
    HistoryStart <- FromDay1
    LookbackDays = 1
    TradingDays <- EveryDay
    BufferDays = 1
    MaxGapDays = 1
    BatchSizeDays = 3
    BackfillChunkDays = 3
    Reloaded <- Nobody
    Restated <- Nobody
    RestatedRange <- NoRange
    Overridden <- Nobody
    OverriddenRange <- NoRange
    Extended <- One
    ExtendedStart = 0
    MaxBatches = 3
    MaxDay = 2
    MaxCrashes = 1
    VendorDays <- NotOnDay1
    InvalidDays <- AllValid
    RevisedDays <- Nobody
    Suspendable <- Nobody
    KeysMatch = FALSE
    JobsOverlap = FALSE
    Faults <- Nobody
    MaxAttempts = 1
    ListLimit = 2
SPECIFICATION Spec
INVARIANTS OrphanNotQueued IngestedIsComplete WatermarkHasNoHoles FailedLoadsReplanned NoRepeatedAppend InitialLoadOnce
PROPERTIES FollowsLifecycle WatermarkOnlyWidens
