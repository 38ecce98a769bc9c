CONSTANTS
    Instruments = {aapl}
    Mapped = {aapl}
    HistoryStart <- FromZero
    LookbackDays = 1
    TradingDays = {0, 1, 2}
    BufferDays = 1
    MaxGapDays = 1
    BatchSizeDays = 1
    BackfillChunkDays = 2
    Reloaded = {}
    Restated = {}
    RestatedRange <- AnyRange
    Overridden = {}
    OverriddenRange <- AnyRange
    Extended = {}
    ExtendedStart = 0
    Priority <- SourceList
    Registered = {"ibkr", "ibinsync", "yahoo"}
    Production = {"ibkr", "ibinsync"}
    Setups = {"spark", "csv", "legacy"}
    Prices = {0, 1, 2}
    Ranges <- Island
    Faults = {"read", "write", "fetch", "crash"}
    MaxDay = 2
    Revisable = {1}
    MaxRevisions = 1
    MaxFaults = 2
SPECIFICATION FairSpec
INVARIANTS HolesHaveACause UnrevisedOnce
PROPERTIES AnswersAreStored SuspensionHolds CatchesUp
