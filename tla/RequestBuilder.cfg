CONSTANTS
    Dates <- SomeDates
    BatchSizes <- SomeSizes
    BackfillChunkDays = 4
SPECIFICATION BuilderSpec
INVARIANTS EveryDayOnce ComputesChunks
CHECK_DEADLOCK FALSE
