CONSTANTS
    i1 = i1
    r1 = r1
    Instruments <- One
    Classifiers <- OneRun
    Prices <- Closes
    FirstPrices <- Start
    Restatements <- Moves
    PriceWired = TRUE
    YahooHistory <- History
    Raising = {"dismiss", "command", "select"}
    LostReplies = {"update"}
    MaxDay = 3
    MaxDetections = 2
    MaxCrashes = 1
SPECIFICATION FairSpec
INVARIANTS OneOpenCandidate ClassifiedIsBacked FactorFitsPrices LoggedOncePerAttempt
PROPERTIES CandidateIsDecided
CHECK_DEADLOCK FALSE
