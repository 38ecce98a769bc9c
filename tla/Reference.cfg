CONSTANTS
    a = a
    b = b
    spy = spy
    Nothing = Nothing
    Symbols <- Three
    Holdings <- Held
    Identified <- Shares
    NasdaqListed <- NoLines
    OtherListed <- NoLines
    EtfOnly = TRUE
    Seeds <- Spy
    Wanted <- Active
    AsEquity <- Spy
    Faults <- Nobody
    MaxDay = 2
    MaxCrashes = 1
    Seeders <- TwoRuns
    Doubtful <- Spy
    MaxRequests = 2
SPECIFICATION Spec
INVARIANTS NothingRefersToUnlisted UniverseIsUnambiguous OneSymbolPerInstrument OneCurrentMapping AppendedOnce
CHECK_DEADLOCK FALSE
