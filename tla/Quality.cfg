CONSTANTS
    Null = Null
    NaN = NaN
    Text = Text
    NoValue = Null
    NotANumber = Text
    Blank = Blank
    Inputs <- AllInputs
    Engines <- Both
    Arguments <- SomeArguments
    Updates <- SomeUpdates
    Reasons <- SomeReasons
    MaxRecords = 3
SPECIFICATION Spec
INVARIANTS WrittenIsTradable WrittenIsRecordOrFlagged AlertIffFiveDaysMissing
CHECK_DEADLOCK FALSE
