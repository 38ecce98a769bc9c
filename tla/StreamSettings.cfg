CONSTANTS
    Null = Null
    NaN = NaN
    Text = Text
    NoValue = Null
    NotANumber = Text
    Blank = Blank
    Inputs <- Weekend
    Engines <- ForStream
    Arguments <- SomeArguments
    Updates <- SomeUpdates
    Reasons <- SomeReasons
    MaxRecords = 3
SPECIFICATION Spec
INVARIANT StreamSettingsApply
CHECK_DEADLOCK FALSE
