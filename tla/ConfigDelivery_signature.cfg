CONSTANTS
    Nothing = Nothing
    NoId = NoId
    Versions = {1, 2}
    SwitchScopes <- WholeApp
    Fetches = {1}
    MaxEvents = 2
SPECIFICATION ConfigSpec
INVARIANTS ServedConfigLoads
CHECK_DEADLOCK FALSE
