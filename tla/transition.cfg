SPECIFICATION FairSpec
CONSTANTS
    a = a
    b = b
    Keys = {a, b}
    None = None
    Setups <- Usual
    EarlyDone = FALSE
    MaxToggles = 4
CHECK_DEADLOCK FALSE
INVARIANTS
    OneWay
    Bare
    SettledShows
    OutBeforeIn
PROPERTIES
    EachEnds
