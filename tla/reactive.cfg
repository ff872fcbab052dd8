SPECIFICATION FairSpec
CONSTANTS
    a = a
    b = b
    Keys = {a, b}
    Undefined = Undefined
    Objects <- PageObjects
    N = 3
    Initial = 2
    Kind <- PageKind
    Program <- PageProgram
    Reaction <- PageReaction
    Nothing = Nothing
    Ticks = {t1}
    MaxUpdateCount = 1
    MaxEdits = 2
    MaxThrows = 1
INVARIANTS
    TypeOK
    ComputedFresh
    SettledFresh
    SubsAgree
    TickAfterUpdate
PROPERTIES
    QueueImplements
    FlushEnds
