SPECIFICATION FairSpec
CONSTANTS
    k1 = k1
    a1 = a1
    a2 = a2
    d1 = d1
    d2 = d2
    Courses = {k1}
    Activities = {a1, a2}
    Data = {d1, d2}
    NoRow = NoRow
    Patient = TRUE
    MaxCalls = 4
    MaxFaults = 1
INVARIANTS
    TypeOK
    DialogIsOpened
    ListUpToDate
    NoCaptchaInSession
PROPERTIES
    LoadingEnds
