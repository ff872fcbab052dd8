SPECIFICATION FairSpec
CONSTANTS
    Ids = {c1, c2}
    Users = {u1, u2}
    Strangers = {x1}
    Threads = {t1}
    NoRow = NoRow
    NoUser = NoUser
    Handlers = {"assign", "false"}
    Entered = {"1", "2"}
    MaxBatch = 2
    MaxRecords = 6
    MaxRequests = 3
    MaxFaults = 1
INVARIANTS
    TypeOK
    OneLatestOwner
    TracksCounted
PROPERTIES
    AssignmentSettles
