SPECIFICATION FairSpec
CONSTANTS
    Ids = {c1}
    Users = {u1, u2}
    Strangers = {}
    Threads = {t1, t2}
    NoRow = NoRow
    NoUser = NoUser
    Handlers = {"assign", "false", "edit"}
    Entered = {"2"}
    MaxBatch = 2
    MaxRecords = 2
    MaxRequests = 5
    MaxFaults = 0
INVARIANTS
    NewestIsLatest
    BatchRecorded
    ExpiredHasEnd
PROPERTIES
    AssignmentSettles
