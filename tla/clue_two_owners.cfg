SPECIFICATION Spec
CONSTANTS
    Ids = {c1}
    Users = {u1, u2}
    Strangers = {}
    Threads = {t1, t2}
    NoRow = NoRow
    NoUser = NoUser
    Handlers = {"assign"}
    Entered = {"1"}
    MaxBatch = 1
    MaxRecords = 2
    MaxRequests = 2
    MaxFaults = 0
INVARIANTS
    OneLatestOwner
SYMMETRY Symmetry
