SPECIFICATION Spec
CONSTANTS
    Ids = {c1}
    Users = {u1, u2}
    Strangers = {}
    Threads = {t1}
    NoRow = NoRow
    NoUser = NoUser
    Handlers = {"assign", "false"}
    Entered = {"2"}
    MaxBatch = 1
    MaxRecords = 1
    MaxRequests = 5
    MaxFaults = 0
INVARIANTS
    MarksWithinMax
SYMMETRY Symmetry
