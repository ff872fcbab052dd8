SPECIFICATION Spec
CONSTANTS
    Ids = {b1, b2}
    Courses = {k1}
    Users = {u1}
    UserOne = u1
    Strangers = {x1}
    Threads = {t1}
    NoRow = NoRow
    NoId = NoId
    NoUser = NoUser
    Handlers = {"insert", "delete", "assign", "convert", "contract", "course"}
    MaxBatch = 2
    MaxRequests = 5
    MaxFaults = 1
SYMMETRY Symmetry
INVARIANTS
    TypeOK
    OneContractPerBusiness
PROPERTIES
    AssignedExists
