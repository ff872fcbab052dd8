SPECIFICATION Spec
CONSTANTS
    Ids = {b1}
    Courses = {k1, k2}
    Users = {u1}
    UserOne = u1
    Strangers = {}
    Threads = {t1}
    NoRow = NoRow
    NoId = NoId
    NoUser = NoUser
    Handlers = {"insert", "course"}
    MaxBatch = 1
    MaxRequests = 2
    MaxFaults = 0
PROPERTIES
    CourseInUseKept
