SPECIFICATION FairSpec
CONSTANTS
    Ids = {b1, b2}
    Courses = {k1}
    Users = {u1}
    UserOne = u1
    Strangers = {}
    Threads = {t1, t2}
    NoRow = NoRow
    NoId = NoId
    NoUser = NoUser
    Handlers = {"insert", "update", "delete", "back", "gain", "convert"}
    MaxBatch = 2
    MaxRequests = 5
    MaxFaults = 1
INVARIANTS
    ContractXorBusiness
    NothingLost
PROPERTIES
    FollowsLife
    ConversionSettles
