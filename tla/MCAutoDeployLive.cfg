SPECIFICATION MCAutoSpec
CONSTANTS
    c1 = c1
    c2 = c2
    User = {u1}
    Key <- MCKey
    Call = {c1, c2}
    NoCall = NoCall
    NoUser = NoUser
    NoKey = NoKey
    Project = {p1}
    Repo = {r1}
    Kind = {server}
    Server = server
    Admin = {}
    HasToken = {u1}
    Hosted = {r1}
    Deletion = {}
    MaxSha = 2
    Absent = Absent
    Served = {u1}
PROPERTIES
    WorkerComesBack
    PushesAreNoticed
