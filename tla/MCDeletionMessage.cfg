SPECIFICATION DeploySafety
CONSTANTS
    User = {u1}
    Key <- MCKey
    Call = {c1, c2}
    NoCall = NoCall
    NoUser = NoUser
    NoKey = NoKey
    Project = {p1}
    Repo = {r1}
    Kind = {server, pages}
    Server = server
    Admin = {}
    HasToken = {u1}
    Hosted = {r1}
    Deletion = {d1}
    MaxSha = 1
    Absent = Absent
INVARIANTS
    DeletedMeansRemoved
