SPECIFICATION DeploySafety
CONSTANTS
    User = {u1, u2}
    Key <- MCKey
    Call = {c1, c2}
    NoCall = NoCall
    NoUser = NoUser
    NoKey = NoKey
    Project = {p1, p2}
    Repo = {r1}
    Kind = {server, pages}
    Server = server
    Admin = {u2}
    HasToken = {u1}
    Hosted = {r1}
    Deletion = {d1}
    MaxSha = 2
    Absent = Absent
SYMMETRY Symmetry
INVARIANTS
    RecordsFollowRuns
    HistoryBelongsToProjects
    ShownUrlIsReal
    OneRunPerProject
    CoordinatorInv
    ExclusiveDeployments
PROPERTIES
    RefusedOnlyWhenBusy
    ImplementsHistory
