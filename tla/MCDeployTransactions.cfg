SPECIFICATION TransactionsSpec
CONSTANTS
    User = {u1}
    Key <- MCKey
    Call = {c1, c2}
    NoCall = NoCall
    NoUser = NoUser
    NoKey = NoKey
    Kind = {server, pages}
    Other = {o1}
    Absent = Absent
    NoSession = NoSession
SYMMETRY Symmetry
INVARIANTS
    TransactionsInv
    RecordsTellTheRun
    NobodyIsStuck
PROPERTIES
    SuccessIsSaved
    MixtureNeedsARace
    ImplementsHistory
