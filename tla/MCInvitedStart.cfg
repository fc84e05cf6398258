SPECIFICATION AccessSpec
CONSTANTS
    p1 = p1
    p2 = p2
    Person = {boss, p1}
    Boss = {boss}
    Name = {n1}
    Phone = {f1}
    NoName = NoName
    NoPhone = NoPhone
    NoAccount = NoAccount
PROPERTY InvitedStartActivates
