CONSTANTS
    x = x
    Id = {u1, u2}
    Token = {t1, t2}
    SuffixOf <- MCSuffixOf
    Roles = {user, member}
    LoginRoles = {user}
    NoSession = NoSession
    RedisTtl = 2
    MaxTtl = 3
    MaxTime = 4
    Proc = {p1, p2}
    Durations <- MCDurations
SYMMETRY MCSymmetry
SPECIFICATION SessionSpec
INVARIANTS SessionTypeOK LogoutHolds AdmittedByLogin SessionsIntact
PROPERTIES LoginEvictsNobody
