CONSTANTS
    Proc = {p1}
    Limits = {2}
    Default = 1
    Ttl = 2
    NoRow = NoRow
    Nobody = Nobody
SPECIFICATION GrantsSpec
INVARIANTS EditTakesEffect
