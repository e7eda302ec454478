CONSTANTS
    None = None
    NoRow = NoRow
    u1 = u1
    u2 = u2
    admin = admin
    a1 = a1
    a2 = a2
    a3 = a3
    b1 = b1
    b2 = b2
    c1 = c1
    Rec = {a1, a2, a3, b1, b2, c1}
    Attr <- MCAttr
    m1 = m1
    m2 = m2
    Related <- MCRelated
    LimitRelated = 1
    Sessions <- MCSessions
    Clients <- MCClients
    InitialRows <- MCInitialRows
    Batches <- MCBatches
    Proc = {p1, p2}
    MaxRequests = 2
    Resources <- MCResources
    Titled = {"list"}
    ByName <- MCByName
    ById <- MCById
    Ties <- MCTies
    PageSize = 1
    MaxDuring = 1
SYMMETRY MCSymmetry
SPECIFICATION ListingSpec
INVARIANTS PagesComplete FindOnlyReadable RelatedAsAsked RelatedBounded
PROPERTIES RecordsAsPromised
