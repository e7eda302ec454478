CONSTANTS
    Proc = {p1, p2, p3}
    Limits = {0, 3}
    Notify = 50
    Period = 2
    NoKey = NoKey
    MaxDrops = 1
SPECIFICATION FairQuotaSpec
INVARIANTS QuotaTypeOK OverdrawBounded NoticedOnce
PROPERTIES AccessReturns
