CONSTANTS
    Proc = {p1}
    Limits = {3}
    Notify = 0
    Period = 2
    NoKey = NoKey
    MaxDrops = 1
SPECIFICATION FairQuotaSpec
PROPERTIES DeniedUntilExpiry
