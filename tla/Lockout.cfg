CONSTANTS
    Proc = {p1}
    Interval = 4
    Limit = 2
SPECIFICATION FairRateSpec
PROPERTIES LockoutLasts
