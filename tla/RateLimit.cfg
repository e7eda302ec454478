CONSTANTS
    Proc = {p1, p2, p3}
    Interval = 3
    Limit = 2
SPECIFICATION FairRateSpec
INVARIANTS RateTypeOK CountersBounded IntervalBounded
PROPERTIES RefusedForCause CountersVanish
