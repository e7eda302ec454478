CONSTANTS
    Proc = {p1, p2, p3}
    NoProc = NoProc
    Ttl = 2
    MaxWait = 2
    MaxHold = 3
    MaxFaults = 2
SPECIFICATION FairSpec
INVARIANTS MutualExclusion
PROPERTIES Implements AcquireReturns LockRecovers
