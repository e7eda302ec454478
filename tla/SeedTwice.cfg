CONSTANTS
    Proc = {m1}
    Waiter = {w}
    NoProc = NoProc
    Ttl = 2
    MaxWait = 2
    MaxHold = 1
    MaxFaults = 0
    MaxDbFaults = 0
    Schemas = 2
    ConnectStep = 1
    WaitStep = 1
SPECIFICATION FairSchemaSpec
INVARIANTS SeedsOnlyBlank
