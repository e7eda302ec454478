CONSTANTS
    Proc = {m1, m2}
    Waiter = {w}
    NoProc = NoProc
    Ttl = 2
    MaxWait = 2
    MaxHold = 2
    MaxFaults = 1
    MaxDbFaults = 1
    Schemas = 2
    ConnectStep = 1
    WaitStep = 1
SPECIFICATION FairSchemaSpec
INVARIANTS SchemaTypeOK UpMeansCurrent SeedsCurrentSchemas
PROPERTIES WaitEnds
