CONSTANTS
    s1 = s1
    s2 = s2
    Missing = Missing
    Invalid = Invalid
    NoData = NoData
    Servers <- MCServers
    FilterKeep <- MCFilterKeep
    MaxHandlerCreationRetries = 3
    MaxSyncAttempts = 10
    SourceValues <- MCSourceValuesAll
    HandlerOKValues = {TRUE, FALSE}
    PolicyValues = {TRUE, FALSE}
    MaxTrigger = 1
    MaxEdits = 1
    MaxFaults = 0
SPECIFICATION Spec
CONSTRAINT StateConstraint
PROPERTY OneAttemptPerFailedSync
CHECK_DEADLOCK FALSE
