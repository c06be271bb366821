CONSTANTS
    s1 = s1
    s2 = s2
    Missing = Missing
    Invalid = Invalid
    NoData = NoData
    Servers <- MCServers
    FilterKeep <- MCFilterKeep
    MaxHandlerCreationRetries = 3
    MaxSyncAttempts = 10
    SourceValues <- MCSourceValuesData
    HandlerOKValues = {TRUE}
    PolicyValues = {FALSE}
    MaxTrigger = 1
    MaxEdits = 1
    MaxFaults = 0
SPECIFICATION FairSpec
PROPERTY ConvergesToSource
CHECK_DEADLOCK FALSE
