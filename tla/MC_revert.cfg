CONSTANTS
    s1 = s1
    s2 = s2
    Missing = Missing
    Invalid = Invalid
    NoData = NoData
    Servers <- MCServers
    FilterKeep <- MCFilterKeep
    MaxHandlerCreationRetries = 3
    MaxSyncAttempts = 10
    SourceValues <- MCSourceValuesData
    HandlerOKValues = {TRUE}
    PolicyValues = {TRUE}
    MaxTrigger = 0
    MaxEdits = 2
    MaxFaults = 1
SPECIFICATION FairSpec
PROPERTY StorageMatchesSyncHash
CHECK_DEADLOCK FALSE
