CONSTANTS
    s1 = s1
    s2 = s2
    Missing = Missing
    Invalid = Invalid
    NoData = NoData
    Servers <- MCServers
    SourceValues <- MCSourceValuesAll
    FilterKeep <- MCFilterKeep
    HandlerOKValues = {TRUE, FALSE}
    PolicyValues = {TRUE, FALSE}
    MaxHandlerCreationRetries = 3
    MaxSyncAttempts = 10
    MaxTrigger = 1
    MaxEdits = 2
    MaxFaults = 1
SPECIFICATION Spec
CONSTRAINT StateConstraint
INVARIANTS TypeOK ReadyHasStorage
PROPERTIES NoStoreDuringBackoff StoreOnlyUnderFinalizer
CHECK_DEADLOCK FALSE
