CONSTANTS
    s1 = s1
    s2 = s2
    Missing = Missing
    Invalid = Invalid
    NoData = NoData
    Servers <- LgServers
    SourceValues <- LgSourceValuesData
    PolicyValues = {TRUE}
    MaxEdits = 2
    MaxFaults = 1
SPECIFICATION FairSpec
PROPERTIES SyncsToSource DeletionCompletes
CHECK_DEADLOCK FALSE
