CONSTANTS
    s1 = s1
    s2 = s2
    Missing = Missing
    Invalid = Invalid
    NoData = NoData
    Servers <- LgServers
    SourceValues <- LgSourceValuesOne
    PolicyValues = {FALSE}
    MaxEdits = 0
    MaxFaults = 0
SPECIFICATION FairSpec
PROPERTY SyncsToSource
CHECK_DEADLOCK FALSE
