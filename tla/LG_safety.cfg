CONSTANTS
    s1 = s1
    s2 = s2
    Missing = Missing
    Invalid = Invalid
    NoData = NoData
    Servers <- LgServers
    SourceValues <- LgSourceValuesAll
    PolicyValues = {TRUE, FALSE}
    MaxEdits = 2
    MaxFaults = 1
SPECIFICATION Spec
CONSTRAINT LgStateConstraint
INVARIANTS TypeOK ReadyStorageMatchesHash ConditionsMatchPhase
PROPERTY PublicationRefined
CHECK_DEADLOCK FALSE
