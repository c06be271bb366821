CONSTANTS
    MaxSyncAttempts = 10
    MaxHandlerCreationRetries = 3
    MaxStreak = 12
SPECIFICATION Spec
INVARIANTS TypeOK IntervalMatchesSpecFormula
