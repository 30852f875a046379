SPECIFICATION FairSpec
CONSTANTS
    NULL = NULL
    SeedRows = 2
    BatchSize = 2
    Triggers = {trigger1, trigger2}
    MaxBatches = 3
    MaxCrashes = 1
INVARIANTS
    SeedAndBatches
    BatchMatchesTheTable
    OneTriggerRenames
    StaleNamesLandOnce
    OneBatchFails
PROPERTIES
    BatchesKeepArriving
