SPECIFICATION FairSpec
CONSTANTS
    NULL = NULL
    shipped = shipped
    corrected = corrected
    narrowed = narrowed
    dim = dim
    widened = widened
    StagingTexts <- MCStaging
    MartTexts <- MCMarts
    Fits <- MCFits
    Feeds <- MCFeeds
    Shipped <- MCShipped
    MaxValidations = 3
    MaxExtracts = 2
    MaxFaults = 2
INVARIANTS
    TypeOK
    LeavesNothingBehind
    NothingCarriesOver
    OutputIsThePipelines
    BuiltMeansTheWholeProject
PROPERTIES
    NeitherWaitsForEver
