SPECIFICATION FairSpec
CONSTANTS
    NULL = NULL
    Torn = Torn
    original = original
    fixed = fixed
    reworded = reworded
    Contents <- ThreeTexts
    Buildable <- MCBuildable
    Initial = original
    Corrected = fixed
    Target = stg_customers
    Tabs = {tab1, tab2}
    Assessments = {"agree"}
    MaxScheduled = 1
    MaxIncidents = 2
    MaxFixAttempts = 1
    MaxFaults = 0
    SmokeRuns = 0
INVARIANTS
    ApprovedIsWhatWasShown
    ReviewsAreAssessed
PROPERTIES
    FailuresAreNoticed
