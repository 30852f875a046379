SPECIFICATION Spec
CONSTANTS
    NULL = NULL
    Torn = Torn
    original = original
    fixed = fixed
    reworded = reworded
    Contents <- ThreeTexts
    Buildable <- MCBuildable
    Initial = original
    Corrected = fixed
    Target = stg_customers
    Tabs = {tab1}
    Assessments = {"agree"}
    MaxScheduled = 2
    MaxIncidents = 2
    MaxFixAttempts = 1
    MaxFaults = 0
    SmokeRuns = 0
INVARIANTS
    TypeOK
    ShownDifferenceIsReal
    ResolvedRunReadTheFix
