SPECIFICATION Spec
CONSTANTS
    NULL = NULL
    Torn = Torn
    original = original
    fixed = fixed
    reworded = reworded
    Contents <- TwoTexts
    Buildable <- BuildableOfTwo
    Initial = original
    Corrected = fixed
    Target = stg_customers
    Tabs = {tab1}
    Assessments = {"agree"}
    MaxScheduled = 1
    MaxIncidents = 1
    MaxFixAttempts = 1
    MaxFaults = 0
    SmokeRuns = 0
INVARIANTS
    OutcomeIsAboutTheFix
