SPECIFICATION FairSpec
CONSTANTS
    NULL = NULL
    Target = stg_customers
    Contents = {corrected}
    Tabs = {tab1, tab2}
    Callers = {tab1, tab2}
    Assessments = {"agree"}
    MaxIncidents = 1
    MaxRuns = 1
    MaxExpiries = 1
    MaxOutages = 1
INVARIANTS
    TypeOK
    ThanksAreTrue
    DenialsAreTrue
    DecisionsHoldStill
PROPERTIES
    LoneCallsOutliveAnExpiry
    PagesFollowConsole
    ProposalsComeUp
