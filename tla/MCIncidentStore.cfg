SPECIFICATION Spec
CONSTANTS
    NULL = NULL
    Models = {stg_customers}
    Contents = {corrected}
    Reviews = {"completed", "unavailable"}
    StateTexts <- MCStateTexts
    FeedbackTexts <- MCFeedbackTexts
    MaxIncidents = 2
INVARIANTS
    TypeOK
    OnlyTheNewestIsInFlight
    EndingsFollowTheirRoad
PROPERTY
    ConcludedStaysConcluded
