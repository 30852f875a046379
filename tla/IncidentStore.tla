---------------------------- MODULE IncidentStore ----------------------------
(***************************************************************************)
(* The incident record under any writer.  ADR-0016 puts the lifecycle in   *)
(* the database so that it holds "regardless of what either consumer gets  *)
(* wrong": here a writer may attempt any INSERT and any UPDATE of any row, *)
(* and a step is an attempt the schema accepts.  A refused statement rolls *)
(* back and leaves the table as it was, so it is a stuttering step.        *)
(***************************************************************************)
EXTENDS IncidentSchema

CONSTANTS
    Models,        \* transformation paths a row may name
    Contents,      \* file contents a row may carry
    Reviews,       \* values of judge_review->>'status'
    StateTexts,    \* texts a writer may put in the state column
    FeedbackTexts, \* texts a writer may put in judge_feedback
    MaxIncidents   \* bound on the number of rows

ASSUME StoreAssumption ==
    /\ States \subseteq StateTexts
    /\ Feedbacks \subseteq FeedbackTexts
    /\ NULL \notin Feedbacks
    /\ MaxIncidents \in Nat

VARIABLES
    incidents,  \* ops.incidents, a row per id
    seen        \* history: the states each row has been stored in

vars == <<incidents, seen>>

\* The columns some constraint reads.
Columns(states, feedbacks) ==
    [state : states,
     target_model_path : Models \cup {NULL},
     model_contents_after : Contents \cup {NULL},
     judge_review : Reviews \cup {NULL},
     judge_feedback : feedbacks \cup {NULL},
     concluded : BOOLEAN]

Row == Columns(States, Feedbacks)
Attempt == Columns(StateTexts, FeedbackTexts)

Init == incidents = <<>> /\ seen = <<>>

Insert ==
    /\ Len(incidents) < MaxIncidents
    /\ \E row \in Attempt :
          /\ Inserted(incidents, row, incidents')
          /\ seen' = Append(seen, {row.state})

Update(i) ==
    \E new \in Attempt :
       /\ Updated(incidents, i, new, incidents')
       /\ seen' = [seen EXCEPT ![i] = @ \cup {new.state}]

Next == Insert \/ \E i \in DOMAIN incidents : Update(i)

Spec == Init /\ [][Next]_vars
-----------------------------------------------------------------------------
\* Every stored row has known texts only, whatever texts writers attempt: the
\* incident_state_must_be_known and judge_feedback checks of the table.
TypeOK ==
    /\ incidents \in Seq(Row)
    /\ seen \in Seq(SUBSET States)
    /\ Len(seen) = Len(incidents)

\* Only the newest row can be in flight: the index allows one, and no earlier
\* row can come back.  It is what lets in_flight() stop at one row
\* (agent/incidents.py OPEN_INCIDENT) and the smoke test look at the last id.
OnlyTheNewestIsInFlight == \A i \in InFlight(incidents) : i = Len(incidents)

\* The road to each ending: nothing is resolved or fails verification without
\* having been proposed and then approved, nothing the operator declined was
\* ever approved, and what was given up was never offered.
EndingsFollowTheirRoad ==
    \A i \in DOMAIN incidents :
       /\ incidents[i].state \in {"approved", "resolved", "verification_failed"}
            => {"open", "proposed", "approved"} \subseteq seen[i]
       /\ incidents[i].state = "rejected" =>
            "proposed" \in seen[i] /\ "approved" \notin seen[i]
       /\ incidents[i].state = "unfixable" => "proposed" \notin seen[i]

\* A concluded incident stays concluded, in the state it concluded in, and its
\* conclusion time is never taken back.
ConcludedStaysConcluded ==
    [][\A i \in DOMAIN incidents :
          incidents[i].state \in Terminal =>
             /\ i \in DOMAIN incidents'
             /\ incidents'[i].state = incidents[i].state
             /\ incidents'[i].concluded]_vars
=============================================================================
