--------------------------- MODULE IncidentClients ---------------------------
(***************************************************************************)
(* The statements the programs send to ops.incidents: those of             *)
(* agent/incidents.py, streamlit_app/incidents.py and smoke-tests.sh, each *)
(* with its WHERE clause, run against the schema's triggers and checks.    *)
(***************************************************************************)
EXTENDS IncidentSchema, FiniteSetsExt

CONSTANTS
    Target,       \* the transformation a failure names
    MaxIncidents  \* bound on the rows of ops.incidents

ASSUME ClientsAssumption == MaxIncidents \in Nat /\ Target # NULL

VARIABLE incidents  \* ops.incidents, a row per id

\* INSERT_INCIDENT leaves every column it does not name null.
Blank ==
    [state |-> "open", failing_run_id |-> NULL, failure_output |-> NULL,
     target_model_path |-> NULL, model_contents_before |-> NULL,
     model_contents_after |-> NULL, judge_review |-> NULL,
     judge_feedback |-> NULL, verifying_run_id |-> NULL, concluded |-> FALSE]

\* Mutated: the failure's output is not stored.
NewIncident_LosesOutput(run, output) == [Blank EXCEPT !.failing_run_id = run]

NewIncident(run, output) ==
    [Blank EXCEPT !.failing_run_id = run, !.failure_output = output]

\* in_flight(): the newest row that has not concluded, 0 for none.
Current == IF InFlight(incidents) = {} THEN 0 ELSE Max(InFlight(incidents))

At(i, state) == i \in DOMAIN incidents /\ incidents[i].state = state

OpenIncident(run, output) ==
    Inserted(incidents, NewIncident(run, output), incidents')

\* Mutated: before and after change places.
Proposed_Swapped(row, before, after, review) ==
    [row EXCEPT !.state = "proposed", !.target_model_path = Target,
                !.model_contents_before = after,
                !.model_contents_after = before, !.judge_review = review]

\* The columns a proposal sets.
Proposed(row, before, after, review) ==
    [row EXCEPT !.state = "proposed", !.target_model_path = Target,
                !.model_contents_before = before,
                !.model_contents_after = after, !.judge_review = review]

\* RECORD_PROPOSAL: the agent moves an open incident and no other.
RecordProposal(i, before, after, review) ==
    /\ incidents[i].state = "open"
    /\ Updated(incidents, i, Proposed(incidents[i], before, after, review),
               incidents')

ConcludeUnfixable(i) ==
    /\ incidents[i].state = "open"
    /\ Updated(incidents, i, [incidents[i] EXCEPT !.state = "unfixable"],
               incidents')

\* Mutated: without verifying_run_id IS NULL.
VerifyingRunUnset_AnyApproved(i) == incidents[i].state = "approved"

\* RECORD_VERIFYING_RUN refuses to replace a run already recorded.
VerifyingRunUnset(i) ==
    incidents[i].state = "approved" /\ incidents[i].verifying_run_id = NULL

RecordVerifyingRun(i, run) ==
    /\ VerifyingRunUnset(i)
    /\ Updated(incidents, i, [incidents[i] EXCEPT !.verifying_run_id = run],
               incidents')

\* RESOLVE and CONCLUDE_VERIFICATION_FAILED.
Conclude(i, ending) ==
    /\ incidents[i].state = "approved"
    /\ Updated(incidents, i, [incidents[i] EXCEPT !.state = ending], incidents')

\* Mutated: decides on whatever is in flight, not on the incident shown.
RecordDecision_Newest(i, decision, expected, feedback) ==
    /\ At(Current, expected)
    /\ Updated(incidents, Current,
               [incidents[Current] EXCEPT !.state = decision,
                                          !.judge_feedback = feedback],
               incidents')

\* Mutated: WHERE id alone.
RecordDecision_AnyState(i, decision, expected, feedback) ==
    /\ i \in DOMAIN incidents
    /\ Updated(incidents, i,
               [incidents[i] EXCEPT !.state = decision,
                                    !.judge_feedback = feedback],
               incidents')

\* RECORD_DECISION of the console: conditional on the state that was rendered.
RecordDecision(i, decision, expected, feedback) ==
    /\ incidents[i].state = expected
    /\ Updated(incidents, i,
               [incidents[i] EXCEPT !.state = decision,
                                    !.judge_feedback = feedback],
               incidents')

\* The smoke test overwrites the incident that is open or proposed with a
\* known-good fix and no review.
OverwriteProposal(i, before, after) ==
    /\ incidents[i].state \in {"open", "proposed"}
    /\ Updated(incidents, i,
               [Proposed(incidents[i], before, after, NULL)
                  EXCEPT !.judge_feedback = NULL],
               incidents')
=============================================================================
