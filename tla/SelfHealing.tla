----------------------------- MODULE SelfHealing -----------------------------
(***************************************************************************)
(* The whole loop: the pipeline breaks, the agent diagnoses and proposes,  *)
(* the operator decides in a browser tab, the agent applies what was       *)
(* approved and verifies it against a run it started.  The parts meet only *)
(* in ops.incidents, in the transformation file and in Airflow's runs.     *)
(***************************************************************************)
EXTENDS Agent, Console, SmokeTest

\* The null of a column is no value of one, and the script's text is complete.
ASSUME SelfHealingAssumption ==
    /\ NULL \notin Nat \cup States \cup Feedbacks \cup Failures \cup Reviews
    /\ Corrected \in Contents

vars == <<incidents, pipelineVars, agentVars, consoleVars, smoke>>

Init ==
    /\ incidents = <<>>
    /\ PipelineInit
    /\ AgentInit
    /\ ConsoleInit
    /\ SmokeInit

AgentStep == Node /\ UNCHANGED <<source, landing, consoleVars, smoke>>

AgentFault == Fault /\ UNCHANGED <<source, landing, consoleVars, smoke>>

PipelineStep ==
    /\ Drift \/ Schedule \/ \E r \in DOMAIN runs : RunStep(r)
    /\ UNCHANGED <<incidents, agentVars, consoleVars, smoke>>

TimePasses(r) ==
    AgeRun(r) /\ UNCHANGED <<incidents, agentVars, consoleVars, smoke>>

OperatorStep ==
    /\ \E tab \in Tabs :
          \/ Render(tab)
          \/ \E decision \in {"approved", "rejected"},
                choice \in Assessments \cup {NULL} : Decide(tab, decision, choice)
    /\ UNCHANGED <<pipelineVars, agentVars, smoke>>

\* The approval the script gives is for the text it prepared.
SmokeStep ==
    /\ \/ CloseApproved /\ UNCHANGED shown
       \/ CountInFlight /\ UNCHANGED shown
       \/ InsertIncident(0) /\ UNCHANGED shown
       \/ Overwrite(project) /\ UNCHANGED shown
       \/ /\ Approve
          /\ shown' = IF incidents' = incidents THEN shown
                      ELSE shown \cup {<<Current, Corrected>>}
    /\ UNCHANGED <<pipelineVars, agentVars, pages>>

\* With the table full and nothing in flight the model has run out of incidents.
OutOfIncidents ==
    /\ Current = 0 /\ Len(incidents) = MaxIncidents
    /\ UNCHANGED vars

Next ==
    \/ AgentStep
    \/ AgentFault
    \/ PipelineStep
    \/ \E r \in DOMAIN runs : TimePasses(r)
    \/ OperatorStep
    \/ SmokeStep
    \/ OutOfIncidents

Spec == Init /\ [][Next]_vars

\* The agent polls for ever (main.py while True), and the clock runs.  Nothing
\* is assumed of the operator, of the pipeline or of Airflow's scheduler.
Fairness ==
    /\ WF_vars(AgentStep)
    /\ \A r \in 1..(MaxScheduled + MaxIncidents + MaxFaults) :
          WF_vars(r \in DOMAIN runs /\ TimePasses(r))

FairSpec == Spec /\ Fairness
-----------------------------------------------------------------------------
Row ==
    [state : States, failing_run_id : Nat, failure_output : Failures,
     target_model_path : {Target, NULL},
     model_contents_before : Contents \cup {Torn, NULL},
     model_contents_after : Contents \cup {NULL},
     judge_review : Reviews \cup {NULL},
     judge_feedback : Feedbacks \cup {NULL},
     verifying_run_id : Nat \cup {NULL}, concluded : BOOLEAN]

Nodes == {"route_on_state", "idle", "detect_failure", "fetch_failure_log",
          "inspect_schema", "diagnose", "record_incident", "resume_incident",
          "propose_fix", "validate_candidate", "judge_proposal",
          "record_proposal", "give_up", "load_approved", "apply_fix",
          "write_text", "trigger_rerun", "record_verifying_run",
          "verify_success", "conclude"}

Pass ==
    [run_id : Nat, failure_output : Failures \cup {NULL},
     model_sql : Contents \cup {Torn, NULL}, incident_id : Nat, attempts : Nat,
     candidate_sql : Contents \cup {NULL}, judge_review : Reviews \cup {NULL},
     contents_to_write : Contents \cup {NULL},
     verifying_run_id : Nat \cup {NULL}, verdict : Verdicts \cup {NULL}]

Page == [id : Nat, state : States \cup {NULL}, after : Contents \cup {NULL},
         judge_review : Reviews \cup {NULL}]

\* Every column, field and page holds a value of its kind.
TypeOK ==
    /\ incidents \in Seq(Row)
    /\ source \in Shapes /\ landing \in Shapes \cup {NULL}
    /\ project \in Contents \cup {Torn}
    /\ runs \in Seq(Run)
    /\ pc \in Nodes /\ pass \in Pass /\ faults \in 0..MaxFaults
    /\ built \in SUBSET (Nat \X Contents) /\ tried \in Nat
    /\ pages \in [Tabs -> Page]
    /\ shown \in SUBSET (Nat \X Contents)

Decided == {"approved", "resolved", "verification_failed"}

\* The console tells the operator the agent "has already built this
\* successfully": every fix on offer, or decided on, passed validation for that
\* incident.
OfferedFixesWereBuilt ==
    \A i \in DOMAIN incidents :
       incidents[i].state \in Decided \cup {"proposed", "rejected"} =>
          <<i, incidents[i].model_contents_after>> \in built

\* "What the operator approves and what would be written cannot diverge": an
\* approved incident carries the text that was on the screen that approved it.
ApprovedIsWhatWasShown ==
    \A i \in DOMAIN incidents :
       incidents[i].state \in Decided =>
          <<i, incidents[i].model_contents_after>> \in shown

\* The before side of the difference on screen is the file as it is: nothing
\* wrote the project between the agent's reading and the operator's decision.
ShownDifferenceIsReal ==
    \A i \in DOMAIN incidents :
       incidents[i].state = "proposed" =>
          incidents[i].model_contents_before = project

\* A half-written file is always still owned by an approved incident with no
\* verifying run, so the next pass writes it again before any run is judged.
TornFileIsRepaired ==
    project = Torn =>
       \E i \in DOMAIN incidents : VerifyingRunUnset(i)

\* ADR-0024: an incident is resolved only by a run that was started for it,
\* read the approved text and succeeded.
ResolvedRunReadTheFix ==
    \A i \in DOMAIN incidents :
       incidents[i].state = "resolved" =>
          LET run == runs[incidents[i].verifying_run_id]
          IN /\ run.trigger = "manual"
             /\ run.state = "success"
             /\ run.read = incidents[i].model_contents_after

\* ADR-0024 says more: a recorded outcome, good or bad, is always about the
\* fix that was applied.
OutcomeIsAboutTheFix ==
    \A i \in DOMAIN incidents :
       incidents[i].state \in {"resolved", "verification_failed"} =>
          runs[incidents[i].verifying_run_id].read
             = incidents[i].model_contents_after

\* A run proves one incident: no two incidents watch the same run, and the
\* run watched was created after the one that failed.
EachProofIsItsOwn ==
    \A i \in DOMAIN incidents :
       incidents[i].verifying_run_id # NULL =>
          /\ incidents[i].failing_run_id < incidents[i].verifying_run_id
          /\ \A j \in DOMAIN incidents \ {i} :
                incidents[j].verifying_run_id # incidents[i].verifying_run_id

\* ADR-0024's price for an unrecorded trigger is a spare run and no more: the
\* agent starts one run per approval and one more per fault at most.
SpareRunsAreBounded ==
    Cardinality(RunsOf("manual")) <=
       Cardinality({i \in DOMAIN incidents : incidents[i].state \in Decided})
          + faults

\* A decided incident carries the operator's assessment of its review when the
\* review was completed, and no assessment of a review that was not: the page
\* asks for it and the trigger of 05-judge-review.sh insists on it.
ReviewsAreAssessed ==
    \A i \in DOMAIN incidents :
       incidents[i].state \in Decided \cup {"rejected"} =>
          (incidents[i].judge_review = "completed")
             = (incidents[i].judge_feedback # NULL)

\* Every pass has its own budget of candidates, so only a fault buys an
\* incident another one.
TriesPaidByFaults == tried <= MaxFixAttempts * (1 + faults)

\* The retry is bounded (docs/AGENT-LLD.md section 10): an incident sees
\* max_fix_attempts candidates and no more.
RetriesAreBounded == tried <= MaxFixAttempts

\* Nothing acts without an approval: the file changes and a run is triggered
\* only while an approved incident waits for its verifying run, and what is
\* written is its text.
NothingActsUnapproved ==
    [][\/ project' = project /\ RunsOf("manual")' = RunsOf("manual")
       \/ \E i \in DOMAIN incidents :
             /\ VerifyingRunUnset(i)
             /\ project' \in {project, Torn, incidents[i].model_contents_after}]_vars

\* Once recorded, the run being watched is never replaced, whatever faults
\* make the agent trigger again.
WatchedRunIsKept ==
    [][\A i \in DOMAIN incidents :
          incidents[i].verifying_run_id # NULL =>
             incidents'[i].verifying_run_id = incidents[i].verifying_run_id]_vars

\* An approved incident reaches an outcome, even if its run never finishes: it
\* cannot hold the only place in flight for ever.
ApprovalsConclude ==
    \A i \in 1..MaxIncidents :
       At(i, "approved") ~> \E ending \in Verdicts : At(i, ending)

\* A diagnosed incident is offered for a decision or given up with a reason.
OpenIncidentsMoveOn ==
    \A i \in 1..MaxIncidents :
       At(i, "open") ~> At(i, "proposed") \/ At(i, "unfixable")

Unrecorded ==
    /\ Current = 0
    /\ Len(incidents) < MaxIncidents
    /\ LatestRun # 0
    /\ runs[LatestRun].state = "failed"
    /\ runs[LatestRun].failure = "model"

\* A failure of the transformation with nothing in flight is noticed, unless a
\* newer run hides it first.
FailuresAreNoticed == Unrecorded ~> ~Unrecorded
-----------------------------------------------------------------------------
Phase(state) ==
    CASE state = "open" -> "noticed"
      [] state = "proposed" -> "offered"
      [] state = "approved" -> "granted"
      [] OTHER -> "closed"

Gate == INSTANCE ApprovalGate WITH
    NoFix <- NULL,
    disk <- project,
    ledger <- [i \in DOMAIN incidents |->
                 [phase |-> Phase(incidents[i].state),
                  fix |-> incidents[i].model_contents_after]]

\* The system implements the approval gate.
ImplementsGate == Gate!GateSpec
=============================================================================
