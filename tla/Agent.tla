-------------------------------- MODULE Agent --------------------------------
(***************************************************************************)
(* The agent: agent/main.py calls the graph of agent/graph.py over and     *)
(* over, one pass at a time, and a pass starts with nothing in memory.     *)
(* pc is the node about to run, pass what the pass has accumulated         *)
(* (AgentState).  A node that reads the world and then writes to it has a  *)
(* step for each, because the world moves in between.                      *)
(*                                                                         *)
(* An exception in a node and a crash of the process leave the same thing  *)
(* behind: the pass is gone and the next one starts from the record.       *)
(* Both are Fault, MaxFaults of them in all.                               *)
(***************************************************************************)
EXTENDS IncidentClients, Pipeline

CONSTANTS
    MaxFixAttempts,  \* settings.max_fix_attempts
    MaxFaults        \* bound on exceptions, lost answers and crashes

ASSUME AgentAssumption ==
    /\ MaxFixAttempts \in Nat \ {0}
    /\ MaxFaults \in Nat

VARIABLES
    pc,      \* the node about to run
    pass,    \* AgentState of the pass
    faults,  \* faults so far
    built,   \* history: <<incident, text>> for each text that passed validation
    tried    \* history: candidates written for the newest incident

agentVars == <<pc, pass, faults, built, tried>>
history == <<built, tried>>

\* The judge's review has a status; a judge that fails leaves "unavailable".
Reviews == {"completed", "unavailable"}

Verdicts == {"resolved", "verification_failed"}

\* graph.invoke({}): the state a pass starts with.
FreshPass ==
    [run_id |-> 0, failure_output |-> NULL, model_sql |-> NULL,
     incident_id |-> 0, attempts |-> 0, candidate_sql |-> NULL,
     judge_review |-> NULL, contents_to_write |-> NULL,
     verifying_run_id |-> NULL, verdict |-> NULL]

EndPass == pc' = "route_on_state" /\ pass' = FreshPass

GoTo(node) == pc' = node /\ UNCHANGED pass

AgentInit ==
    /\ pc = "route_on_state"
    /\ pass = FreshPass
    /\ faults = 0
    /\ built = {}
    /\ tried = 0

-----------------------------------------------------------------------------
(* Routing *)

\* Mutated: an open incident is left alone, like a proposed one.
Branch_OpenIdles ==
    CASE Current = 0 -> "detect_failure"
      [] At(Current, "approved") -> "load_approved"
      [] OTHER -> "idle"

\* choose_branch.
Branch ==
    CASE Current = 0 -> "detect_failure"
      [] At(Current, "open") -> "resume_incident"
      [] At(Current, "approved") -> "load_approved"
      [] OTHER -> "idle"

\* MaxIncidents stops the agent from looking for failures once the table is
\* full.
RouteOnState ==
    /\ pc = "route_on_state"
    /\ Branch = "detect_failure" => Len(incidents) < MaxIncidents
    /\ GoTo(Branch)
    /\ UNCHANGED <<incidents, project, runs, faults, history>>

Idle ==
    /\ pc = "idle"
    /\ EndPass
    /\ UNCHANGED <<incidents, project, runs, faults, history>>

-----------------------------------------------------------------------------
(* Diagnosing a failure nothing has recorded *)

\* Mutated: looks at scheduled runs only.
FailureToDiagnose_ScheduledOnly ==
    /\ LatestRun # 0
    /\ runs[LatestRun].trigger = "scheduled"
    /\ runs[LatestRun].state = "failed"
    /\ runs[LatestRun].failure # "no_task"

FailureToDiagnose ==
    /\ LatestRun # 0
    /\ runs[LatestRun].state = "failed"
    /\ runs[LatestRun].failure # "no_task"

\* latest_run, then failed_task: only a failed run with a failed task goes on.
DetectFailure ==
    /\ pc = "detect_failure"
    /\ \/ /\ FailureToDiagnose
          /\ pass' = [pass EXCEPT !.run_id = LatestRun]
          /\ pc' = "fetch_failure_log"
       \/ ~FailureToDiagnose /\ EndPass
    /\ UNCHANGED <<incidents, project, runs, faults, history>>

FetchFailureLog ==
    /\ pc = "fetch_failure_log"
    /\ pass' = [pass EXCEPT !.failure_output = runs[pass.run_id].failure]
    /\ pc' = "inspect_schema"
    /\ UNCHANGED <<incidents, project, runs, faults, history>>

\* A log that names no transformation ends the pass, and so does an empty
\* model file, which a torn write may have left.
InspectSchema ==
    /\ pc = "inspect_schema"
    /\ \/ /\ pass.failure_output = "model"
          /\ pass' = [pass EXCEPT !.model_sql = project]
          /\ pc' = "diagnose"
       \/ /\ pass.failure_output # "model" \/ project = Torn
          /\ EndPass
    /\ UNCHANGED <<incidents, project, runs, faults, history>>

\* The first model call; it diagnoses or raises (Fault).
DiagnoseFailure ==
    /\ pc = "diagnose"
    /\ GoTo("record_incident")
    /\ UNCHANGED <<incidents, project, runs, faults, history>>

\* The INSERT is refused when another incident took the place in flight.
RecordIncident ==
    /\ pc = "record_incident"
    /\ \/ /\ Len(incidents) < MaxIncidents
          /\ OpenIncident(pass.run_id, pass.failure_output)
          /\ pass' = [pass EXCEPT !.incident_id = Len(incidents')]
          /\ pc' = "propose_fix"
          /\ tried' = 0
       \/ /\ Current # 0
          /\ EndPass
          /\ UNCHANGED <<incidents, tried>>
    /\ UNCHANGED <<project, runs, faults, built>>

-----------------------------------------------------------------------------
(* Resuming an incident nobody proposed for *)

\* The record is read again, so the incident routed on may have moved.  An
\* output that names no transformation is a refusal, and so is anything that
\* goes wrong reading the diagnosis or the file; a refusal gives up.
ResumeIncident ==
    /\ pc = "resume_incident"
    /\ \/ /\ At(Current, "open")
          /\ incidents[Current].failure_output = "model"
          /\ pass' = [pass EXCEPT !.incident_id = Current,
                                  !.failure_output = "model",
                                  !.run_id = incidents[Current].failing_run_id,
                                  !.model_sql = project]
          /\ pc' = "propose_fix"
          /\ UNCHANGED faults
       \/ /\ At(Current, "open")
          /\ incidents[Current].failure_output # "model"
          /\ pass' = [pass EXCEPT !.incident_id = Current]
          /\ pc' = "give_up"
          /\ UNCHANGED faults
       \/ /\ At(Current, "open")
          /\ faults < MaxFaults
          /\ faults' = faults + 1
          /\ pass' = [pass EXCEPT !.incident_id = Current]
          /\ pc' = "give_up"
       \/ /\ ~At(Current, "open") \/ project = Torn
          /\ EndPass
          /\ UNCHANGED faults
    /\ UNCHANGED <<incidents, project, runs, history>>

-----------------------------------------------------------------------------
(* Proposing: a candidate, built before it is offered *)

ProposeFix ==
    /\ pc = "propose_fix"
    /\ \E text \in Contents :
          pass' = [pass EXCEPT !.candidate_sql = text, !.attempts = @ + 1]
    /\ tried' = tried + 1
    /\ pc' = "validate_candidate"
    /\ UNCHANGED <<incidents, project, runs, faults, built>>

\* Mutated: one attempt too many.
AfterFailedBuild_OffByOne ==
    IF pass.attempts <= MaxFixAttempts THEN "propose_fix" ELSE "give_up"

\* Mutated: out of attempts, the last candidate is offered all the same.
AfterFailedBuild_OffersTheLast ==
    IF pass.attempts < MaxFixAttempts THEN "propose_fix" ELSE "judge_proposal"

\* after_validation, for a candidate that did not build.
AfterFailedBuild ==
    IF pass.attempts < MaxFixAttempts THEN "propose_fix" ELSE "give_up"

\* dbt builds the candidate on the landing table as it is now.  Any candidate
\* may also fail to build: a timeout, an error of the check itself, or a pipeline
\* run that replaces the landing table under it.
ValidateCandidate ==
    /\ pc = "validate_candidate"
    /\ \/ /\ landing \in Buildable[pass.candidate_sql]
          /\ built' = built \cup {<<pass.incident_id, pass.candidate_sql>>}
          /\ GoTo("judge_proposal")
       \/ GoTo(AfterFailedBuild) /\ UNCHANGED built
    /\ UNCHANGED <<incidents, project, runs, faults, tried>>

\* The review is advice: whatever it says, the proposal is recorded next.
JudgeProposal ==
    /\ pc = "judge_proposal"
    /\ \E status \in Reviews : pass' = [pass EXCEPT !.judge_review = status]
    /\ pc' = "record_proposal"
    /\ UNCHANGED <<incidents, project, runs, faults, history>>

\* Mutated: an edge from the recorded proposal to the write.
RecordProposalNode_Applies ==
    /\ pc = "record_proposal"
    /\ \/ RecordProposal(pass.incident_id, pass.model_sql, pass.candidate_sql,
                         pass.judge_review)
       \/ ~At(pass.incident_id, "open") /\ UNCHANGED incidents
    /\ pc' = "apply_fix"
    /\ pass' = [pass EXCEPT !.contents_to_write = pass.candidate_sql]
    /\ UNCHANGED <<project, runs, faults, history>>

\* _advance raises when the incident is no longer open.
RecordProposalNode ==
    /\ pc = "record_proposal"
    /\ \/ RecordProposal(pass.incident_id, pass.model_sql, pass.candidate_sql,
                         pass.judge_review)
       \/ ~At(pass.incident_id, "open") /\ UNCHANGED incidents
    /\ EndPass
    /\ UNCHANGED <<project, runs, faults, history>>

GiveUp ==
    /\ pc = "give_up"
    /\ \/ ConcludeUnfixable(pass.incident_id)
       \/ ~At(pass.incident_id, "open") /\ UNCHANGED incidents
    /\ EndPass
    /\ UNCHANGED <<project, runs, faults, history>>

-----------------------------------------------------------------------------
(* Applying, triggering, verifying: the far side of the gate *)

\* Mutated: the run is triggered and the write forgotten.
AfterLoading_SkipsTheWrite ==
    IF VerifyingRunUnset(Current) THEN "trigger_rerun" ELSE "verify_success"

\* Mutated: applies on every pass, whether or not a run is being watched.
AfterLoading_AlwaysApplies == "apply_fix"

\* Whether a pass applies or watches is decided by the run the record names.
AfterLoading ==
    IF VerifyingRunUnset(Current) THEN "apply_fix" ELSE "verify_success"

\* The record is read again: what is written is what it says now.
LoadApproved ==
    /\ pc = "load_approved"
    /\ \/ /\ At(Current, "approved")
          /\ pass' = [pass EXCEPT
                !.incident_id = Current,
                !.contents_to_write = incidents[Current].model_contents_after,
                !.verifying_run_id = incidents[Current].verifying_run_id]
          /\ pc' = AfterLoading
       \/ ~At(Current, "approved") /\ EndPass
    /\ UNCHANGED <<incidents, project, runs, faults, history>>

ApplyFix ==
    /\ \/ pc = "apply_fix" /\ OpenForWriting /\ GoTo("write_text")
       \/ /\ pc = "write_text"
          /\ WriteText(pass.contents_to_write)
          /\ GoTo("trigger_rerun")
    /\ UNCHANGED <<incidents, runs, faults, history>>

\* Mutated: adopts the latest run instead of starting one.
TriggerRerun_AdoptsLatest ==
    /\ pc = "trigger_rerun"
    /\ LatestRun # 0
    /\ pass' = [pass EXCEPT !.verifying_run_id = LatestRun]
    /\ pc' = "record_verifying_run"
    /\ UNCHANGED <<incidents, project, runs, faults, history>>

\* The POST starts a run; its answer may be lost (Fault) before the next step.
TriggerRerun ==
    /\ pc = "trigger_rerun"
    /\ TriggerRun
    /\ pass' = [pass EXCEPT !.verifying_run_id = Len(runs')]
    /\ pc' = "record_verifying_run"
    /\ UNCHANGED <<incidents, project, faults, history>>

\* Mutated: the run is started and not recorded.
RecordVerifyingRunNode_Forgets ==
    /\ pc = "record_verifying_run"
    /\ EndPass
    /\ UNCHANGED <<incidents, project, runs, faults, history>>

\* Mutated: records the run on whatever is approved by now.
RecordVerifyingRunNode_ForWhatWaits ==
    /\ pc = "record_verifying_run"
    /\ IF At(Current, "approved") /\ VerifyingRunUnset(Current)
         THEN RecordVerifyingRun(Current, pass.verifying_run_id)
         ELSE UNCHANGED incidents
    /\ EndPass
    /\ UNCHANGED <<project, runs, faults, history>>

\* The second call of trigger_rerun.
RecordVerifyingRunNode ==
    /\ pc = "record_verifying_run"
    /\ \/ RecordVerifyingRun(pass.incident_id, pass.verifying_run_id)
       \/ ~VerifyingRunUnset(pass.incident_id) /\ UNCHANGED incidents
    /\ EndPass
    /\ UNCHANGED <<project, runs, faults, history>>

\* Mutated: an unfinished run is waited for without a bound.
VerdictOn_NoTimeout(run) ==
    CASE run.state = "success" -> "resolved"
      [] run.state = "failed" -> "verification_failed"
      [] OTHER -> NULL

\* What a look at the watched run concludes, NULL for nothing yet.
VerdictOn(run) ==
    IF run.state = "success" THEN "resolved"
    ELSE IF run.state = "failed" \/ run.overdue THEN "verification_failed"
    ELSE NULL

\* Reads the recorded run; the run may move on before the verdict is written.
VerifySuccess ==
    /\ pc = "verify_success"
    /\ LET verdict == VerdictOn(runs[pass.verifying_run_id])
       IN \/ verdict = NULL /\ EndPass
          \/ /\ verdict # NULL
             /\ pass' = [pass EXCEPT !.verdict = verdict]
             /\ pc' = "conclude"
    /\ UNCHANGED <<incidents, project, runs, faults, history>>

WriteVerdict ==
    /\ pc = "conclude"
    /\ \/ Conclude(pass.incident_id, pass.verdict)
       \/ ~At(pass.incident_id, "approved") /\ UNCHANGED incidents
    /\ EndPass
    /\ UNCHANGED <<project, runs, faults, history>>

-----------------------------------------------------------------------------
\* main.py catches what a pass raises and goes on; compose restarts a process
\* that dies.
Fault ==
    /\ pc # "route_on_state"
    /\ faults < MaxFaults
    /\ faults' = faults + 1
    /\ EndPass
    /\ UNCHANGED <<incidents, project, runs, history>>

Node ==
    \/ RouteOnState \/ Idle
    \/ DetectFailure \/ FetchFailureLog \/ InspectSchema \/ DiagnoseFailure
    \/ RecordIncident
    \/ ResumeIncident
    \/ ProposeFix \/ ValidateCandidate \/ JudgeProposal \/ RecordProposalNode
    \/ GiveUp
    \/ LoadApproved \/ ApplyFix \/ TriggerRerun \/ RecordVerifyingRunNode
    \/ VerifySuccess \/ WriteVerdict
=============================================================================
