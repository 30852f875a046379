-------------------------- MODULE SelfHealing_proofs --------------------------
(***************************************************************************)
(* What holds of the whole loop whoever writes the record beside the agent *)
(* and the console, the smoke test included: for any texts, any number of  *)
(* runs, incidents, tabs, attempts and faults.                             *)
(***************************************************************************)
EXTENDS SelfHealing, FiniteSetTheorems, TLAPS

\* The nodes that act for an approval, and those that watch its run.
Applying == {"apply_fix", "write_text", "trigger_rerun", "record_verifying_run"}
Watching == {"verify_success", "conclude"}

\* The nodes of a pass that has an open incident, or had one when it read it.
Proposing == {"propose_fix", "validate_candidate", "judge_proposal",
              "record_proposal", "give_up"}

\* A run that has parsed the project has read this text.
ReadsOnly(run, text) == run.state \in {"parsed", "success"} => run.read = text

\* What the checks leave of a row: a text from the offer on, and a run to watch
\* from the approval on at the earliest.
RowInOrder(row) ==
    /\ row.state \notin {"open", "unfixable"} => row.model_contents_after \in Contents
    /\ row.failing_run_id <= Len(runs)
    /\ row.verifying_run_id # NULL =>
         /\ row.state \in Decided
         /\ row.verifying_run_id \in RunsOf("manual")
         /\ row.failing_run_id < row.verifying_run_id
    /\ row.state = "resolved" => row.verifying_run_id # NULL

TableInOrder ==
    /\ OneInFlight(incidents)
    /\ \A i \in DOMAIN incidents : RowInOrder(incidents[i])

\* A pass on its way to an incident knows the run that failed.
FailureInHand ==
    /\ pc \in {"fetch_failure_log", "inspect_schema", "diagnose", "record_incident"} =>
         pass.run_id \in DOMAIN runs
    /\ pc \in {"diagnose", "record_incident"} => pass.failure_output = "model"

\* A pass that proposes has an incident, and a candidate once it has one.
ProposalInHand ==
    /\ pc \in Proposing => pass.incident_id \in DOMAIN incidents
    /\ pc \in {"validate_candidate", "judge_proposal", "record_proposal"} =>
         pass.candidate_sql \in Contents

\* A pass that acts does so for an incident that was approved and with its text;
\* what it has written stays written, and the run it started can read nothing
\* else.
ApprovalInHand ==
    pc \in Applying =>
       LET i == pass.incident_id
           text == pass.contents_to_write
           run == pass.verifying_run_id
       IN /\ i \in DOMAIN incidents
          /\ incidents[i].state \in Decided
          /\ incidents[i].model_contents_after = text
          /\ pc \in {"trigger_rerun", "record_verifying_run"} => project = text
          /\ pc = "record_verifying_run" =>
               /\ run \in RunsOf("manual")
               /\ ReadsOnly(runs[run], text)
               /\ incidents[i].failing_run_id < run
               /\ \A j \in DOMAIN incidents : incidents[j].verifying_run_id # run

\* A pass that watches has the run of the record, and a verdict that is final.
VerdictInHand ==
    pc \in Watching =>
       /\ pass.incident_id \in DOMAIN incidents
       /\ pass.verifying_run_id # NULL
       /\ incidents[pass.incident_id].verifying_run_id = pass.verifying_run_id
       /\ pc = "conclude" =>
            /\ pass.verdict \in Verdicts
            /\ pass.verdict = "resolved" => runs[pass.verifying_run_id].state = "success"

\* While an approved incident's run is watched nobody writes the file, so the
\* run reads the approved text or none.
WatchedRunsReadTheFix ==
    \A i \in DOMAIN incidents :
       At(i, "approved") /\ incidents[i].verifying_run_id # NULL =>
          /\ pc \notin Applying
          /\ project = incidents[i].model_contents_after
          /\ ReadsOnly(runs[incidents[i].verifying_run_id],
                       incidents[i].model_contents_after)

\* Every page shows an incident there is, as it was when it was proposed, or none.
PagesInHand ==
    \A tab \in Tabs :
       pages[tab].id # 0 =>
          /\ pages[tab].id \in DOMAIN incidents
          /\ pages[tab].state = "proposed"
          /\ pages[tab].after \in Contents

IInv ==
    /\ TypeOK
    /\ TableInOrder
    /\ FailureInHand
    /\ ProposalInHand
    /\ ApprovalInHand
    /\ VerdictInHand
    /\ WatchedRunsReadTheFix
    /\ PagesInHand
    /\ ResolvedRunReadTheFix
    /\ EachProofIsItsOwn

-----------------------------------------------------------------------------
(* What the statements do to the table.  A row moves, the others stay. *)

Changed(i) ==
    /\ i \in DOMAIN incidents
    /\ incidents' \in Seq(Row)
    /\ Len(incidents') = Len(incidents)
    /\ OneInFlight(incidents')
    /\ \A j \in DOMAIN incidents : j # i => incidents'[j] = incidents[j]
    /\ incidents'[i].failing_run_id = incidents[i].failing_run_id

KeepsItsText(i) ==
    /\ incidents'[i].model_contents_before = incidents[i].model_contents_before
    /\ incidents'[i].model_contents_after = incidents[i].model_contents_after
    /\ incidents'[i].judge_review = incidents[i].judge_review

KeepsItsRun(i) == incidents'[i].verifying_run_id = incidents[i].verifying_run_id

\* An offer, by the agent or by the smoke test.
Offers(i) ==
    /\ Changed(i) /\ KeepsItsRun(i)
    /\ incidents[i].state \in {"open", "proposed"}
    /\ incidents'[i].state = "proposed"
    /\ incidents'[i].model_contents_after \in Contents

GivesUp(i) ==
    /\ Changed(i) /\ KeepsItsRun(i) /\ KeepsItsText(i)
    /\ incidents[i].state = "open"
    /\ incidents'[i].state = "unfixable"

Decides(i) ==
    /\ Changed(i) /\ KeepsItsRun(i) /\ KeepsItsText(i)
    /\ incidents[i].state = "proposed"
    /\ incidents'[i].state \in {"approved", "rejected"}

Watches(i, run) ==
    /\ Changed(i) /\ KeepsItsText(i)
    /\ VerifyingRunUnset(i)
    /\ incidents'[i].state = "approved"
    /\ incidents'[i].verifying_run_id = run

Concludes(i, ending) ==
    /\ Changed(i) /\ KeepsItsRun(i) /\ KeepsItsText(i)
    /\ incidents[i].state = "approved"
    /\ incidents'[i].state = ending

\* A new row, with nothing but the failure on it.
Opens ==
    /\ Current = 0
    /\ incidents' \in Seq(Row)
    /\ Len(incidents') = Len(incidents) + 1
    /\ OneInFlight(incidents')
    /\ \A j \in DOMAIN incidents : incidents'[j] = incidents[j]
    /\ incidents'[Len(incidents')].state = "open"
    /\ incidents'[Len(incidents')].verifying_run_id = NULL
    /\ incidents'[Len(incidents')].model_contents_after = NULL
    /\ incidents'[Len(incidents')].failing_run_id <= Len(runs)

\* An accepted UPDATE stores the row it was given, stamped or not.
LEMMA UpdateStores ==
    ASSUME incidents \in Seq(Row), NEW i \in DOMAIN incidents, NEW new \in Row,
           Updated(incidents, i, new, incidents'),
           new.failing_run_id = incidents[i].failing_run_id
    PROVE  /\ Changed(i)
           /\ \E flag \in BOOLEAN : incidents'[i] = [new EXCEPT !.concluded = flag]
           /\ LifecycleAllows(incidents[i], new)
           /\ ChecksHold(Stamped(incidents[i], new))
<1> DEFINE row == Stamped(incidents[i], new)
<1>1. PICK flag \in BOOLEAN : row = [new EXCEPT !.concluded = flag]
  <2>1. new = [new EXCEPT !.concluded = new.concluded] /\ new.concluded \in BOOLEAN
    BY DEF Row
  <2> QED BY <2>1 DEF Stamped
<1>2. row \in Row /\ row.failing_run_id = new.failing_run_id
  BY <1>1 DEF Row
<1>3. incidents' = [incidents EXCEPT ![i] = row]
  BY DEF Updated
<1> HIDE DEF row
<1>4. /\ incidents' \in Seq(Row)
      /\ Len(incidents') = Len(incidents)
      /\ \A j \in DOMAIN incidents : j # i => incidents'[j] = incidents[j]
      /\ incidents'[i] = row
  BY <1>2, <1>3
<1>5. OneInFlight(incidents') /\ LifecycleAllows(incidents[i], new) /\ ChecksHold(row)
  BY DEF Updated, row
<1> QED
  BY <1>1, <1>2, <1>4, <1>5 DEF Changed, row
LEMMA RecordProposalMoves ==
    ASSUME incidents \in Seq(Row), NEW i \in DOMAIN incidents,
           NEW before \in Contents \cup {Torn, NULL}, NEW after \in Contents,
           NEW review \in Reviews \cup {NULL},
           RecordProposal(i, before, after, review)
    PROVE  /\ Offers(i) /\ incidents[i].state = "open"
           /\ incidents'[i].model_contents_before = before
           /\ incidents'[i].model_contents_after = after
           /\ incidents'[i].judge_review = review
           /\ incidents'[i].judge_feedback = incidents[i].judge_feedback
<1> DEFINE new == Proposed(incidents[i], before, after, review)
<1>0. incidents[i] \in Row
  OBVIOUS
<1>1. new \in Row /\ new.failing_run_id = incidents[i].failing_run_id
  BY <1>0 DEF Row, Proposed, States
<1>2. Updated(incidents, i, new, incidents') /\ incidents[i].state = "open"
  BY DEF RecordProposal
<1>3. /\ new.state = "proposed" /\ new.model_contents_after = after
      /\ new.verifying_run_id = incidents[i].verifying_run_id
      /\ new.model_contents_before = before /\ new.judge_review = review
      /\ new.judge_feedback = incidents[i].judge_feedback
  BY DEF Proposed, Row
<1> HIDE DEF new
<1>4. Changed(i) /\ \E flag \in BOOLEAN : incidents'[i] = [new EXCEPT !.concluded = flag]
  BY <1>1, <1>2, UpdateStores
<1> QED
  BY <1>1, <1>2, <1>3, <1>4 DEF Offers, KeepsItsRun, Row

LEMMA OverwriteMoves ==
    ASSUME incidents \in Seq(Row), NEW i \in DOMAIN incidents,
           NEW before \in Contents \cup {Torn, NULL}, NEW after \in Contents,
           OverwriteProposal(i, before, after)
    PROVE  Offers(i)
<1> DEFINE new == [Proposed(incidents[i], before, after, NULL) EXCEPT !.judge_feedback = NULL]
<1>0. incidents[i] \in Row
  OBVIOUS
<1>1. new \in Row /\ new.failing_run_id = incidents[i].failing_run_id
  BY <1>0 DEF Row, Proposed, States
<1>2. Updated(incidents, i, new, incidents') /\ incidents[i].state \in {"open", "proposed"}
  BY DEF OverwriteProposal
<1>3. /\ new.state = "proposed" /\ new.model_contents_after = after
      /\ new.verifying_run_id = incidents[i].verifying_run_id
  BY DEF Proposed, Row
<1> HIDE DEF new
<1>4. Changed(i) /\ \E flag \in BOOLEAN : incidents'[i] = [new EXCEPT !.concluded = flag]
  BY <1>1, <1>2, UpdateStores
<1> QED
  BY <1>1, <1>2, <1>3, <1>4 DEF Offers, KeepsItsRun, Row

\* The statements that set the state and at most the assessment.
LEMMA StateMoves ==
    ASSUME incidents \in Seq(Row), NEW i \in DOMAIN incidents, NEW state \in States,
           NEW feedback \in Feedbacks \cup {NULL},
           Updated(incidents, i,
                   [incidents[i] EXCEPT !.state = state, !.judge_feedback = feedback],
                   incidents')
    PROVE  /\ Changed(i) /\ KeepsItsText(i) /\ KeepsItsRun(i)
           /\ incidents'[i].state = state
           /\ incidents'[i].judge_feedback = feedback
           /\ LifecycleAllows(incidents[i], incidents'[i])
           /\ (incidents[i].state = "proposed" /\ incidents[i].judge_review = "completed")
                => feedback # NULL \/ state \notin {"approved", "rejected"}
<1> DEFINE new == [incidents[i] EXCEPT !.state = state, !.judge_feedback = feedback]
<1>0. incidents[i] \in Row
  OBVIOUS
<1>1. new \in Row /\ new.failing_run_id = incidents[i].failing_run_id
  BY <1>0 DEF Row
<1>2. Updated(incidents, i, new, incidents')
  OBVIOUS
<1>3. /\ new.state = state /\ new.judge_feedback = feedback
      /\ new.verifying_run_id = incidents[i].verifying_run_id
      /\ new.model_contents_before = incidents[i].model_contents_before
      /\ new.model_contents_after = incidents[i].model_contents_after
      /\ new.judge_review = incidents[i].judge_review
  BY DEF Row
<1> HIDE DEF new
<1>4. /\ Changed(i) /\ \E flag \in BOOLEAN : incidents'[i] = [new EXCEPT !.concluded = flag]
      /\ LifecycleAllows(incidents[i], new)
  BY <1>1, <1>2, UpdateStores
<1>5. FeedbackAllows(incidents[i], new)
  BY <1>2 DEF Updated
<1> QED
  BY <1>1, <1>3, <1>4, <1>5
     DEF KeepsItsText, KeepsItsRun, Row, LifecycleAllows, FeedbackAllows

\* The same, for the statements that leave the assessment alone.
LEMMA PlainStateMoves ==
    ASSUME incidents \in Seq(Row), NEW i \in DOMAIN incidents, NEW state \in States,
           Updated(incidents, i, [incidents[i] EXCEPT !.state = state], incidents')
    PROVE  /\ Changed(i) /\ KeepsItsText(i) /\ KeepsItsRun(i)
           /\ incidents'[i].state = state
           /\ incidents'[i].judge_feedback = incidents[i].judge_feedback
<1>1. incidents[i] \in Row
  OBVIOUS
<1>2. [incidents[i] EXCEPT !.state = state]
        = [incidents[i] EXCEPT !.state = state,
                               !.judge_feedback = incidents[i].judge_feedback]
  BY <1>1 DEF Row
<1>3. incidents[i].judge_feedback \in Feedbacks \cup {NULL}
  BY <1>1 DEF Row
<1> QED
  BY <1>2, <1>3, StateMoves

LEMMA ConcludeUnfixableMoves ==
    ASSUME incidents \in Seq(Row), NEW i \in DOMAIN incidents, ConcludeUnfixable(i)
    PROVE  GivesUp(i)
BY PlainStateMoves, "unfixable" \in States DEF ConcludeUnfixable, GivesUp, States

LEMMA ConcludeMoves ==
    ASSUME incidents \in Seq(Row), NEW i \in DOMAIN incidents, NEW ending \in Verdicts,
           Conclude(i, ending)
    PROVE  Concludes(i, ending) /\ incidents'[i].judge_feedback = incidents[i].judge_feedback
<1>1. ending \in States
  BY DEF Verdicts, States
<1> QED
  BY <1>1, PlainStateMoves DEF Conclude, Concludes

LEMMA RecordVerifyingRunMoves ==
    ASSUME incidents \in Seq(Row), NEW i \in DOMAIN incidents, NEW run \in Nat,
           RecordVerifyingRun(i, run)
    PROVE  Watches(i, run) /\ incidents'[i].judge_feedback = incidents[i].judge_feedback
<1> DEFINE new == [incidents[i] EXCEPT !.verifying_run_id = run]
<1>0. incidents[i] \in Row
  OBVIOUS
<1>1. new \in Row /\ new.failing_run_id = incidents[i].failing_run_id
  BY <1>0 DEF Row
<1>2. Updated(incidents, i, new, incidents') /\ VerifyingRunUnset(i)
  BY DEF RecordVerifyingRun
<1>3. /\ new.state = incidents[i].state /\ new.verifying_run_id = run
      /\ new.model_contents_before = incidents[i].model_contents_before
      /\ new.model_contents_after = incidents[i].model_contents_after
      /\ new.judge_review = incidents[i].judge_review
      /\ new.judge_feedback = incidents[i].judge_feedback
  BY DEF Row
<1> HIDE DEF new
<1>4. Changed(i) /\ \E flag \in BOOLEAN : incidents'[i] = [new EXCEPT !.concluded = flag]
  BY <1>1, <1>2, UpdateStores
<1> QED
  BY <1>1, <1>2, <1>3, <1>4 DEF Watches, KeepsItsText, VerifyingRunUnset, Row

LEMMA RecordDecisionMoves ==
    ASSUME incidents \in Seq(Row), NEW i \in DOMAIN incidents,
           NEW decision \in {"approved", "rejected"}, NEW expected,
           NEW feedback \in Feedbacks \cup {NULL},
           RecordDecision(i, decision, expected, feedback),
           expected # decision
    PROVE  /\ incidents[i].state = expected
           /\ Decides(i)
           /\ incidents'[i].judge_feedback = feedback
           /\ incidents[i].judge_review = "completed" => feedback # NULL
<1>1. decision \in States
  BY DEF States
<1>2. /\ Changed(i) /\ KeepsItsText(i) /\ KeepsItsRun(i)
      /\ incidents'[i].state = decision /\ incidents'[i].judge_feedback = feedback
      /\ LifecycleAllows(incidents[i], incidents'[i])
      /\ (incidents[i].state = "proposed" /\ incidents[i].judge_review = "completed")
           => feedback # NULL
  BY <1>1, StateMoves DEF RecordDecision
<1>3. incidents[i].state = "proposed"
  BY <1>2 DEF LifecycleAllows, LegalMoves, RecordDecision
<1> QED
  BY <1>2, <1>3 DEF Decides, RecordDecision

LEMMA OpenIncidentMoves ==
    ASSUME incidents \in Seq(Row), NEW run \in Nat, NEW output \in Failures,
           OpenIncident(run, output), run <= Len(runs)
    PROVE  Opens
<1> DEFINE row == NewIncident(run, output)
<1>1. /\ row \in Row /\ row.state = "open" /\ row.verifying_run_id = NULL
      /\ row.model_contents_after = NULL /\ row.failing_run_id = run
  BY DEF NewIncident, Blank, Row, States
<1>2. incidents' = Append(incidents, row) /\ OneInFlight(incidents')
  BY DEF OpenIncident, Inserted
<1> HIDE DEF row
<1>3. /\ incidents' \in Seq(Row) /\ Len(incidents') = Len(incidents) + 1
      /\ \A j \in DOMAIN incidents : incidents'[j] = incidents[j]
      /\ incidents'[Len(incidents')] = row
  BY <1>1, <1>2
<1>4. InFlight(incidents) = {}
  <2> SUFFICES ASSUME NEW j \in InFlight(incidents) PROVE FALSE
    OBVIOUS
  <2>1. j \in InFlight(incidents') /\ Len(incidents') \in InFlight(incidents')
    BY <1>1, <1>3 DEF InFlight, Terminal
  <2>2. j \in 1..Len(incidents)
    BY DEF InFlight
  <2> QED BY <1>2, <1>3, <2>1, <2>2 DEF OneInFlight
<1> QED
  BY <1>1, <1>2, <1>3, <1>4 DEF Opens, Current

-----------------------------------------------------------------------------
(* Where the agent, the table, the runs and the file are after a step. *)

\* With one incident in flight the newest one is the only one.
LEMMA CurrentIsTheOneInFlight ==
    ASSUME incidents \in Seq(Row), OneInFlight(incidents)
    PROVE  /\ Current \in 0..Len(incidents)
           /\ Current # 0 => Current \in InFlight(incidents)
           /\ \A i \in InFlight(incidents) : i = Current
<1>1. CASE InFlight(incidents) = {}
  BY <1>1 DEF Current
<1>2. CASE InFlight(incidents) # {}
  <2>1. PICK i \in InFlight(incidents) : TRUE
    BY <1>2
  <2>2. InFlight(incidents) = {i} /\ i \in 1..Len(incidents)
    BY <2>1 DEF OneInFlight, InFlight
  <2>3. Max({i}) = i
    BY <2>2 DEF Max
  <2> QED
    BY <2>2, <2>3 DEF Current
<1> QED
  BY <1>1, <1>2

\* An incident in one of the three states in flight is the current one.
LEMMA AtCurrent ==
    ASSUME incidents \in Seq(Row), OneInFlight(incidents),
           NEW i, NEW state \in {"open", "proposed", "approved"}, At(i, state)
    PROVE  i = Current /\ i \in DOMAIN incidents /\ incidents[i] \in Row
<1>1. i \in InFlight(incidents) /\ incidents[i] \in Row
  BY DEF At, InFlight, Terminal
<1> QED
  BY <1>1, CurrentIsTheOneInFlight DEF At

AgentStill == pc' = pc /\ pass' = pass

\* The table moves and nothing it is judged by does.
TableStep ==
    /\ UNCHANGED <<runs, project>>
    /\ \/ /\ Opens
          /\ \/ AgentStill
             \/ pc' = "propose_fix" /\ pass'.incident_id = Len(incidents')
       \/ \E i \in DOMAIN incidents :
             \/ Offers(i) /\ (AgentStill \/ pc' = "route_on_state")
             \/ GivesUp(i) /\ pc' = "route_on_state"
             \/ Decides(i) /\ AgentStill
             \/ Concludes(i, "verification_failed") /\ AgentStill
             \/ /\ pc = "record_verifying_run" /\ pc' = "route_on_state"
                /\ i = pass.incident_id /\ Watches(i, pass.verifying_run_id)
             \/ /\ pc = "conclude" /\ pc' = "route_on_state"
                /\ i = pass.incident_id /\ Concludes(i, pass.verdict)

Adds(trigger) ==
    /\ runs' \in Seq(Run)
    /\ Len(runs') = Len(runs) + 1
    /\ \A r \in DOMAIN runs : runs'[r] = runs[r]
    /\ runs'[Len(runs')] = NewRun(trigger)

\* A run that has not ended goes on; it reads the project or keeps what it read.
Advances(r) ==
    /\ runs' \in Seq(Run)
    /\ Len(runs') = Len(runs)
    /\ \A other \in DOMAIN runs : other # r => runs'[other] = runs[other]
    /\ runs'[r].trigger = runs[r].trigger
    /\ runs[r].state \notin Finished
    /\ \/ runs'[r].read = project
       \/ /\ runs'[r].read = runs[r].read
          /\ runs'[r].state \in {"parsed", "success"} => runs[r].state = "parsed"

RunsStep ==
    /\ UNCHANGED <<incidents, project>>
    /\ \/ AgentStill /\ Adds("scheduled")
       \/ AgentStill /\ \E r \in DOMAIN runs : Advances(r)
       \/ /\ pc = "trigger_rerun" /\ pc' = "record_verifying_run"
          /\ pass' = [pass EXCEPT !.verifying_run_id = Len(runs')]
          /\ Adds("manual")

ProjectStep ==
    /\ UNCHANGED <<incidents, runs, pass>>
    /\ \/ pc = "apply_fix" /\ pc' = "write_text" /\ project' = Torn
       \/ /\ pc = "write_text" /\ pc' = "trigger_rerun"
          /\ project' = pass.contents_to_write

\* On the way to an incident.
Searches ==
    \/ pc' = "fetch_failure_log" /\ pass'.run_id \in DOMAIN runs
    \/ /\ pc = "fetch_failure_log" /\ pc' = "inspect_schema"
       /\ pass'.run_id = pass.run_id
    \/ /\ pc = "inspect_schema" /\ pc' = "diagnose"
       /\ pass'.run_id = pass.run_id /\ pass'.failure_output = "model"
    \/ pc = "diagnose" /\ pc' = "record_incident" /\ pass' = pass

\* On the way to a proposal.
Prepares ==
    \/ pc' \in {"propose_fix", "give_up"} /\ pass'.incident_id \in DOMAIN incidents
    \/ /\ pc = "propose_fix" /\ pc' = "validate_candidate"
       /\ pass'.incident_id = pass.incident_id /\ pass'.candidate_sql \in Contents
    \/ /\ pc \in {"validate_candidate", "judge_proposal"}
       /\ pc' \in {"judge_proposal", "record_proposal"}
       /\ pass'.incident_id = pass.incident_id
       /\ pass'.candidate_sql = pass.candidate_sql

\* Taking up an approved incident, and reaching a verdict on it.
TakesUp ==
    \/ /\ pc' = "apply_fix"
       /\ pass'.incident_id \in DOMAIN incidents
       /\ VerifyingRunUnset(pass'.incident_id)
       /\ pass'.contents_to_write = incidents[pass'.incident_id].model_contents_after
    \/ /\ pc' = "verify_success"
       /\ pass'.incident_id \in DOMAIN incidents
       /\ pass'.verifying_run_id # NULL
       /\ pass'.verifying_run_id = incidents[pass'.incident_id].verifying_run_id
    \/ /\ pc = "verify_success" /\ pc' = "conclude"
       /\ pass'.incident_id = pass.incident_id
       /\ pass'.verifying_run_id = pass.verifying_run_id
       /\ pass'.verdict \in Verdicts
       /\ pass'.verdict = "resolved" => runs[pass.verifying_run_id].state = "success"

\* The agent moves, or a page does, or time passes unseen.
PassStep ==
    /\ UNCHANGED <<incidents, runs, project>>
    /\ \/ AgentStill
       \/ pc' \in {"route_on_state", "idle", "detect_failure", "resume_incident",
                   "load_approved"}
       \/ Searches \/ Prepares \/ TakesUp

LEMMA ScheduleAdds ==
    ASSUME runs \in Seq(Run), NEW trigger \in {"scheduled", "manual"},
           runs' = Append(runs, NewRun(trigger))
    PROVE  Adds(trigger)
<1>1. NewRun(trigger) \in Run
  BY DEF NewRun, Run
<1> QED
  BY <1>1 DEF Adds

\* Every step of a run is an advance.
LEMMA RunStepAdvances ==
    ASSUME runs \in Seq(Run), project \in Contents \cup {Torn}, source \in Shapes,
           NEW r \in DOMAIN runs, RunStep(r) \/ AgeRun(r)
    PROVE  Advances(r)
<1> DEFINE run == runs[r]
<1>1. run \in Run /\ r \in 1..Len(runs)
  OBVIOUS
<1>2. SUFFICES \E new \in Run :
                 /\ runs' = [runs EXCEPT ![r] = new]
                 /\ new.trigger = run.trigger
                 /\ run.state \notin Finished
                 /\ \/ new.read = project
                    \/ /\ new.read = run.read
                       /\ new.state \in {"parsed", "success"} => run.state = "parsed"
  BY DEF Advances
<1>3. CASE StartRun(r)
  <2> DEFINE new == [run EXCEPT !.state = "columns_read", !.columns = source]
  <2>1. /\ new \in Run /\ new.trigger = run.trigger /\ new.read = run.read
        /\ new.state = "columns_read"
    BY <1>1 DEF Run, Stages
  <2>2. runs' = [runs EXCEPT ![r] = new] /\ run.state = "queued"
    BY <1>3 DEF StartRun
  <2> QED BY <2>1, <2>2 DEF Finished
<1>4. CASE LandRows(r)
  <2> DEFINE new == [run EXCEPT !.state = "landed"]
  <2>1. /\ new \in Run /\ new.trigger = run.trigger /\ new.read = run.read
        /\ new.state = "landed"
    BY <1>1 DEF Run, Stages
  <2>2. runs' = [runs EXCEPT ![r] = new] /\ run.state = "columns_read"
    BY <1>4 DEF LandRows
  <2> QED BY <2>1, <2>2 DEF Finished
<1>5. CASE ReadProject(r)
  <2> DEFINE new == [run EXCEPT !.state = "parsed", !.read = project]
  <2>1. new \in Run /\ new.trigger = run.trigger /\ new.read = project
    BY <1>1 DEF Run, Stages
  <2>2. runs' = [runs EXCEPT ![r] = new] /\ run.state = "landed"
    BY <1>5 DEF ReadProject
  <2> QED BY <2>1, <2>2 DEF Finished
<1>6. CASE BuildModels(r)
  <2> DEFINE good == [run EXCEPT !.state = "success"]
             bad == [run EXCEPT !.state = "failed", !.failure = "model"]
  <2>1. /\ good \in Run /\ good.trigger = run.trigger /\ good.read = run.read
        /\ bad \in Run /\ bad.trigger = run.trigger /\ bad.read = run.read
    BY <1>1 DEF Run, Finished, Failures
  <2>2. /\ runs' = [runs EXCEPT ![r] = good] \/ runs' = [runs EXCEPT ![r] = bad]
        /\ run.state = "parsed"
    BY <1>6 DEF BuildModels
  <2> QED BY <2>1, <2>2 DEF Finished
<1>7. CASE FailRun(r)
  <2>1. PICK failure \in Failures :
           runs' = [runs EXCEPT ![r].state = "failed", ![r].failure = failure]
    BY <1>7 DEF FailRun
  <2> DEFINE new == [run EXCEPT !.state = "failed", !.failure = failure]
  <2>2. /\ new \in Run /\ new.trigger = run.trigger /\ new.read = run.read
        /\ new.state = "failed"
    BY <1>1 DEF Run, Finished
  <2>3. runs' = [runs EXCEPT ![r] = new] /\ run.state \in Stages
    BY <1>7, <2>1 DEF FailRun
  <2> QED BY <2>2, <2>3 DEF Finished, Stages
<1>8. CASE AgeRun(r)
  <2> DEFINE new == [run EXCEPT !.overdue = TRUE]
  <2>1. /\ new \in Run /\ new.trigger = run.trigger /\ new.read = run.read
        /\ new.state = run.state
    BY <1>1 DEF Run
  <2>2. runs' = [runs EXCEPT ![r] = new] /\ run.state \notin Finished
    BY <1>8 DEF AgeRun
  <2> QED BY <2>1, <2>2 DEF Finished
<1> QED
  BY <1>3, <1>4, <1>5, <1>6, <1>7, <1>8 DEF RunStep

\* Nodes that change the record.
LEMMA RecordNodes ==
    ASSUME IInv,
           \/ RecordIncident \/ RecordProposalNode \/ GiveUp
           \/ RecordVerifyingRunNode \/ WriteVerdict
    PROVE  TableStep \/ PassStep
<1> USE DEF EndPass
<1>1. incidents \in Seq(Row) /\ pass \in Pass /\ runs \in Seq(Run)
  BY DEF IInv, TypeOK
<1>2. CASE UNCHANGED incidents /\ pc' = "route_on_state"
  BY <1>2 DEF RecordIncident, RecordProposalNode, GiveUp, RecordVerifyingRunNode,
              WriteVerdict, PassStep
<1>3. CASE RecordIncident /\ OpenIncident(pass.run_id, pass.failure_output)
                          /\ pc' = "propose_fix"
  <2>1. /\ pass.failure_output \in Failures /\ pass.run_id \in Nat
        /\ pass.run_id <= Len(runs)
    BY <1>1, <1>3 DEF IInv, FailureInHand, RecordIncident, Failures
  <2>2. Opens
    BY <1>1, <1>3, <2>1, OpenIncidentMoves
  <2>3. /\ UNCHANGED <<runs, project>>
        /\ pass' = [pass EXCEPT !.incident_id = Len(incidents')]
    BY <1>3 DEF RecordIncident
  <2> QED
    BY <1>1, <1>3, <2>2, <2>3 DEF TableStep, Pass
<1>4. CASE RecordProposalNode /\ RecordProposal(pass.incident_id, pass.model_sql,
                                                pass.candidate_sql, pass.judge_review)
  <2>1. /\ pass.incident_id \in DOMAIN incidents /\ pass.candidate_sql \in Contents
        /\ pass.model_sql \in Contents \cup {Torn, NULL}
        /\ pass.judge_review \in Reviews \cup {NULL}
    BY <1>1, <1>4 DEF IInv, ProposalInHand, RecordProposalNode, Proposing, Pass
  <2>2. Offers(pass.incident_id)
    BY <1>1, <1>4, <2>1, RecordProposalMoves
  <2> QED
    BY <1>4, <2>1, <2>2 DEF TableStep, RecordProposalNode
<1>5. CASE GiveUp /\ ConcludeUnfixable(pass.incident_id)
  <2>1. pass.incident_id \in DOMAIN incidents
    BY <1>5 DEF IInv, ProposalInHand, GiveUp, Proposing
  <2> QED
    BY <1>1, <1>5, <2>1, ConcludeUnfixableMoves DEF TableStep, GiveUp
<1>6. CASE RecordVerifyingRunNode
             /\ RecordVerifyingRun(pass.incident_id, pass.verifying_run_id)
  <2>1. pass.incident_id \in DOMAIN incidents /\ pass.verifying_run_id \in Nat
    BY <1>1, <1>6 DEF IInv, ApprovalInHand, RecordVerifyingRunNode, Applying, RunsOf
  <2> QED
    BY <1>1, <1>6, <2>1, RecordVerifyingRunMoves DEF TableStep, RecordVerifyingRunNode
<1>7. CASE WriteVerdict /\ Conclude(pass.incident_id, pass.verdict)
  <2>1. pass.incident_id \in DOMAIN incidents /\ pass.verdict \in Verdicts
    BY <1>7 DEF IInv, VerdictInHand, WriteVerdict, Watching
  <2> QED
    BY <1>1, <1>7, <2>1, ConcludeMoves DEF TableStep, WriteVerdict
<1> QED
  BY <1>2, <1>3, <1>4, <1>5, <1>6, <1>7
     DEF RecordIncident, RecordProposalNode, GiveUp, RecordVerifyingRunNode, WriteVerdict

\* Nodes that change the file or start a run.
LEMMA ActingNodes ==
    ASSUME IInv, ApplyFix \/ TriggerRerun
    PROVE  RunsStep \/ ProjectStep
<1>1. CASE ApplyFix
  BY <1>1 DEF ApplyFix, ProjectStep, OpenForWriting, WriteText, GoTo
<1>2. CASE TriggerRerun
  BY <1>2, ScheduleAdds DEF TriggerRerun, RunsStep, TriggerRun, IInv, TypeOK
<1> QED BY <1>1, <1>2

\* Nodes that look for an incident to work on.
LEMMA SearchingNodes ==
    ASSUME IInv,
           \/ RouteOnState \/ Idle \/ DetectFailure \/ FetchFailureLog
           \/ InspectSchema \/ DiagnoseFailure
    PROVE  PassStep
<1>1. pass \in Pass /\ runs \in Seq(Run)
  BY DEF IInv, TypeOK
<1>2. CASE RouteOnState
  <2>1. CASE pc' \in {"idle", "detect_failure", "resume_incident", "load_approved"}
    BY <1>2, <2>1 DEF RouteOnState, PassStep
  <2> QED BY <1>2, <2>1 DEF RouteOnState, GoTo, Branch
<1>3. CASE Idle
  BY <1>3 DEF Idle, EndPass, PassStep
<1>4. CASE DetectFailure
  <2>1. CASE pc' = "route_on_state"
    BY <1>4, <2>1 DEF DetectFailure, PassStep
  <2>2. CASE FailureToDiagnose /\ pass' = [pass EXCEPT !.run_id = LatestRun]
                               /\ pc' = "fetch_failure_log"
    BY <1>1, <1>4, <2>2 DEF DetectFailure, FailureToDiagnose, LatestRun, PassStep, Searches, Pass
  <2> QED BY <1>4, <2>1, <2>2 DEF DetectFailure, EndPass
<1>5. CASE FetchFailureLog
  BY <1>1, <1>5 DEF FetchFailureLog, PassStep, Searches, Pass
<1>6. CASE InspectSchema
  BY <1>1, <1>6 DEF InspectSchema, EndPass, PassStep, Searches, Pass
<1>7. CASE DiagnoseFailure
  BY <1>7 DEF DiagnoseFailure, GoTo, PassStep, Searches
<1> QED
  BY <1>2, <1>3, <1>4, <1>5, <1>6, <1>7

\* Nodes that work on an open incident in memory.
LEMMA PreparingNodes ==
    ASSUME IInv, ResumeIncident \/ ProposeFix \/ ValidateCandidate \/ JudgeProposal
    PROVE  PassStep
<1>1. pass \in Pass
  BY DEF IInv, TypeOK
<1>2. CASE ResumeIncident
  <2>1. CASE At(Current, "open")
          /\ pc' \in {"propose_fix", "give_up"} /\ pass'.incident_id = Current
    BY <1>2, <2>1 DEF ResumeIncident, PassStep, Prepares, At
  <2>2. CASE pc' = "route_on_state"
    BY <1>2, <2>2 DEF ResumeIncident, PassStep
  <2> QED BY <1>1, <1>2, <2>1, <2>2 DEF ResumeIncident, EndPass, Pass
<1>3. CASE ProposeFix
  <2>1. PICK text \in Contents :
          pass' = [pass EXCEPT !.candidate_sql = text, !.attempts = @ + 1]
    BY <1>3 DEF ProposeFix
  <2>2. pass'.incident_id = pass.incident_id /\ pass'.candidate_sql = text
    BY <1>1, <2>1 DEF Pass
  <2> QED BY <1>3, <2>2 DEF ProposeFix, PassStep, Prepares
<1>4. CASE ValidateCandidate
  <2>1. /\ pass' = pass /\ pc' \in {"judge_proposal", "propose_fix", "give_up"}
        /\ pc = "validate_candidate" /\ UNCHANGED <<incidents, runs, project>>
    BY <1>4 DEF ValidateCandidate, GoTo, AfterFailedBuild
  <2>2. pass.incident_id \in DOMAIN incidents
    BY <2>1 DEF IInv, ProposalInHand, Proposing
  <2> QED BY <2>1, <2>2 DEF PassStep, Prepares
<1>5. CASE JudgeProposal
  <2>1. PICK status \in Reviews : pass' = [pass EXCEPT !.judge_review = status]
    BY <1>5 DEF JudgeProposal
  <2>2. /\ pass'.incident_id = pass.incident_id
        /\ pass'.candidate_sql = pass.candidate_sql
    BY <1>1, <2>1 DEF Pass
  <2> QED BY <1>5, <2>2 DEF JudgeProposal, PassStep, Prepares
<1> QED
  BY <1>2, <1>3, <1>4, <1>5

\* Nodes that take up an approved incident or judge its run.
LEMMA TakingNodes ==
    ASSUME IInv, LoadApproved \/ VerifySuccess
    PROVE  PassStep
<1>1. pass \in Pass
  BY DEF IInv, TypeOK
<1>2. CASE LoadApproved
  <2>1. CASE At(Current, "approved") /\ pc' = AfterLoading
    <3>1. pass' = [pass EXCEPT
                !.incident_id = Current,
                !.contents_to_write = incidents[Current].model_contents_after,
                !.verifying_run_id = incidents[Current].verifying_run_id]
      BY <1>2, <2>1 DEF LoadApproved, EndPass
    <3>2. /\ pass'.incident_id = Current /\ Current \in DOMAIN incidents
          /\ pass'.contents_to_write = incidents[Current].model_contents_after
          /\ pass'.verifying_run_id = incidents[Current].verifying_run_id
          /\ incidents[Current].state = "approved"
      BY <1>1, <2>1, <3>1 DEF Pass, At
    <3>3. \/ VerifyingRunUnset(Current) /\ pc' = "apply_fix"
          \/ incidents[Current].verifying_run_id # NULL /\ pc' = "verify_success"
      BY <2>1, <3>2 DEF AfterLoading, VerifyingRunUnset
    <3>4. UNCHANGED <<incidents, runs, project>>
      BY <1>2 DEF LoadApproved
    <3> QED BY <3>2, <3>3, <3>4 DEF PassStep, TakesUp
  <2>2. CASE pc' = "route_on_state"
    BY <1>2, <2>2 DEF LoadApproved, PassStep
  <2> QED BY <1>2, <2>1, <2>2 DEF LoadApproved, EndPass
<1>3. CASE VerifySuccess
  <2> DEFINE verdict == VerdictOn(runs[pass.verifying_run_id])
  <2>1. CASE pc' = "route_on_state"
    BY <1>3, <2>1 DEF VerifySuccess, PassStep
  <2>2. CASE verdict # NULL /\ pass' = [pass EXCEPT !.verdict = verdict]
                            /\ pc' = "conclude"
    <3>1. /\ verdict \in Verdicts
          /\ verdict = "resolved" => runs[pass.verifying_run_id].state = "success"
      BY <2>2 DEF VerdictOn, Verdicts
    <3>2. /\ pass'.verdict = verdict /\ pass'.incident_id = pass.incident_id
          /\ pass'.verifying_run_id = pass.verifying_run_id
      BY <1>1, <2>2 DEF Pass
    <3> QED BY <1>3, <2>2, <3>1, <3>2 DEF VerifySuccess, PassStep, TakesUp
  <2> QED BY <1>3, <2>1, <2>2 DEF VerifySuccess, EndPass
<1> QED
  BY <1>2, <1>3

LEMMA NodeForms ==
    ASSUME IInv, Node
    PROVE  TableStep \/ RunsStep \/ ProjectStep \/ PassStep
BY RecordNodes, ActingNodes, SearchingNodes, PreparingNodes, TakingNodes DEF Node

\* The operator decides on the incident the page shows, if it is still proposed.
LEMMA DecisionMoves ==
    ASSUME IInv, NEW tab \in Tabs, NEW decision \in {"approved", "rejected"},
           NEW choice \in Assessments \cup {NULL}, pages[tab].id # 0,
           DecisionRecorded(pages[tab], decision, choice)
    PROVE  /\ Decides(pages[tab].id)
           /\ pages[tab].id \in DOMAIN incidents
           /\ incidents'[pages[tab].id].state = decision
           /\ incidents'[pages[tab].id].judge_feedback = Feedback(pages[tab], choice)
<1>1. /\ incidents \in Seq(Row) /\ pages[tab].id \in DOMAIN incidents
      /\ pages[tab].state = "proposed"
  BY DEF IInv, TypeOK, PagesInHand
<1>2. Feedback(pages[tab], choice) \in Feedbacks \cup {NULL}
  BY ConsoleAssumption DEF Feedback
<1>3. RecordDecision(pages[tab].id, decision, "proposed", Feedback(pages[tab], choice))
  BY <1>1 DEF DecisionRecorded
<1>4. /\ incidents[pages[tab].id].state = "proposed"
      /\ Updated(incidents, pages[tab].id,
               [incidents[pages[tab].id] EXCEPT !.state = decision,
                                    !.judge_feedback = Feedback(pages[tab], choice)],
               incidents')
  BY <1>3 DEF RecordDecision
<1> HIDE DEF Feedback
<1>5. /\ Changed(pages[tab].id) /\ KeepsItsText(pages[tab].id)
      /\ KeepsItsRun(pages[tab].id)
      /\ incidents'[pages[tab].id].state = decision
      /\ incidents'[pages[tab].id].judge_feedback = Feedback(pages[tab], choice)
  <2> DEFINE id == pages[tab].id
             feedback == Feedback(pages[tab], choice)
  <2>1. /\ id \in DOMAIN incidents /\ decision \in States
        /\ feedback \in Feedbacks \cup {NULL}
        /\ Updated(incidents, id,
                   [incidents[id] EXCEPT !.state = decision, !.judge_feedback = feedback],
                   incidents')
    BY <1>1, <1>2, <1>4 DEF States
  <2> HIDE DEF id, feedback
  <2>2. /\ Changed(id) /\ KeepsItsText(id) /\ KeepsItsRun(id)
        /\ incidents'[id].state = decision
        /\ incidents'[id].judge_feedback = feedback
    BY <1>1, <2>1, StateMoves
  <2> QED BY <2>2 DEF id, feedback
<1> QED
  BY <1>1, <1>4, <1>5 DEF Decides

\* What a tab does: it shows the proposal there is, or nothing, or it decides.
TabStep(tab) ==
    \/ /\ Render(tab)
       /\ \/ pages'[tab] = NoProposal
          \/ At(Current, "proposed") /\ pages'[tab] = Snapshot(Current)
    \/ UNCHANGED <<incidents, shown>> /\ pages'[tab] = NoProposal
    \/ \E decision \in {"approved", "rejected"}, choice \in Assessments \cup {NULL} :
          /\ DecisionRecorded(pages[tab], decision, choice)
          /\ Decides(pages[tab].id)
          /\ pages[tab].id \in DOMAIN incidents
          /\ incidents'[pages[tab].id].state = decision
          /\ incidents'[pages[tab].id].judge_feedback = Feedback(pages[tab], choice)
          /\ pages'[tab] = NoProposal

LEMMA OperatorForms ==
    ASSUME IInv, OperatorStep
    PROVE  /\ \E tab \in Tabs :
                 /\ TabStep(tab)
                 /\ \A other \in Tabs \ {tab} : pages'[other] = pages[other]
           /\ pages' \in [Tabs -> Page]
           /\ AgentStill /\ UNCHANGED <<source, landing, project, runs, faults, built, tried, smoke>>
           /\ TableStep \/ PassStep
<1>1. /\ incidents \in Seq(Row) /\ pages \in [Tabs -> Page] /\ OneInFlight(incidents)
      /\ AgentStill
      /\ UNCHANGED <<source, landing, project, runs, faults, built, tried, smoke>>
  BY DEF IInv, TypeOK, TableInOrder, OperatorStep, pipelineVars, agentVars, AgentStill
<1>2. PICK tab \in Tabs :
         \/ Render(tab)
         \/ \E decision \in {"approved", "rejected"},
               choice \in Assessments \cup {NULL} : Decide(tab, decision, choice)
  BY DEF OperatorStep
<1>3. NoProposal \in Page
  BY DEF NoProposal, Page
<1>4. CASE Render(tab)
  <2>1. At(Current, "proposed") => Snapshot(Current) \in Page
    <3>1. \A i \in DOMAIN incidents : i \in Nat /\ incidents[i] \in Row
      BY <1>1
    <3>2. \A i \in DOMAIN incidents : Snapshot(i) \in Page
      BY <3>1 DEF Snapshot, Page, Row
    <3> QED BY <3>2 DEF At
  <2>2. UNCHANGED incidents
    BY <1>4 DEF Render
  <2>3. /\ pages' \in [Tabs -> Page]
        /\ \/ pages'[tab] = NoProposal
           \/ At(Current, "proposed") /\ pages'[tab] = Snapshot(Current)
        /\ \A other \in Tabs \ {tab} : pages'[other] = pages[other]
    BY <1>1, <1>3, <1>4, <2>1 DEF Render
  <2> QED BY <1>1, <1>4, <2>2, <2>3 DEF TabStep, PassStep
<1>5. CASE \E decision \in {"approved", "rejected"},
              choice \in Assessments \cup {NULL} : Decide(tab, decision, choice)
  <2>1. PICK decision \in {"approved", "rejected"}, choice \in Assessments \cup {NULL} :
           Decide(tab, decision, choice)
    BY <1>5
  <2>2. /\ pages' \in [Tabs -> Page] /\ pages'[tab] = NoProposal
        /\ \A other \in Tabs \ {tab} : pages'[other] = pages[other]
        /\ pages[tab].id # 0
    BY <1>1, <1>3, <2>1 DEF Decide
  <2>3. CASE DecisionRecorded(pages[tab], decision, choice)
    <3>1. /\ Decides(pages[tab].id) /\ pages[tab].id \in DOMAIN incidents
          /\ incidents'[pages[tab].id].state = decision
          /\ incidents'[pages[tab].id].judge_feedback = Feedback(pages[tab], choice)
      BY <2>2, <2>3, DecisionMoves
    <3> QED BY <1>1, <2>2, <2>3, <3>1 DEF TabStep, TableStep
  <2>4. CASE DecisionDropped(pages[tab], choice)
    BY <1>1, <2>2, <2>4 DEF DecisionDropped, TabStep, PassStep
  <2> QED BY <2>1, <2>3, <2>4 DEF Decide
<1> QED
  BY <1>1, <1>2, <1>4, <1>5

LEMMA SmokeForms ==
    ASSUME IInv, SmokeStep
    PROVE  /\ AgentStill
           /\ UNCHANGED <<source, landing, project, runs, faults, built, tried, pages>>
           /\ TableStep \/ PassStep
<1>1. /\ incidents \in Seq(Row) /\ OneInFlight(incidents) /\ AgentStill
      /\ UNCHANGED <<source, landing, project, runs, faults, built, tried, pages>>
      /\ project \in Contents \cup {Torn}
  BY DEF IInv, TypeOK, TableInOrder, SmokeStep, pipelineVars, agentVars, AgentStill
<1>2. CASE UNCHANGED incidents
  BY <1>1, <1>2 DEF PassStep
<1>3. CASE CloseApproved
  <2>1. CASE \E i \in Approved : Conclude(i, "verification_failed")
    <3>1. PICK i \in DOMAIN incidents : Conclude(i, "verification_failed")
      BY <2>1 DEF Approved
    <3>2. Concludes(i, "verification_failed")
      BY <1>1, <3>1, ConcludeMoves DEF Verdicts
    <3> QED BY <1>1, <3>2 DEF TableStep
  <2> QED BY <1>2, <1>3, <2>1 DEF CloseApproved
<1>4. CASE InsertIncident(0)
  <2>1. CASE OpenIncident(0, "other")
    <3>1. Opens
      BY <1>1, <2>1, OpenIncidentMoves DEF Failures, IInv, TypeOK
    <3> QED BY <1>1, <3>1 DEF TableStep
  <2> QED BY <1>2, <1>4, <2>1 DEF InsertIncident
<1>5. CASE Overwrite(project)
  <2>1. CASE Current # 0 /\ OverwriteProposal(Current, project, Corrected)
    <3>1. Current \in DOMAIN incidents
      BY <1>1, <2>1, CurrentIsTheOneInFlight
    <3>2. Offers(Current)
      BY <1>1, <2>1, <3>1, OverwriteMoves, SelfHealingAssumption
    <3> QED BY <1>1, <3>1, <3>2 DEF TableStep
  <2> QED BY <1>2, <1>5, <2>1 DEF Overwrite
<1>6. CASE Approve
  <2>1. CASE /\ At(Current, "proposed")
             /\ Updated(incidents, Current,
                        [incidents[Current] EXCEPT !.state = "approved"], incidents')
    <3>1. Current \in DOMAIN incidents /\ incidents[Current].state = "proposed"
      BY <2>1 DEF At
    <3>2. /\ Changed(Current) /\ KeepsItsText(Current) /\ KeepsItsRun(Current)
          /\ incidents'[Current].state = "approved"
      BY <1>1, <2>1, <3>1, PlainStateMoves DEF States
    <3> QED BY <1>1, <3>1, <3>2 DEF TableStep, Decides
  <2> QED BY <1>2, <1>6, <2>1 DEF Approve
<1> QED
  BY <1>2, <1>3, <1>4, <1>5, <1>6 DEF SmokeStep, CountInFlight

\* Drift touches none of the four; the rest of the pipeline moves a run.
LEMMA PipelineForms ==
    ASSUME IInv, PipelineStep \/ \E r \in DOMAIN runs : TimePasses(r)
    PROVE  /\ AgentStill
           /\ UNCHANGED <<incidents, project, faults, built, tried, pages, shown, smoke>>
           /\ source' \in Shapes /\ landing' \in Shapes \cup {NULL}
           /\ UNCHANGED runs \/ Adds("scheduled") \/ \E r \in DOMAIN runs : Advances(r)
           /\ RunsStep \/ PassStep
<1>1. /\ runs \in Seq(Run) /\ source \in Shapes /\ landing \in Shapes \cup {NULL}
      /\ project \in Contents \cup {Torn}
  BY DEF IInv, TypeOK
<1>2. /\ AgentStill
      /\ UNCHANGED <<incidents, project, faults, built, tried, pages, shown, smoke>>
  BY DEF PipelineStep, TimePasses, agentVars, consoleVars, AgentStill, Drift, Schedule,
         RunStep, StartRun, LandRows, ReadProject, BuildModels, FailRun, AgeRun
<1>3. CASE PipelineStep /\ Drift
  BY <1>1, <1>2, <1>3 DEF Drift, PassStep, Shapes
<1>4. CASE PipelineStep /\ Schedule
  BY <1>1, <1>2, <1>4, ScheduleAdds DEF Schedule, RunsStep
<1>5. ASSUME NEW r \in DOMAIN runs, RunStep(r) \/ AgeRun(r)
      PROVE  /\ source' \in Shapes /\ landing' \in Shapes \cup {NULL}
             /\ Advances(r)
  <2>1. Advances(r)
    BY <1>1, <1>5, RunStepAdvances
  <2>2. runs[r] \in Run
    BY <1>1
  <2>3. source' \in Shapes /\ landing' \in Shapes \cup {NULL}
    BY <1>1, <1>5, <2>2 DEF RunStep, StartRun, LandRows, ReadProject, BuildModels,
                            FailRun, AgeRun, Run
  <2> QED BY <2>1, <2>3
<1> QED
  BY <1>2, <1>3, <1>4, <1>5 DEF PipelineStep, TimePasses, RunsStep

\* Every step of the system is one of the four, or changes nothing they speak of.
LEMMA StepForms ==
    ASSUME IInv, [Next]_vars
    PROVE  TableStep \/ RunsStep \/ ProjectStep \/ PassStep
<1>1. CASE AgentFault
  BY <1>1 DEF AgentFault, Fault, EndPass, PassStep
<1>2. CASE UNCHANGED vars
  BY <1>2 DEF vars, agentVars, pipelineVars, PassStep, AgentStill
<1> QED
  BY <1>1, <1>2, NodeForms, OperatorForms, SmokeForms, PipelineForms
     DEF Next, AgentStep, OutOfIncidents

-----------------------------------------------------------------------------
(* Types *)

LEMMA FreshPassIsAPass == FreshPass \in Pass
BY DEF FreshPass, Pass

LEMMA InitIInv == Init => IInv
<1> SUFFICES ASSUME Init PROVE IInv
  OBVIOUS
<1> USE DEF Init, PipelineInit, AgentInit, ConsoleInit, SmokeInit
<1>1. TypeOK
  BY FreshPassIsAPass, PipelineAssumption, AgentAssumption
     DEF TypeOK, Shapes, Nodes, NoProposal, Page
<1>2. TableInOrder /\ FailureInHand /\ ProposalInHand /\ ApprovalInHand /\ VerdictInHand
  BY DEF TableInOrder, OneInFlight, InFlight, FailureInHand, ProposalInHand,
         ApprovalInHand, VerdictInHand, Proposing, Applying, Watching
<1>3. WatchedRunsReadTheFix /\ ResolvedRunReadTheFix /\ EachProofIsItsOwn
  BY DEF WatchedRunsReadTheFix, ResolvedRunReadTheFix, EachProofIsItsOwn, At
<1>4. PagesInHand
  BY DEF PagesInHand, NoProposal
<1> QED
  BY <1>1, <1>2, <1>3, <1>4 DEF IInv

\* What the agent keeps in memory and in history.
AgentTypeOK ==
    /\ pc \in Nodes /\ pass \in Pass /\ faults \in 0..MaxFaults
    /\ built \in SUBSET (Nat \X Contents) /\ tried \in Nat

LEMMA NodeTypes ==
    ASSUME IInv, Node
    PROVE  AgentTypeOK'
<1>1. /\ incidents \in Seq(Row) /\ runs \in Seq(Run) /\ project \in Contents \cup {Torn}
      /\ pc \in Nodes /\ pass \in Pass /\ faults \in 0..MaxFaults /\ faults \in Nat
      /\ built \in SUBSET (Nat \X Contents) /\ tried \in Nat
      /\ OneInFlight(incidents) /\ MaxFaults \in Nat
  BY AgentAssumption DEF IInv, TypeOK, TableInOrder
<1> USE <1>1, FreshPassIsAPass DEF AgentTypeOK, EndPass, GoTo, history
<1> HIDE DEF FreshPass
<1>2. CASE RouteOnState \/ Idle \/ DiagnoseFailure
  BY <1>2 DEF RouteOnState, Idle, DiagnoseFailure, Branch, Nodes
<1>3. CASE DetectFailure
  <2>1. LatestRun \in Nat
    BY DEF LatestRun
  <2>2. [pass EXCEPT !.run_id = LatestRun] \in Pass
    BY <2>1 DEF Pass
  <2> QED BY <1>3, <2>2 DEF DetectFailure, Nodes
<1>4. CASE FetchFailureLog
  <2>1. pass.run_id \in DOMAIN runs
    BY <1>4 DEF IInv, FailureInHand, FetchFailureLog
  <2>2. runs[pass.run_id] \in Run
    BY <2>1
  <2>3. [pass EXCEPT !.failure_output = runs[pass.run_id].failure] \in Pass
    BY <2>2 DEF Run, Pass
  <2> QED BY <1>4, <2>3 DEF FetchFailureLog, Nodes
<1>5. CASE InspectSchema
  <2>1. [pass EXCEPT !.model_sql = project] \in Pass
    BY DEF Pass
  <2> QED BY <1>5, <2>1 DEF InspectSchema, Nodes
<1>6. CASE RecordIncident
  <2>1. OpenIncident(pass.run_id, pass.failure_output)
          => [pass EXCEPT !.incident_id = Len(incidents')] \in Pass
    <3>1. OpenIncident(pass.run_id, pass.failure_output)
            => incidents' = Append(incidents, NewIncident(pass.run_id, pass.failure_output))
      BY DEF OpenIncident, Inserted
    <3>2. OpenIncident(pass.run_id, pass.failure_output) => Len(incidents') \in Nat
      BY <3>1
    <3> QED BY <3>2 DEF Pass
  <2> QED BY <1>6, <2>1 DEF RecordIncident, Nodes
<1>7. CASE ResumeIncident
  <2>1. Current \in Nat
    BY CurrentIsTheOneInFlight
  <2>2. ASSUME At(Current, "open")
        PROVE  [pass EXCEPT !.incident_id = Current, !.failure_output = "model",
                            !.run_id = incidents[Current].failing_run_id,
                            !.model_sql = project] \in Pass
    <3>1. incidents[Current] \in Row
      BY <2>2 DEF At
    <3>2. incidents[Current].failing_run_id \in Nat
      BY <3>1 DEF Row
    <3> QED BY <2>1, <3>2 DEF Pass, Failures
  <2>3. [pass EXCEPT !.incident_id = Current] \in Pass
    BY <2>1 DEF Pass
  <2>4. pass' \in Pass
    BY <1>7, <2>2, <2>3 DEF ResumeIncident
  <2>5. pc' \in Nodes /\ UNCHANGED <<built, tried>>
    BY <1>7 DEF ResumeIncident, Nodes
  <2>6. faults' \in 0..MaxFaults
    BY <1>7 DEF ResumeIncident
  <2> QED BY <2>4, <2>5, <2>6
<1>8. CASE ProposeFix
  <2>1. PICK text \in Contents :
           pass' = [pass EXCEPT !.candidate_sql = text, !.attempts = @ + 1]
    BY <1>8 DEF ProposeFix
  <2>2. pass.attempts + 1 \in Nat
    BY DEF Pass
  <2>3. pass' \in Pass
    BY <2>1, <2>2 DEF Pass
  <2> QED BY <1>8, <2>3 DEF ProposeFix, Nodes
<1>9. CASE ValidateCandidate
  <2>1. pass.incident_id \in Nat /\ pass.candidate_sql \in Contents
    BY <1>9 DEF IInv, ProposalInHand, ValidateCandidate, Pass
  <2> QED BY <1>9, <2>1 DEF ValidateCandidate, AfterFailedBuild, Nodes
<1>10. CASE JudgeProposal
  <2>1. \A status \in Reviews : [pass EXCEPT !.judge_review = status] \in Pass
    BY DEF Pass
  <2> QED BY <1>10, <2>1 DEF JudgeProposal, Nodes
<1>11. CASE RecordProposalNode \/ GiveUp \/ RecordVerifyingRunNode \/ WriteVerdict
  BY <1>11 DEF RecordProposalNode, GiveUp, RecordVerifyingRunNode, WriteVerdict, Nodes
<1>12. CASE LoadApproved
  <2>1. ASSUME At(Current, "approved")
        PROVE  [pass EXCEPT
                 !.incident_id = Current,
                 !.contents_to_write = incidents[Current].model_contents_after,
                 !.verifying_run_id = incidents[Current].verifying_run_id] \in Pass
    <3>1. Current \in Nat /\ incidents[Current] \in Row
      BY <2>1, CurrentIsTheOneInFlight DEF At
    <3>2. /\ incidents[Current].model_contents_after \in Contents \cup {NULL}
          /\ incidents[Current].verifying_run_id \in Nat \cup {NULL}
      BY <3>1 DEF Row
    <3> QED BY <3>1, <3>2 DEF Pass
  <2> QED BY <1>12, <2>1 DEF LoadApproved, AfterLoading, Nodes
<1>13. CASE ApplyFix
  BY <1>13 DEF ApplyFix, Nodes
<1>14. CASE TriggerRerun
  <2>1. Len(runs') \in Nat
    BY <1>14, ScheduleAdds DEF TriggerRerun, TriggerRun, Adds
  <2>2. [pass EXCEPT !.verifying_run_id = Len(runs')] \in Pass
    BY <2>1 DEF Pass
  <2> QED BY <1>14, <2>2 DEF TriggerRerun, Nodes
<1>15. CASE VerifySuccess
  <2> DEFINE verdict == VerdictOn(runs[pass.verifying_run_id])
  <2>1. verdict # NULL => [pass EXCEPT !.verdict = verdict] \in Pass
    <3>1. verdict # NULL => verdict \in Verdicts
      BY DEF VerdictOn, Verdicts
    <3> HIDE DEF verdict
    <3> QED BY <3>1 DEF Pass
  <2> QED BY <1>15, <2>1 DEF VerifySuccess, Nodes
<1> QED
  BY <1>2, <1>3, <1>4, <1>5, <1>6, <1>7, <1>8, <1>9, <1>10, <1>11, <1>12, <1>13,
     <1>14, <1>15 DEF Node

\* What the tabs show and what was shown.
LEMMA ConsoleTypes ==
    ASSUME IInv, OperatorStep \/ SmokeStep
    PROVE  pages' \in [Tabs -> Page] /\ shown' \in SUBSET (Nat \X Contents)
<1>1. /\ pages \in [Tabs -> Page] /\ shown \in SUBSET (Nat \X Contents)
      /\ incidents \in Seq(Row) /\ OneInFlight(incidents)
  BY DEF IInv, TypeOK, TableInOrder
<1>2. CASE OperatorStep
  <2>1. PICK tab \in Tabs : TabStep(tab)
    BY <1>2, OperatorForms
  <2>2. CASE UNCHANGED shown
    BY <1>1, <1>2, <2>2, OperatorForms
  <2>3. CASE /\ pages[tab].id \in DOMAIN incidents
             /\ shown' \in {shown, shown \cup {<<pages[tab].id, pages[tab].after>>}}
    <3>1. pages[tab].id \in Nat /\ pages[tab].after \in Contents
      BY <1>1, <2>3 DEF IInv, PagesInHand
    <3> QED BY <1>1, <1>2, <2>3, <3>1, OperatorForms
  <2> QED BY <2>1, <2>2, <2>3 DEF TabStep, Render, DecisionRecorded
<1>3. CASE SmokeStep
  <2>1. Current \in Nat /\ Corrected \in Contents
    BY <1>1, CurrentIsTheOneInFlight, SelfHealingAssumption
  <2>2. shown' \in {shown, shown \cup {<<Current, Corrected>>}}
    BY <1>3 DEF SmokeStep
  <2> QED BY <1>1, <1>3, <2>1, <2>2 DEF SmokeStep
<1> QED BY <1>2, <1>3

-----------------------------------------------------------------------------
(* What every step keeps *)

\* No run and no incident is ever lost, and what a run has become it stays.
LEMMA StoresGrow ==
    ASSUME IInv, [Next]_vars
    PROVE  /\ incidents' \in Seq(Row) /\ Len(incidents) <= Len(incidents')
           /\ OneInFlight(incidents')
           /\ runs' \in Seq(Run) /\ Len(runs) <= Len(runs')
           /\ \A r \in DOMAIN runs :
                 /\ r \in DOMAIN runs'
                 /\ runs'[r].trigger = runs[r].trigger
                 /\ runs[r].state \in Finished => runs'[r] = runs[r]
<1>1. incidents \in Seq(Row) /\ OneInFlight(incidents) /\ runs \in Seq(Run)
  BY DEF IInv, TypeOK, TableInOrder
<1>2. CASE TableStep
  BY <1>1, <1>2 DEF TableStep, Opens, Offers, GivesUp, Decides, Watches, Concludes, Changed
<1>3. CASE RunsStep
  <2>1. CASE \E r \in DOMAIN runs : Advances(r)
    BY <1>1, <1>3, <2>1 DEF RunsStep, Advances
  <2>2. CASE \E trigger \in {"scheduled", "manual"} : Adds(trigger)
    BY <1>1, <1>3, <2>2 DEF RunsStep, Adds
  <2> QED BY <1>3, <2>1, <2>2 DEF RunsStep
<1>4. CASE ProjectStep \/ PassStep
  BY <1>1, <1>4 DEF ProjectStep, PassStep
<1> QED
  BY <1>2, <1>3, <1>4, StepForms

LEMMA ManualRunsStay ==
    ASSUME IInv, [Next]_vars
    PROVE  RunsOf("manual") \subseteq RunsOf("manual")'
BY StoresGrow DEF RunsOf

LEMMA TypeStep ==
    ASSUME IInv, [Next]_vars
    PROVE  TypeOK'
<1>1. incidents' \in Seq(Row) /\ runs' \in Seq(Run)
  BY StoresGrow
<1>2. TypeOK
  BY DEF IInv
<1>3. project' \in Contents \cup {Torn}
  <2>1. CASE ProjectStep /\ pc = "write_text"
    <3>1. /\ pass.incident_id \in DOMAIN incidents
          /\ incidents[pass.incident_id].state \in Decided
          /\ incidents[pass.incident_id].model_contents_after = pass.contents_to_write
      BY <2>1 DEF IInv, ApprovalInHand, Applying
    <3>2. pass.contents_to_write \in Contents
      BY <3>1 DEF IInv, TableInOrder, RowInOrder, Decided
    <3> QED BY <2>1, <3>2 DEF ProjectStep
  <2>2. CASE ~ProjectStep \/ pc # "write_text"
    BY <1>2, <2>2, StepForms DEF TypeOK, TableStep, RunsStep, ProjectStep, PassStep
  <2> QED BY <2>1, <2>2
<1>4. CASE Node /\ UNCHANGED <<source, landing, consoleVars, smoke>>
  BY <1>1, <1>2, <1>3, <1>4, NodeTypes DEF TypeOK, AgentTypeOK, consoleVars
<1>5. CASE AgentFault
  <2>1. faults' \in 0..MaxFaults
    BY <1>2, <1>5, AgentAssumption DEF TypeOK, AgentFault, Fault
  <2> QED
    BY <1>1, <1>2, <1>3, <1>5, <2>1, FreshPassIsAPass
       DEF TypeOK, AgentFault, Fault, EndPass, history, Nodes, consoleVars
<1>6. CASE PipelineStep \/ \E r \in DOMAIN runs : TimePasses(r)
  BY <1>1, <1>2, <1>3, <1>6, PipelineForms DEF TypeOK, AgentStill
<1>7. CASE OperatorStep
  BY <1>1, <1>2, <1>3, <1>7, OperatorForms, ConsoleTypes DEF TypeOK, AgentStill
<1>8. CASE SmokeStep
  BY <1>1, <1>2, <1>3, <1>8, SmokeForms, ConsoleTypes DEF TypeOK, AgentStill
<1>9. CASE UNCHANGED vars
  BY <1>1, <1>2, <1>3, <1>9 DEF TypeOK, vars, agentVars, pipelineVars, consoleVars
<1> QED
  BY <1>4, <1>5, <1>6, <1>7, <1>8, <1>9 DEF Next, AgentStep, OutOfIncidents

\* A row that moves stays in order; a row that stays is judged by more runs.
LEMMA TableStaysInOrder ==
    ASSUME IInv, [Next]_vars
    PROVE  TableInOrder'
<1>1. /\ incidents \in Seq(Row) /\ runs \in Seq(Run)
      /\ \A i \in DOMAIN incidents : RowInOrder(incidents[i]) /\ incidents[i] \in Row
  BY DEF IInv, TypeOK, TableInOrder
<1>2. Len(runs) \in Nat /\ Len(runs') \in Nat /\ Len(runs) <= Len(runs')
      /\ RunsOf("manual") \subseteq RunsOf("manual")' /\ OneInFlight(incidents')
      /\ \A j \in DOMAIN incidents' : incidents'[j] \in Row
  BY <1>1, StoresGrow, ManualRunsStay
<1>3. \A i \in DOMAIN incidents : incidents'[i] = incidents[i] => RowInOrder(incidents[i])'
  BY <1>1, <1>2 DEF RowInOrder, Row
<1> SUFFICES ASSUME NEW i \in DOMAIN incidents' PROVE RowInOrder(incidents[i])'
  BY <1>2 DEF TableInOrder
<1>4. CASE UNCHANGED incidents
  BY <1>3, <1>4
<1>5. CASE Opens
  <2>1. CASE i = Len(incidents')
    BY <1>2, <1>5, <2>1 DEF Opens, RowInOrder, Row
  <2>2. CASE i # Len(incidents')
    BY <1>1, <1>2, <1>3, <1>5, <2>2 DEF Opens
  <2> QED BY <2>1, <2>2
<1>6. ASSUME Changed(i), i \in DOMAIN incidents,
             \/ Offers(i) \/ GivesUp(i) \/ Decides(i) \/ Concludes(i, "verification_failed")
      PROVE  RowInOrder(incidents[i])'
  <2>1. /\ incidents'[i].failing_run_id = incidents[i].failing_run_id
        /\ incidents'[i].verifying_run_id = incidents[i].verifying_run_id
    BY <1>6 DEF Changed, Offers, GivesUp, Decides, Concludes, KeepsItsRun
  <2>2. /\ incidents'[i].failing_run_id <= Len(runs')
        /\ incidents'[i].verifying_run_id # NULL =>
              /\ incidents[i].state \in Decided
              /\ incidents'[i].verifying_run_id \in RunsOf("manual")'
              /\ incidents'[i].failing_run_id < incidents'[i].verifying_run_id
    BY <1>1, <1>2, <1>6, <2>1 DEF RowInOrder, Row
  <2>3. /\ incidents'[i].state # "resolved"
        /\ incidents[i].state \in Decided => incidents'[i].state \in Decided
    BY <1>6 DEF Offers, GivesUp, Decides, Concludes, Decided
  <2>4. incidents'[i].state \notin {"open", "unfixable"} =>
           incidents'[i].model_contents_after \in Contents
    BY <1>1, <1>6 DEF Offers, GivesUp, Decides, Concludes, KeepsItsText, RowInOrder
  <2> QED BY <2>2, <2>3, <2>4 DEF RowInOrder
<1>7. ASSUME pc = "record_verifying_run", i = pass.incident_id,
             i \in DOMAIN incidents, Watches(i, pass.verifying_run_id)
      PROVE  RowInOrder(incidents[i])'
  <2>1. /\ pass.verifying_run_id \in RunsOf("manual")
        /\ incidents[i].failing_run_id < pass.verifying_run_id
    BY <1>7 DEF IInv, ApprovalInHand, Applying
  <2>2. /\ incidents'[i].failing_run_id = incidents[i].failing_run_id
        /\ incidents'[i].verifying_run_id = pass.verifying_run_id
        /\ incidents'[i].model_contents_after = incidents[i].model_contents_after
        /\ incidents[i].state = "approved" /\ incidents'[i].state = "approved"
    BY <1>7 DEF Watches, Changed, KeepsItsText, VerifyingRunUnset
  <2>3. /\ incidents'[i].failing_run_id <= Len(runs')
        /\ incidents'[i].model_contents_after \in Contents
    BY <1>1, <1>2, <1>7, <2>2 DEF RowInOrder, Row
  <2>4. /\ incidents'[i].verifying_run_id \in RunsOf("manual")'
        /\ incidents'[i].failing_run_id < incidents'[i].verifying_run_id
    BY <1>2, <2>1, <2>2
  <2> QED BY <2>2, <2>3, <2>4 DEF RowInOrder, Decided
<1>8. ASSUME pc = "conclude", i = pass.incident_id,
             i \in DOMAIN incidents, Concludes(i, pass.verdict)
      PROVE  RowInOrder(incidents[i])'
  <2>1. /\ incidents[i].verifying_run_id # NULL /\ pass.verdict \in Verdicts
    BY <1>8 DEF IInv, VerdictInHand, Watching
  <2>2. /\ incidents'[i].failing_run_id = incidents[i].failing_run_id
        /\ incidents'[i].verifying_run_id = incidents[i].verifying_run_id
        /\ incidents'[i].model_contents_after = incidents[i].model_contents_after
        /\ incidents[i].state = "approved" /\ incidents'[i].state \in Decided
    BY <1>8, <2>1 DEF Changed, Concludes, KeepsItsRun, KeepsItsText, Verdicts, Decided
  <2>3. /\ incidents'[i].failing_run_id <= Len(runs')
        /\ incidents'[i].verifying_run_id \in RunsOf("manual")'
        /\ incidents'[i].failing_run_id < incidents'[i].verifying_run_id
        /\ incidents'[i].model_contents_after \in Contents
    BY <1>1, <1>2, <1>8, <2>1, <2>2 DEF RowInOrder, Row
  <2> QED BY <2>1, <2>2, <2>3 DEF RowInOrder
<1>9. ASSUME NEW j \in DOMAIN incidents, Changed(j), j # i
      PROVE  RowInOrder(incidents[i])'
  BY <1>1, <1>2, <1>3, <1>9 DEF Changed
<1> QED
  BY <1>4, <1>5, <1>6, <1>7, <1>8, <1>9, StepForms
     DEF TableStep, RunsStep, ProjectStep, PassStep, Offers, GivesUp, Decides, Watches, Concludes, Changed

\* What was decided stays decided, with its text, its failure and its run.
LEMMA DecidedRowsKeep ==
    ASSUME IInv, [Next]_vars, NEW i \in DOMAIN incidents,
           incidents[i].state \in Decided
    PROVE  /\ i \in DOMAIN incidents'
           /\ incidents'[i].state \in Decided
           /\ incidents'[i].model_contents_after = incidents[i].model_contents_after
           /\ incidents'[i].failing_run_id = incidents[i].failing_run_id
           /\ incidents[i].verifying_run_id # NULL =>
                incidents'[i].verifying_run_id = incidents[i].verifying_run_id
<1>1. i \in DOMAIN incidents' /\ incidents \in Seq(Row)
  BY StoresGrow DEF IInv, TypeOK
<1>2. CASE incidents'[i] = incidents[i]
  BY <1>1, <1>2
<1>3. CASE TableStep /\ incidents'[i] # incidents[i]
  <2>1. \/ Concludes(i, "verification_failed")
        \/ Watches(i, pass.verifying_run_id)
        \/ pc = "conclude" /\ i = pass.incident_id /\ Concludes(i, pass.verdict)
    BY <1>1, <1>3 DEF TableStep, Opens, Offers, GivesUp, Decides, Watches, Concludes,
                      Changed, Decided
  <2>2. pc = "conclude" => pass.verdict \in Verdicts
    BY DEF IInv, VerdictInHand, Watching
  <2> QED BY <1>1, <2>1, <2>2 DEF Watches, Concludes, Changed, KeepsItsText, KeepsItsRun,
                                 Decided, Verdicts, VerifyingRunUnset
<1> QED
  BY <1>2, <1>3, StepForms DEF RunsStep, ProjectStep, PassStep

LEMMA FailureStaysInHand ==
    ASSUME IInv, [Next]_vars
    PROVE  FailureInHand'
<1>1. DOMAIN runs \subseteq DOMAIN runs' /\ FailureInHand
  BY StoresGrow DEF IInv
<1>2. CASE TableStep \/ RunsStep \/ ProjectStep
  BY <1>1, <1>2 DEF TableStep, RunsStep, ProjectStep, AgentStill, FailureInHand
<1>3. CASE PassStep
  BY <1>1, <1>3 DEF PassStep, Searches, Prepares, TakesUp, AgentStill, FailureInHand
<1> QED BY <1>2, <1>3, StepForms

LEMMA ProposalStaysInHand ==
    ASSUME IInv, [Next]_vars
    PROVE  ProposalInHand'
<1>1. /\ DOMAIN incidents \subseteq DOMAIN incidents' /\ ProposalInHand
      /\ Len(incidents') \in Nat /\ DOMAIN incidents' = 1..Len(incidents')
      /\ incidents \in Seq(Row)
  BY StoresGrow DEF IInv, TypeOK
<1>2. CASE TableStep \/ RunsStep \/ ProjectStep
  <2>1. Opens => Len(incidents') \in DOMAIN incidents'
    BY <1>1 DEF Opens
  <2> QED BY <1>1, <1>2, <2>1
          DEF TableStep, RunsStep, ProjectStep, AgentStill, ProposalInHand, Proposing
<1>3. CASE PassStep
  BY <1>1, <1>3 DEF PassStep, Searches, Prepares, TakesUp, AgentStill, ProposalInHand, Proposing
<1> QED BY <1>2, <1>3, StepForms

\* A run that can only have read the approved text goes on so while the text is
\* on disk.
LEMMA ReadsOnlyStays ==
    ASSUME IInv, [Next]_vars, NEW r \in DOMAIN runs, NEW text,
           ReadsOnly(runs[r], text), project = text \/ runs[r].state \in Finished
    PROVE  ReadsOnly(runs'[r], text)
<1>1. CASE \E other \in DOMAIN runs : Advances(other)
  BY <1>1, StoresGrow DEF Advances, ReadsOnly
<1>2. CASE runs'[r] = runs[r]
  BY <1>2
<1> QED
  BY <1>1, <1>2, StepForms DEF TableStep, RunsStep, ProjectStep, PassStep, Adds

\* While the agent stands still nobody has a row watch another run.
LEMMA OnlyTheAgentWatches ==
    ASSUME IInv, [Next]_vars, AgentStill, pc # "route_on_state"
    PROVE  \A j \in DOMAIN incidents' :
              \/ incidents'[j].verifying_run_id = NULL
              \/ /\ j \in DOMAIN incidents
                 /\ incidents'[j].verifying_run_id = incidents[j].verifying_run_id
<1>1. incidents \in Seq(Row)
  BY DEF IInv, TypeOK
<1>2. CASE UNCHANGED incidents
  BY <1>2
<1>3. CASE Opens
  <2>1. /\ DOMAIN incidents' = DOMAIN incidents \cup {Len(incidents')}
        /\ \A j \in DOMAIN incidents : incidents'[j] = incidents[j]
        /\ incidents'[Len(incidents')].verifying_run_id = NULL
    BY <1>1, <1>3 DEF Opens
  <2> QED BY <2>1
<1>4. CASE \E i \in DOMAIN incidents : Changed(i) /\ KeepsItsRun(i)
  <2>1. DOMAIN incidents' = DOMAIN incidents
    BY <1>1, <1>4 DEF Changed
  <2> QED BY <1>4, <2>1 DEF Changed, KeepsItsRun
<1>5. UNCHANGED incidents \/ TableStep
  BY StepForms DEF RunsStep, ProjectStep, PassStep
<1>6. TableStep => Opens \/ \E i \in DOMAIN incidents : Changed(i) /\ KeepsItsRun(i)
  BY DEF TableStep, AgentStill, Offers, GivesUp, Decides, Concludes
<1> QED
  BY <1>2, <1>3, <1>4, <1>5, <1>6

LEMMA ApprovalStaysInHand ==
    ASSUME IInv, [Next]_vars
    PROVE  ApprovalInHand'
<1>1. /\ ApprovalInHand /\ incidents \in Seq(Row) /\ runs \in Seq(Run) /\ pass \in Pass
      /\ RunsOf("manual") \subseteq RunsOf("manual")'
      /\ \A i \in DOMAIN incidents : RowInOrder(incidents[i]) /\ incidents[i] \in Row
  BY ManualRunsStay DEF IInv, TypeOK, TableInOrder
<1> SUFFICES ASSUME pc' \in Applying
             PROVE  ApprovalInHand'
  BY DEF ApprovalInHand
<1>2. CASE AgentStill /\ UNCHANGED project
  <2> DEFINE i == pass.incident_id
             run == pass.verifying_run_id
  <2>1. /\ i \in DOMAIN incidents /\ incidents[i].state \in Decided
        /\ incidents[i].model_contents_after = pass.contents_to_write
        /\ pc \in {"trigger_rerun", "record_verifying_run"} =>
             project = pass.contents_to_write
    BY <1>1, <1>2 DEF AgentStill, ApprovalInHand
  <2>2. /\ i \in DOMAIN incidents' /\ incidents'[i].state \in Decided
        /\ incidents'[i].model_contents_after = pass.contents_to_write
        /\ incidents'[i].failing_run_id = incidents[i].failing_run_id
    BY <2>1, DecidedRowsKeep
  <2>3. ASSUME pc = "record_verifying_run"
        PROVE  /\ run \in RunsOf("manual")'
               /\ ReadsOnly(runs'[run], pass.contents_to_write)
               /\ incidents'[i].failing_run_id < run
               /\ \A j \in DOMAIN incidents' : incidents'[j].verifying_run_id # run
    <3>1. /\ run \in RunsOf("manual")
          /\ ReadsOnly(runs[run], pass.contents_to_write)
          /\ incidents[i].failing_run_id < run
          /\ \A j \in DOMAIN incidents : incidents[j].verifying_run_id # run
      BY <1>1, <2>3 DEF ApprovalInHand, Applying
    <3>2. ReadsOnly(runs'[run], pass.contents_to_write)
      BY <2>1, <2>3, <3>1, ReadsOnlyStays DEF RunsOf
    <3>3. run # NULL
      BY <1>1, <3>1, SelfHealingAssumption DEF RunsOf
    <3>4. \A j \in DOMAIN incidents' : incidents'[j].verifying_run_id # run
      BY <1>2, <2>3, <3>1, <3>3, OnlyTheAgentWatches
    <3> QED BY <1>1, <2>2, <3>1, <3>2, <3>4
  <2> QED BY <1>2, <2>1, <2>2, <2>3 DEF ApprovalInHand, AgentStill
<1>3. CASE RunsStep /\ ~AgentStill
  <2> DEFINE run == Len(runs')
  <2>1. /\ pc = "trigger_rerun" /\ pc' = "record_verifying_run"
        /\ pass' = [pass EXCEPT !.verifying_run_id = run]
        /\ Adds("manual") /\ UNCHANGED <<incidents, project>>
    BY <1>3 DEF RunsStep
  <2>2. /\ pass'.incident_id = pass.incident_id
        /\ pass'.contents_to_write = pass.contents_to_write
        /\ pass'.verifying_run_id = run
    BY <1>1, <2>1 DEF Pass
  <2>3. /\ run \in DOMAIN runs' /\ run = Len(runs) + 1 /\ Len(runs) \in Nat
        /\ runs'[run].trigger = "manual" /\ runs'[run].state = "queued"
    BY <1>1, <2>1 DEF Adds, NewRun
  <2>4. \A j \in DOMAIN incidents :
           /\ incidents[j].failing_run_id < run
           /\ incidents[j].verifying_run_id # run
    <3> TAKE j \in DOMAIN incidents
    <3>1. incidents[j].failing_run_id \in Nat /\ incidents[j].failing_run_id <= Len(runs)
      BY <1>1 DEF Row, RowInOrder
    <3>2. incidents[j].verifying_run_id # NULL => incidents[j].verifying_run_id \in 1..Len(runs)
      BY <1>1 DEF RowInOrder, RunsOf
    <3> QED BY <2>3, <3>1, <3>2, SelfHealingAssumption
  <2>5. run \in RunsOf("manual")' /\ ReadsOnly(runs'[run], pass.contents_to_write)
    BY <2>3 DEF RunsOf, ReadsOnly
  <2> HIDE DEF run
  <2> QED BY <1>1, <2>1, <2>2, <2>4, <2>5 DEF ApprovalInHand, Applying
<1>4. CASE ProjectStep
  BY <1>1, <1>4 DEF ProjectStep, ApprovalInHand, Applying
<1>5. CASE PassStep /\ pc' = "apply_fix"
  <2>1. CASE AgentStill
    BY <1>2, <1>5, <2>1 DEF PassStep
  <2>2. CASE ~AgentStill
    BY <1>1, <1>5, <2>2
       DEF PassStep, Searches, Prepares, TakesUp, ApprovalInHand, VerifyingRunUnset, Decided
  <2> QED BY <2>1, <2>2
<1>6. CASE AgentStill
  BY <1>2, <1>4, <1>6, StepForms DEF TableStep, RunsStep, PassStep
<1>7. CASE TableStep /\ ~AgentStill
  BY <1>7 DEF TableStep, Applying
<1>8. CASE PassStep /\ pc' # "apply_fix" /\ ~AgentStill
  BY <1>8 DEF PassStep, Searches, Prepares, TakesUp, Applying
<1> QED
  BY <1>3, <1>4, <1>5, <1>6, <1>7, <1>8, StepForms

LEMMA VerdictStaysInHand ==
    ASSUME IInv, [Next]_vars
    PROVE  VerdictInHand'
<1>1. /\ VerdictInHand /\ runs \in Seq(Run) /\ incidents \in Seq(Row)
      /\ \A i \in DOMAIN incidents : RowInOrder(incidents[i])
  BY DEF IInv, TypeOK, TableInOrder
<1> SUFFICES ASSUME pc' \in Watching
             PROVE  VerdictInHand'
  BY DEF VerdictInHand
<1>2. CASE AgentStill
  <2> DEFINE i == pass.incident_id
             run == pass.verifying_run_id
  <2>1. /\ i \in DOMAIN incidents /\ run # NULL
        /\ incidents[i].verifying_run_id = run
        /\ pc = "conclude" =>
              /\ pass.verdict \in Verdicts
              /\ pass.verdict = "resolved" => runs[run].state = "success"
    BY <1>1, <1>2 DEF AgentStill, VerdictInHand
  <2>2. incidents[i].state \in Decided /\ run \in DOMAIN runs
    BY <1>1, <2>1 DEF RowInOrder, RunsOf
  <2>3. i \in DOMAIN incidents' /\ incidents'[i].verifying_run_id = run
    BY <2>1, <2>2, DecidedRowsKeep
  <2>4. runs[run].state = "success" => runs'[run].state = "success"
    BY <2>2, StoresGrow DEF Finished
  <2> QED BY <1>2, <2>1, <2>3, <2>4 DEF AgentStill, VerdictInHand
<1>3. CASE PassStep /\ ~AgentStill
  <2>1. UNCHANGED <<incidents, runs>> /\ TakesUp
    BY <1>3 DEF PassStep, Searches, Prepares, Watching
  <2> QED BY <1>1, <2>1 DEF TakesUp, VerdictInHand, Watching
<1> QED
  BY <1>2, <1>3, StepForms DEF TableStep, RunsStep, ProjectStep, Watching

\* Only the agent, acting for the one incident in flight, changes the file.
LEMMA WatchedRunsStayOnTheFix ==
    ASSUME IInv, [Next]_vars
    PROVE  WatchedRunsReadTheFix'
<1>1. /\ incidents \in Seq(Row) /\ incidents' \in Seq(Row) /\ runs \in Seq(Run)
      /\ OneInFlight(incidents) /\ OneInFlight(incidents')
      /\ WatchedRunsReadTheFix
      /\ \A j \in DOMAIN incidents : RowInOrder(incidents[j])
  BY StoresGrow DEF IInv, TypeOK, TableInOrder
<1> SUFFICES ASSUME NEW i \in DOMAIN incidents', incidents'[i].state = "approved",
                    incidents'[i].verifying_run_id # NULL
             PROVE  /\ pc' \notin Applying
                    /\ project' = incidents'[i].model_contents_after
                    /\ ReadsOnly(runs'[incidents'[i].verifying_run_id],
                                 incidents'[i].model_contents_after)
  BY DEF WatchedRunsReadTheFix, At
<1>2. CASE /\ i \in DOMAIN incidents /\ incidents[i].state = "approved"
           /\ incidents[i].verifying_run_id # NULL
  <2> DEFINE run == incidents[i].verifying_run_id
             text == incidents[i].model_contents_after
  <2>1. /\ pc \notin Applying /\ project = text /\ ReadsOnly(runs[run], text)
        /\ run \in DOMAIN runs
    BY <1>1, <1>2 DEF WatchedRunsReadTheFix, At, RowInOrder, RunsOf
  <2>2. /\ incidents'[i].model_contents_after = text
        /\ incidents'[i].verifying_run_id = run
    BY <1>2, DecidedRowsKeep DEF Decided
  <2>3. ReadsOnly(runs'[run], text)
    BY <2>1, ReadsOnlyStays
  <2>4. project' = text
    BY <2>1, StepForms DEF TableStep, RunsStep, ProjectStep, PassStep, Applying
  <2>5. pc' \notin Applying
    <3>1. \A j \in DOMAIN incidents : VerifyingRunUnset(j) => FALSE
      BY <1>1, <1>2 DEF VerifyingRunUnset, OneInFlight, InFlight, Terminal
    <3> QED BY <2>1, <3>1, StepForms
            DEF TableStep, RunsStep, ProjectStep, PassStep, AgentStill, Searches,
                Prepares, TakesUp, Applying
  <2> QED BY <2>2, <2>3, <2>4, <2>5
<1>3. CASE ~(/\ i \in DOMAIN incidents /\ incidents[i].state = "approved"
             /\ incidents[i].verifying_run_id # NULL)
  <2>1. TableStep
    BY <1>3, StepForms DEF RunsStep, ProjectStep, PassStep
  <2>2. /\ pc = "record_verifying_run" /\ pc' = "route_on_state"
        /\ i = pass.incident_id /\ i \in DOMAIN incidents
        /\ Watches(i, pass.verifying_run_id)
    <3>1. CASE Opens
      BY <1>1, <1>3, <3>1 DEF Opens
    <3>2. PICK j \in DOMAIN incidents :
             \/ Offers(j) \/ GivesUp(j) \/ Decides(j)
             \/ Concludes(j, "verification_failed")
             \/ /\ pc = "record_verifying_run" /\ pc' = "route_on_state"
                /\ j = pass.incident_id /\ Watches(j, pass.verifying_run_id)
             \/ pc = "conclude" /\ Concludes(j, pass.verdict)
      BY <2>1, <3>1 DEF TableStep, Opens
    <3>3. j = i
      BY <1>1, <1>3, <3>2 DEF Offers, GivesUp, Decides, Concludes, Watches, Changed
    <3>4. pc = "conclude" => pass.verdict \in Verdicts
      BY DEF IInv, VerdictInHand, Watching
    <3> QED BY <1>1, <1>3, <3>2, <3>3, <3>4
            DEF Offers, GivesUp, Decides, Concludes, KeepsItsRun, RowInOrder, Decided, Verdicts
  <2>3. UNCHANGED <<runs, project>>
    BY <2>1 DEF TableStep
  <2> QED BY <2>2, <2>3 DEF IInv, ApprovalInHand, Applying, Watches, KeepsItsText
<1> QED BY <1>2, <1>3

LEMMA PagesStayInHand ==
    ASSUME IInv, [Next]_vars
    PROVE  PagesInHand'
<1>1. DOMAIN incidents \subseteq DOMAIN incidents' /\ PagesInHand /\ pages \in [Tabs -> Page]
  BY StoresGrow DEF IInv, TypeOK
<1>2. CASE UNCHANGED pages
  BY <1>1, <1>2 DEF PagesInHand
<1>3. CASE OperatorStep
  <2>1. PICK tab \in Tabs : TabStep(tab) /\ \A other \in Tabs \ {tab} : pages'[other] = pages[other]
    BY <1>3, OperatorForms
  <2>2. \/ pages'[tab] = NoProposal
        \/ At(Current, "proposed") /\ pages'[tab] = Snapshot(Current)
    BY <2>1 DEF TabStep
  <2>3. At(Current, "proposed") => incidents[Current].model_contents_after \in Contents
    BY DEF At, IInv, TableInOrder, RowInOrder
  <2>4. pages'[tab].id # 0 => /\ pages'[tab].id \in DOMAIN incidents
                              /\ pages'[tab].state = "proposed"
                              /\ pages'[tab].after \in Contents
    BY <2>2, <2>3 DEF NoProposal, Snapshot, At
  <2> QED BY <1>1, <2>1, <2>4 DEF PagesInHand
<1> QED
  BY <1>2, <1>3, SmokeForms, PipelineForms
     DEF Next, AgentStep, AgentFault, OutOfIncidents, vars, consoleVars

\* The verdict comes from the recorded run, and that run read the text.
LEMMA ResolvedStays ==
    ASSUME IInv, [Next]_vars
    PROVE  ResolvedRunReadTheFix'
<1>1. /\ incidents \in Seq(Row) /\ incidents' \in Seq(Row) /\ runs \in Seq(Run)
      /\ ResolvedRunReadTheFix
      /\ \A j \in DOMAIN incidents : RowInOrder(incidents[j])
  BY StoresGrow DEF IInv, TypeOK, TableInOrder
<1> SUFFICES ASSUME NEW i \in DOMAIN incidents', incidents'[i].state = "resolved"
             PROVE  LET run == runs'[incidents'[i].verifying_run_id]
                    IN /\ run.trigger = "manual" /\ run.state = "success"
                       /\ run.read = incidents'[i].model_contents_after
  BY DEF ResolvedRunReadTheFix
<1>2. CASE i \in DOMAIN incidents /\ incidents[i].state = "resolved"
  <2>1. incidents[i].verifying_run_id \in DOMAIN runs
    BY <1>1, <1>2 DEF RowInOrder, RunsOf
  <2>2. runs'[incidents[i].verifying_run_id] = runs[incidents[i].verifying_run_id]
    BY <1>1, <1>2, <2>1, StoresGrow DEF ResolvedRunReadTheFix, Finished
  <2> QED BY <1>1, <1>2, <2>1, <2>2, DecidedRowsKeep
          DEF ResolvedRunReadTheFix, RowInOrder, Decided
<1>3. CASE ~(i \in DOMAIN incidents /\ incidents[i].state = "resolved")
  <2>1. TableStep
    BY <1>3, StepForms DEF RunsStep, ProjectStep, PassStep
  <2>2. /\ pc = "conclude" /\ i = pass.incident_id /\ i \in DOMAIN incidents
        /\ pass.verdict = "resolved" /\ Concludes(i, pass.verdict) /\ UNCHANGED runs
    BY <1>1, <1>3, <2>1
       DEF TableStep, Opens, Offers, GivesUp, Decides, Concludes, Watches, Changed
  <2> DEFINE run == incidents[i].verifying_run_id
  <2>3. run # NULL /\ runs[run].state = "success"
    BY <2>2 DEF IInv, VerdictInHand, Watching
  <2>4. /\ runs[run].trigger = "manual"
        /\ ReadsOnly(runs[run], incidents[i].model_contents_after)
    BY <1>1, <2>2, <2>3
       DEF Concludes, IInv, WatchedRunsReadTheFix, At, RowInOrder, RunsOf
  <2> QED BY <2>2, <2>3, <2>4 DEF Concludes, KeepsItsRun, KeepsItsText, ReadsOnly
<1> QED BY <1>2, <1>3

LEMMA ProofsStayApart ==
    ASSUME IInv, [Next]_vars
    PROVE  EachProofIsItsOwn'
<1>1. /\ incidents \in Seq(Row) /\ incidents' \in Seq(Row) /\ EachProofIsItsOwn
      /\ \A j \in DOMAIN incidents : RowInOrder(incidents[j])
  BY StoresGrow DEF IInv, TypeOK, TableInOrder
<1>2. CASE /\ \A j \in DOMAIN incidents :
                 /\ incidents'[j].verifying_run_id = incidents[j].verifying_run_id
                 /\ incidents'[j].failing_run_id = incidents[j].failing_run_id
           /\ \A j \in DOMAIN incidents' \ DOMAIN incidents :
                 incidents'[j].verifying_run_id = NULL
  BY <1>1, <1>2 DEF EachProofIsItsOwn
<1>3. CASE /\ pc = "record_verifying_run" /\ pass.incident_id \in DOMAIN incidents
           /\ Watches(pass.incident_id, pass.verifying_run_id)
  <2> DEFINE i == pass.incident_id
             run == pass.verifying_run_id
  <2>1. /\ \A j \in DOMAIN incidents : incidents[j].verifying_run_id # run
        /\ incidents[i].failing_run_id < run
    BY <1>3 DEF IInv, ApprovalInHand, Applying
  <2>2. /\ incidents'[i].verifying_run_id = run
        /\ incidents'[i].failing_run_id = incidents[i].failing_run_id
        /\ DOMAIN incidents' = DOMAIN incidents
        /\ \A j \in DOMAIN incidents \ {i} : incidents'[j] = incidents[j]
    BY <1>1, <1>3 DEF Watches, Changed
  <2> QED BY <1>1, <2>1, <2>2 DEF EachProofIsItsOwn
<1>4. CASE Opens
  <2>1. DOMAIN incidents' = DOMAIN incidents \cup {Len(incidents')}
    BY <1>1, <1>4 DEF Opens
  <2> QED BY <1>2, <1>4, <2>1 DEF Opens
<1>5. ASSUME NEW i \in DOMAIN incidents, Changed(i), KeepsItsRun(i)
      PROVE  EachProofIsItsOwn'
  BY <1>1, <1>2, <1>5 DEF Changed, KeepsItsRun
<1>6. CASE UNCHANGED incidents
  BY <1>2, <1>6
<1> QED
  BY <1>3, <1>4, <1>5, <1>6, StepForms
     DEF TableStep, RunsStep, ProjectStep, PassStep, Offers, GivesUp, Decides, Concludes

-----------------------------------------------------------------------------
(* The theorems *)

LEMMA NextIInv ==
    ASSUME IInv, [Next]_vars
    PROVE  IInv'
BY TypeStep, TableStaysInOrder, FailureStaysInHand, ProposalStaysInHand,
   ApprovalStaysInHand, VerdictStaysInHand, WatchedRunsStayOnTheFix, PagesStayInHand,
   ResolvedStays, ProofsStayApart
   DEF IInv

\* The invariant the theorems below read their part from.
THEOREM Inductive == Spec => []IInv
BY InitIInv, NextIInv, PTL DEF Spec

\* Every column, field and page holds a value of its kind.
THEOREM TypeCorrect == Spec => []TypeOK
<1>1. IInv => TypeOK
  BY DEF IInv
<1> QED BY <1>1, Inductive, PTL

\* An incident is resolved only by a run that was started by hand, read the
\* approved text and succeeded (verify_success, ADR-0024).
THEOREM ResolutionIsProved == Spec => []ResolvedRunReadTheFix
<1>1. IInv => ResolvedRunReadTheFix
  BY DEF IInv
<1> QED BY <1>1, Inductive, PTL

\* Two incidents never share a verifying run, and it is newer than the failure.
THEOREM ProofsAreApart == Spec => []EachProofIsItsOwn
<1>1. IInv => EachProofIsItsOwn
  BY DEF IInv
<1> QED BY <1>1, Inductive, PTL

\* RECORD_VERIFYING_RUN never replaces a run that is recorded, whoever else
\* writes the row and however often the agent starts again.
THEOREM WatchedRunsAreKept == Spec => WatchedRunIsKept
<1>1. ASSUME IInv, [Next]_vars
      PROVE  \A i \in DOMAIN incidents :
                incidents[i].verifying_run_id # NULL =>
                   incidents'[i].verifying_run_id = incidents[i].verifying_run_id
  BY <1>1, DecidedRowsKeep DEF IInv, TableInOrder, RowInOrder
<1> QED BY <1>1, Inductive, PTL DEF Spec, WatchedRunIsKept

-----------------------------------------------------------------------------
(* Spare runs *)

\* The decided incidents that wait for no run any more: they have one, or they
\* were closed without.
Done == {i \in DOMAIN incidents : incidents[i].state \in Decided /\ ~VerifyingRunUnset(i)}

\* Those a run was paid for.  The incident a pass acts for pays when the run is
\* started, whatever becomes of the record meanwhile.
Paid ==
    CASE pc = "record_verifying_run" -> Done \cup {pass.incident_id}
      [] pc \in Applying \ {"record_verifying_run"} -> Done \ {pass.incident_id}
      [] OTHER -> Done

RunsArePaid == Cardinality(RunsOf("manual")) <= Cardinality(Paid) + faults

Finite ==
    /\ IsFiniteSet(RunsOf("manual")) /\ Cardinality(RunsOf("manual")) \in Nat
    /\ IsFiniteSet(Done) /\ Cardinality(Done) \in Nat
    /\ IsFiniteSet(Paid) /\ Cardinality(Paid) \in Nat

LEMMA RunsAndPaidAreFinite == IInv => Finite
<1> SUFFICES ASSUME IInv PROVE Finite
  OBVIOUS
<1>1. incidents \in Seq(Row) /\ runs \in Seq(Run)
  BY DEF IInv, TypeOK
<1>2. IsFiniteSet(1..Len(incidents)) /\ IsFiniteSet(1..Len(runs))
  BY <1>1, FS_Interval
<1>3. RunsOf("manual") \in SUBSET (1..Len(runs)) /\ Done \in SUBSET (1..Len(incidents))
  BY <1>1 DEF RunsOf, Done
<1>4. IsFiniteSet(RunsOf("manual")) /\ IsFiniteSet(Done)
  BY <1>2, <1>3, FS_Subset
<1>5. IsFiniteSet(Paid)
  BY <1>4, FS_AddElement, FS_RemoveElement DEF Paid
<1> QED
  BY <1>4, <1>5, FS_CardinalityType DEF Finite

LEMMA AtMostOneMore ==
    ASSUME NEW S, NEW x, IsFiniteSet(S)
    PROVE  Cardinality(S \cup {x}) <= Cardinality(S) + 1
<1>1. Cardinality(S) \in Nat
  BY FS_CardinalityType
<1>2. Cardinality(S \cup {x}) \in {Cardinality(S), Cardinality(S) + 1}
  BY FS_AddElement
<1> QED BY <1>1, <1>2

LEMMA NextAreFinite == IInv' => Finite'
BY RunsAndPaidAreFinite, PTL

\* An incident that waits for no run never waits for one again.
LEMMA DoneStays ==
    ASSUME IInv, [Next]_vars
    PROVE  Done \subseteq Done'
<1> SUFFICES ASSUME NEW i \in Done PROVE i \in Done'
  OBVIOUS
<1>1. /\ i \in DOMAIN incidents /\ incidents[i].state \in Decided
      /\ incidents[i].state # "approved" \/ incidents[i].verifying_run_id # NULL
  BY DEF Done, VerifyingRunUnset
<1>2. /\ i \in DOMAIN incidents' /\ incidents'[i].state \in Decided
      /\ incidents[i].verifying_run_id # NULL =>
           incidents'[i].verifying_run_id = incidents[i].verifying_run_id
  BY <1>1, DecidedRowsKeep
<1>3. incidents[i].state # "approved" => incidents'[i].state # "approved"
  <2>1. CASE TableStep
    BY <1>1, <2>1 DEF TableStep, Opens, Offers, GivesUp, Decides, Watches, Concludes, Changed,
                      Decided, VerifyingRunUnset
  <2> QED BY <2>1, StepForms DEF RunsStep, ProjectStep, PassStep
<1> QED
  BY <1>1, <1>2, <1>3 DEF Done, VerifyingRunUnset

\* A pass leaves the incident it has started a run for paid, or by a fault.
LEMMA RunsAreRecordedOrLost ==
    ASSUME IInv, [Next]_vars, pc = "record_verifying_run", ~AgentStill
    PROVE  /\ pc' = "route_on_state"
           /\ pass.incident_id \in Done' \/ faults' = faults + 1
<1>1. /\ pass.incident_id \in DOMAIN incidents
      /\ incidents[pass.incident_id].state \in Decided
      /\ pass.verifying_run_id \in DOMAIN runs /\ runs \in Seq(Run)
      /\ incidents \in Seq(Row)
  BY DEF IInv, ApprovalInHand, Applying, RunsOf, TypeOK
<1>2. CASE RecordVerifyingRunNode
  <2>1. CASE RecordVerifyingRun(pass.incident_id, pass.verifying_run_id)
    <3>1. Watches(pass.incident_id, pass.verifying_run_id)
      BY <1>1, <2>1, RecordVerifyingRunMoves
    <3>2. pass.verifying_run_id # NULL
      BY <1>1, SelfHealingAssumption
    <3>3. pass.incident_id \in Done'
      BY <1>1, <3>1, <3>2 DEF Done, Watches, Changed, VerifyingRunUnset, Decided
    <3> QED BY <1>2, <3>3 DEF RecordVerifyingRunNode, EndPass
  <2>2. CASE ~VerifyingRunUnset(pass.incident_id)
    <3>1. pass.incident_id \in Done
      BY <1>1, <2>2 DEF Done
    <3> QED BY <1>2, <3>1, DoneStays DEF RecordVerifyingRunNode, EndPass
  <2> QED BY <1>2, <2>1, <2>2 DEF RecordVerifyingRunNode
<1>3. CASE AgentFault
  BY <1>3 DEF AgentFault, Fault, EndPass
<1> QED
  BY <1>2, <1>3, OperatorForms, SmokeForms, PipelineForms
     DEF Next, AgentStep, Node, OutOfIncidents, vars, agentVars, AgentStill,
         RouteOnState, Idle, DetectFailure, FetchFailureLog, InspectSchema,
         DiagnoseFailure, RecordIncident, ResumeIncident, ProposeFix,
         ValidateCandidate, JudgeProposal, RecordProposalNode, GiveUp, LoadApproved,
         ApplyFix, TriggerRerun, VerifySuccess, WriteVerdict

LEMMA FaultsGrow ==
    ASSUME IInv, [Next]_vars
    PROVE  faults \in Nat /\ faults' \in Nat /\ faults <= faults'
<1>1. TypeOK /\ TypeOK'
  BY TypeStep DEF IInv
<1>2. faults \in Nat /\ faults' \in Nat
  BY <1>1, AgentAssumption DEF TypeOK
<1>3. faults' \in {faults, faults + 1}
  BY OperatorForms, SmokeForms, PipelineForms
     DEF Next, AgentStep, AgentFault, Fault, Node, OutOfIncidents, vars, agentVars,
         RouteOnState, Idle, DetectFailure, FetchFailureLog, InspectSchema,
         DiagnoseFailure, RecordIncident, ResumeIncident, ProposeFix,
         ValidateCandidate, JudgeProposal, RecordProposalNode, GiveUp, LoadApproved,
         ApplyFix, TriggerRerun, RecordVerifyingRunNode, VerifySuccess, WriteVerdict
<1> QED BY <1>2, <1>3

\* A run more is an incident more that is paid for.
LEMMA RunsStayPaid ==
    ASSUME IInv, RunsArePaid, [Next]_vars
    PROVE  RunsArePaid'
<1>1. /\ faults \in Nat /\ faults' \in Nat /\ faults <= faults'
      /\ Done \subseteq Done' /\ runs \in Seq(Run) /\ Finite /\ Finite'
  BY FaultsGrow, DoneStays, RunsAndPaidAreFinite, NextAreFinite, NextIInv DEF IInv, TypeOK
<1> USE DEF Finite
<1>2. CASE RunsOf("manual")' = RunsOf("manual") /\ Paid \subseteq Paid'
  <2>1. Cardinality(Paid) <= Cardinality(Paid')
    BY <1>1, <1>2, FS_Subset
  <2> QED BY <1>1, <1>2, <2>1 DEF RunsArePaid
<1>3. CASE pc = "trigger_rerun" /\ ~AgentStill /\ RunsStep
  <2>1. /\ pc' = "record_verifying_run" /\ Adds("manual") /\ UNCHANGED incidents
        /\ pass'.incident_id = pass.incident_id
    BY <1>3 DEF RunsStep, Pass, IInv, TypeOK
  <2>2. RunsOf("manual")' = RunsOf("manual") \cup {Len(runs')}
    BY <1>1, <2>1 DEF Adds, RunsOf, NewRun
  <2>3. Cardinality(RunsOf("manual")') <= Cardinality(RunsOf("manual")) + 1
    BY <1>1, <2>2, AtMostOneMore
  <2>4. Paid = Done \ {pass.incident_id} /\ Paid' = Done \cup {pass.incident_id}
    BY <1>3, <2>1 DEF Paid, Applying, Done, VerifyingRunUnset
  <2>5. Paid' = Paid \cup {pass.incident_id} /\ pass.incident_id \notin Paid
    BY <2>4
  <2>6. Cardinality(Paid') = Cardinality(Paid) + 1
    BY <1>1, <2>5, FS_AddElement
  <2> QED BY <1>1, <2>3, <2>6 DEF RunsArePaid
<1>4. CASE ~(pc = "trigger_rerun" /\ ~AgentStill /\ RunsStep)
  <2>1. RunsOf("manual")' = RunsOf("manual")
    <3>1. CASE RunsStep
      <4>1. CASE \E r \in DOMAIN runs : Advances(r)
        BY <1>1, <4>1 DEF Advances, RunsOf
      <4>2. CASE Adds("scheduled")
        BY <1>1, <4>2 DEF Adds, RunsOf, NewRun
      <4>3. CASE AgentStill /\ pc = "trigger_rerun" /\ pc' = "record_verifying_run"
        BY <4>3 DEF AgentStill
      <4> QED BY <1>4, <3>1, <4>1, <4>2, <4>3 DEF RunsStep
    <3> QED BY <3>1, StepForms DEF TableStep, ProjectStep, PassStep, RunsOf
  <2>2. CASE pc = "record_verifying_run" /\ ~AgentStill
    <3>1. /\ pc' = "route_on_state" /\ Paid = Done \cup {pass.incident_id} /\ Paid' = Done'
          /\ pass.incident_id \in Done' \/ faults' = faults + 1
      BY <2>2, RunsAreRecordedOrLost DEF Paid, Applying
    <3>2. CASE pass.incident_id \in Done'
      BY <1>1, <1>2, <2>1, <3>1, <3>2
    <3>3. CASE faults' = faults + 1
      <4>1. Cardinality(Done) <= Cardinality(Done')
        BY <1>1, FS_Subset
      <4>2. Cardinality(Paid) <= Cardinality(Done) + 1
        BY <1>1, <3>1, AtMostOneMore
      <4> QED BY <1>1, <2>1, <3>1, <3>3, <4>1, <4>2 DEF RunsArePaid
    <3> QED BY <3>1, <3>2, <3>3
  <2>3. CASE AgentStill
    BY <1>1, <1>2, <2>1, <2>3 DEF AgentStill, Paid
  <2>4. CASE pc # "record_verifying_run" /\ ~AgentStill
    <3>1. pc' # "record_verifying_run"
      BY <1>4, <2>4, StepForms
         DEF TableStep, RunsStep, ProjectStep, PassStep, Searches, Prepares, TakesUp
    <3>2. CASE pc' \notin Applying
      BY <1>1, <1>2, <2>1, <2>4, <3>1, <3>2 DEF Paid
    <3>3. CASE pc' = "apply_fix"
      <4>1. /\ VerifyingRunUnset(pass'.incident_id) /\ UNCHANGED incidents
        BY <2>4, <3>3, StepForms
           DEF TableStep, RunsStep, ProjectStep, PassStep, Searches, Prepares, TakesUp
      <4>2. pass'.incident_id \notin Done /\ Done' = Done
        BY <4>1 DEF Done, VerifyingRunUnset
      <4> QED BY <1>1, <1>2, <2>1, <2>4, <3>1, <3>3, <4>2 DEF Paid
    <3>4. CASE pc' \in Applying /\ pc' # "apply_fix"
      <4>1. ProjectStep
        BY <1>4, <2>4, <3>1, <3>4, StepForms
           DEF TableStep, RunsStep, PassStep, Searches, Prepares, TakesUp, Applying
      <4>2. Paid' = Done' \ {pass.incident_id} /\ Paid = Done \ {pass.incident_id}
        BY <4>1 DEF ProjectStep, Paid, Applying
      <4> QED BY <1>1, <1>2, <2>1, <4>2
    <3> QED BY <3>2, <3>3, <3>4
  <2> QED BY <2>2, <2>3, <2>4
<1> QED
  BY <1>3, <1>4

\* The agent starts one run per approved incident and one more per fault, the
\* smoke test's interference included (trigger_rerun, ADR-0024).
THEOREM SpareRunsArePaidByFaults == Spec => []SpareRunsAreBounded
<1>1. Init => RunsArePaid
  <2> SUFFICES ASSUME Init PROVE RunsArePaid
    OBVIOUS
  <2>1. RunsOf("manual") = {} /\ faults = 0
    BY DEF Init, PipelineInit, AgentInit, RunsOf
  <2>2. Cardinality(Paid) \in Nat
    BY InitIInv, RunsAndPaidAreFinite DEF Finite
  <2> QED BY <2>1, <2>2, FS_EmptySet DEF RunsArePaid
<1>2. IInv /\ RunsArePaid => SpareRunsAreBounded
  <2> SUFFICES ASSUME IInv, RunsArePaid PROVE SpareRunsAreBounded
    OBVIOUS
  <2> DEFINE D == {i \in DOMAIN incidents : incidents[i].state \in Decided}
  <2>1. /\ Cardinality(Paid) \in Nat /\ Cardinality(RunsOf("manual")) \in Nat
        /\ faults \in Nat /\ incidents \in Seq(Row)
    BY RunsAndPaidAreFinite, AgentAssumption DEF IInv, TypeOK, Finite
  <2>2. D \in SUBSET (1..Len(incidents)) /\ IsFiniteSet(1..Len(incidents))
    <3>1. Len(incidents) \in Int /\ DOMAIN incidents = 1..Len(incidents)
      BY <2>1
    <3>2. IsFiniteSet(1..Len(incidents))
      BY <3>1, FS_Interval
    <3> QED BY <3>1, <3>2
  <2>3. IsFiniteSet(D)
    BY <2>2, FS_Subset
  <2>4. Paid \in SUBSET D
    BY DEF Paid, Done, IInv, ApprovalInHand, Applying
  <2>5. Cardinality(Paid) <= Cardinality(D) /\ Cardinality(D) \in Nat
    BY <2>3, <2>4, FS_Subset, FS_CardinalityType
  <2> HIDE DEF D
  <2>6. Cardinality(RunsOf("manual")) <= Cardinality(D) + faults
    BY <2>1, <2>5 DEF RunsArePaid
  <2> QED BY <2>6 DEF SpareRunsAreBounded, D
<1>3. IInv /\ RunsArePaid /\ [Next]_vars => RunsArePaid'
  BY RunsStayPaid
<1> QED BY <1>1, <1>2, <1>3, Inductive, PTL DEF Spec
=============================================================================
