------------------------ MODULE SelfHealingGate_proofs ------------------------
(***************************************************************************)
(* What holds of the whole loop while the agent and the console are the    *)
(* only writers of the record, which is when the smoke test does not run   *)
(* beside them: the file and the runs follow the operator's approval.      *)
(***************************************************************************)
EXTENDS SelfHealing_proofs

\* The nodes that hold the text a proposal is made against.
Reading == {"diagnose", "record_incident", "propose_fix", "validate_candidate",
            "judge_proposal", "record_proposal"}

\* Nobody but the agent moves an open incident, so the one it proposes for is
\* open all along, and the file is as the pass read it.
OpenInHand ==
    /\ pc \in Proposing => At(pass.incident_id, "open")
    /\ pc \in Reading => pass.model_sql = project
    /\ pc \in {"judge_proposal", "record_proposal"} =>
         <<pass.incident_id, pass.candidate_sql>> \in built
    /\ pc = "record_proposal" => pass.judge_review \in Reviews

\* What so many faults pay for.
Budget(n) == MaxFixAttempts * n

\* A pass pays for its own candidates, at most MaxFixAttempts of them; what an
\* open incident has cost before was paid for by faults.
TriesInHand ==
    /\ pc \notin Proposing => pass.attempts = 0
    /\ pass.attempts <= MaxFixAttempts
    /\ pc = "propose_fix" => pass.attempts < MaxFixAttempts
    /\ pc \in Proposing => tried <= Budget(faults) + pass.attempts
    /\ (\E i \in DOMAIN incidents : incidents[i].state = "open") /\ pc \notin Proposing =>
         tried <= Budget(faults)
    /\ TriesPaidByFaults

\* Nobody but the agent moves an approved incident, so the one it applies still
\* waits for its run.
UnsetInHand == pc \in Applying => VerifyingRunUnset(pass.incident_id)

\* A page whose incident still awaits a decision shows it as it is, and no
\* incident that was shown is open again.
PagesAreTrue ==
    \A tab \in Tabs :
       pages[tab].id # 0 =>
          /\ incidents[pages[tab].id].state # "open"
          /\ incidents[pages[tab].id].state = "proposed" =>
               /\ pages[tab].after = incidents[pages[tab].id].model_contents_after
               /\ pages[tab].judge_review = incidents[pages[tab].id].judge_review

GateInv ==
    /\ smoke = "done"
    /\ OpenInHand
    /\ TriesInHand
    /\ UnsetInHand
    /\ PagesAreTrue
    /\ ShownDifferenceIsReal
    /\ OfferedFixesWereBuilt
    /\ ApprovedIsWhatWasShown
    /\ ReviewsAreAssessed
    /\ TornFileIsRepaired

-----------------------------------------------------------------------------
(* What the two writers do to the table *)

\* The agent opens an incident, and from then on moves the one its pass is about.
AgentTable ==
    /\ UNCHANGED <<runs, project, faults, built, pages, shown>>
    /\ \/ /\ pc = "record_incident" /\ pc' = "propose_fix"
          /\ Opens
          /\ pass' = [pass EXCEPT !.incident_id = Len(incidents')]
          /\ tried' = 0
       \/ /\ pass.incident_id \in DOMAIN incidents
          /\ pc' = "route_on_state" /\ pass' = FreshPass
          /\ tried' = tried
          /\ \/ /\ pc = "record_proposal" /\ Offers(pass.incident_id)
                /\ incidents[pass.incident_id].state = "open"
                /\ incidents'[pass.incident_id].model_contents_before = pass.model_sql
                /\ incidents'[pass.incident_id].model_contents_after = pass.candidate_sql
             \/ pc = "give_up" /\ GivesUp(pass.incident_id)
             \/ /\ pc = "record_verifying_run"
                /\ Watches(pass.incident_id, pass.verifying_run_id)
                /\ incidents'[pass.incident_id].judge_feedback
                     = incidents[pass.incident_id].judge_feedback
             \/ /\ pc = "conclude" /\ Concludes(pass.incident_id, pass.verdict)
                /\ incidents'[pass.incident_id].judge_feedback
                     = incidents[pass.incident_id].judge_feedback

\* The operator decides on the incident a page shows.
OperatorTable ==
    /\ AgentStill
    /\ UNCHANGED <<runs, project, faults, built, tried>>
    /\ \E tab \in Tabs, decision \in {"approved", "rejected"},
          choice \in Assessments \cup {NULL} :
          /\ pages[tab].id # 0 /\ pages[tab].id \in DOMAIN incidents
          /\ Assessed(pages[tab], choice)
          /\ Decides(pages[tab].id)
          /\ incidents'[pages[tab].id].state = decision
          /\ incidents'[pages[tab].id].judge_feedback = Feedback(pages[tab], choice)
          /\ shown' = IF decision = "approved"
                        THEN shown \cup {<<pages[tab].id, pages[tab].after>>}
                        ELSE shown
          /\ pages'[tab] = NoProposal
          /\ \A other \in Tabs \ {tab} : pages'[other] = pages[other]

LEMMA AgentTableForm ==
    ASSUME IInv, AgentStep
    PROVE  UNCHANGED incidents \/ AgentTable
<1>1. /\ incidents \in Seq(Row) /\ pass \in Pass /\ runs \in Seq(Run)
      /\ UNCHANGED <<pages, shown>>
  BY DEF IInv, TypeOK, AgentStep, consoleVars
<1> USE DEF EndPass, history
<1> HIDE DEF FreshPass
<1>2. CASE RecordIncident /\ OpenIncident(pass.run_id, pass.failure_output)
  <2>1. /\ pass.failure_output \in Failures /\ pass.run_id \in Nat
        /\ pass.run_id <= Len(runs)
    BY <1>1, <1>2 DEF IInv, FailureInHand, RecordIncident, Failures
  <2>2. Opens
    BY <1>1, <1>2, <2>1, OpenIncidentMoves
  <2>3. Current = 0
    BY <2>2 DEF Opens
  <2> QED
    BY <1>1, <1>2, <2>2, <2>3 DEF AgentTable, RecordIncident
<1>3. CASE RecordProposalNode /\ RecordProposal(pass.incident_id, pass.model_sql,
                                                pass.candidate_sql, pass.judge_review)
  <2>1. /\ pass.incident_id \in DOMAIN incidents /\ pass.candidate_sql \in Contents
        /\ pass.model_sql \in Contents \cup {Torn, NULL}
        /\ pass.judge_review \in Reviews \cup {NULL}
    BY <1>1, <1>3 DEF IInv, ProposalInHand, RecordProposalNode, Proposing, Pass
  <2>2. /\ Offers(pass.incident_id) /\ incidents[pass.incident_id].state = "open"
        /\ incidents'[pass.incident_id].model_contents_before = pass.model_sql
        /\ incidents'[pass.incident_id].model_contents_after = pass.candidate_sql
    BY <1>1, <1>3, <2>1, RecordProposalMoves
  <2> QED
    BY <1>1, <1>3, <2>1, <2>2 DEF AgentTable, RecordProposalNode
<1>4. CASE GiveUp /\ ConcludeUnfixable(pass.incident_id)
  <2>1. pass.incident_id \in DOMAIN incidents
    BY <1>4 DEF IInv, ProposalInHand, GiveUp, Proposing
  <2> QED
    BY <1>1, <1>4, <2>1, ConcludeUnfixableMoves DEF AgentTable, GiveUp
<1>5. CASE RecordVerifyingRunNode
             /\ RecordVerifyingRun(pass.incident_id, pass.verifying_run_id)
  <2>1. pass.incident_id \in DOMAIN incidents /\ pass.verifying_run_id \in Nat
    BY <1>1, <1>5 DEF IInv, ApprovalInHand, RecordVerifyingRunNode, Applying, RunsOf
  <2> QED
    BY <1>1, <1>5, <2>1, RecordVerifyingRunMoves DEF AgentTable, RecordVerifyingRunNode
<1>6. CASE WriteVerdict /\ Conclude(pass.incident_id, pass.verdict)
  <2>1. pass.incident_id \in DOMAIN incidents /\ pass.verdict \in Verdicts
    BY <1>6 DEF IInv, VerdictInHand, WriteVerdict, Watching
  <2> QED
    BY <1>1, <1>6, <2>1, ConcludeMoves DEF AgentTable, WriteVerdict
<1> QED
  BY <1>2, <1>3, <1>4, <1>5, <1>6
     DEF AgentStep, Node, RecordIncident, RecordProposalNode, GiveUp,
         RecordVerifyingRunNode, WriteVerdict, RouteOnState, Idle, DetectFailure,
         FetchFailureLog, InspectSchema, DiagnoseFailure, ResumeIncident, ProposeFix,
         ValidateCandidate, JudgeProposal, LoadApproved, ApplyFix, TriggerRerun,
         VerifySuccess

LEMMA OperatorTableForm ==
    ASSUME IInv, OperatorStep
    PROVE  /\ UNCHANGED <<incidents, shown>> \/ OperatorTable
           /\ \E tab \in Tabs :
                 /\ \A other \in Tabs \ {tab} : pages'[other] = pages[other]
                 /\ \/ pages'[tab] = NoProposal
                    \/ /\ UNCHANGED incidents
                       /\ At(Current, "proposed") /\ pages'[tab] = Snapshot(Current)
<1>1. PICK tab \in Tabs :
        TabStep(tab) /\ \A other \in Tabs \ {tab} : pages'[other] = pages[other]
  BY OperatorForms
<1>2. ASSUME NEW decision \in {"approved", "rejected"},
             NEW choice \in Assessments \cup {NULL},
             DecisionRecorded(pages[tab], decision, choice),
             Decides(pages[tab].id),
             pages[tab].id \in DOMAIN incidents,
             incidents'[pages[tab].id].state = decision,
             incidents'[pages[tab].id].judge_feedback = Feedback(pages[tab], choice),
             pages'[tab] = NoProposal
      PROVE  OperatorTable
  <2>1. pages[tab].id # 0
    BY <1>2 DEF IInv, TypeOK
  <2>2. AgentStill /\ UNCHANGED <<runs, project, faults, built, tried>>
    BY OperatorForms
  <2> QED BY <1>1, <1>2, <2>1, <2>2 DEF OperatorTable, DecisionRecorded
<1> QED
  BY <1>1, <1>2 DEF TabStep, Render

\* Without the smoke test nobody else writes the table.
LEMMA QuietTable ==
    ASSUME IInv, smoke = "done", [Next]_vars
    PROVE  /\ smoke' = "done"
           /\ UNCHANGED incidents \/ AgentTable \/ OperatorTable
<1>1. ~SmokeStep
  BY DEF SmokeStep, CloseApproved, CountInFlight, InsertIncident, Overwrite, Approve
<1>2. CASE AgentStep
  BY <1>2, AgentTableForm DEF AgentStep
<1>3. CASE OperatorStep
  BY <1>3, OperatorTableForm DEF OperatorStep
<1> QED
  BY <1>1, <1>2, <1>3, PipelineForms DEF Next, AgentFault, Fault, OutOfIncidents, vars

-----------------------------------------------------------------------------
(* The pass and the incident in hand *)

\* A step of somebody else leaves the pass and the file alone, and every
\* incident that is not proposed.
LEMMA OthersStep ==
    ASSUME IInv, smoke = "done", [Next]_vars, ~AgentStep, ~AgentFault
    PROVE  /\ AgentStill /\ UNCHANGED <<project, faults, built, tried>>
           /\ \A i \in DOMAIN incidents : incidents[i].state # "proposed" =>
                 incidents'[i] = incidents[i]
           /\ \A i \in DOMAIN incidents' :
                 /\ i \in DOMAIN incidents
                 /\ incidents'[i].state \in {"open", "proposed"} =>
                      incidents'[i] = incidents[i]
<1>1. AgentStill /\ UNCHANGED <<project, faults, built, tried>>
  <2>1. ~SmokeStep
    BY DEF SmokeStep, CloseApproved, CountInFlight, InsertIncident, Overwrite, Approve
  <2> QED BY <2>1, OperatorForms, PipelineForms
          DEF Next, OutOfIncidents, vars, agentVars, pipelineVars, AgentStill
<1>2. UNCHANGED incidents \/ OperatorTable
  <2>1. AgentStill => ~AgentTable
    BY DEF AgentStill, AgentTable
  <2> QED BY <1>1, <2>1, QuietTable
<1>3. CASE UNCHANGED incidents
  BY <1>1, <1>3
<1>4. CASE OperatorTable
  <2>1. PICK id \in DOMAIN incidents : Decides(id)
    BY <1>4 DEF OperatorTable
  <2>2. /\ incidents \in Seq(Row) /\ incidents' \in Seq(Row)
        /\ Len(incidents') = Len(incidents)
        /\ \A j \in DOMAIN incidents : j # id => incidents'[j] = incidents[j]
        /\ incidents[id].state = "proposed"
        /\ incidents'[id].state \in {"approved", "rejected"}
    BY <2>1 DEF Decides, Changed, IInv, TypeOK
  <2>3. DOMAIN incidents' = DOMAIN incidents
    BY <2>2
  <2> QED BY <1>1, <2>2, <2>3
<1> QED
  BY <1>2, <1>3, <1>4

LEMMA OpenStaysInHand ==
    ASSUME IInv, OpenInHand, smoke = "done", [Next]_vars
    PROVE  OpenInHand'
<1>1. /\ incidents \in Seq(Row) /\ pass \in Pass /\ OneInFlight(incidents)
  BY DEF IInv, TypeOK, TableInOrder
<1> USE DEF EndPass, GoTo, history
<1>2. CASE AgentStep /\ AgentTable
  <2>1. CASE Opens /\ pc = "record_incident" /\ pc' = "propose_fix"
    <3>1. /\ Len(incidents') \in DOMAIN incidents'
          /\ incidents'[Len(incidents')].state = "open"
      BY <1>1, <2>1 DEF Opens
    <3>2. pass' = [pass EXCEPT !.incident_id = Len(incidents')] /\ UNCHANGED project
      BY <1>2, <2>1 DEF AgentTable
    <3>3. pass'.incident_id = Len(incidents') /\ pass'.model_sql = pass.model_sql
      BY <1>1, <3>2 DEF Pass
    <3> QED BY <2>1, <3>1, <3>2, <3>3 DEF OpenInHand, Reading, At
  <2>2. CASE pc' = "route_on_state"
    BY <2>2 DEF OpenInHand, Proposing, Reading
  <2> QED BY <1>2, <2>1, <2>2 DEF AgentTable
<1>3. CASE AgentStep /\ UNCHANGED incidents
  <2> SUFFICES ASSUME pc' \in Proposing \cup Reading
               PROVE  OpenInHand'
    BY DEF OpenInHand, Proposing, Reading
  <2>1. CASE RouteOnState \/ Idle \/ DetectFailure \/ FetchFailureLog
    BY <2>1 DEF RouteOnState, Idle, DetectFailure, FetchFailureLog, Branch, Proposing, Reading
  <2>2. CASE InspectSchema \/ DiagnoseFailure
    BY <1>1, <2>2 DEF InspectSchema, DiagnoseFailure, OpenInHand, Proposing, Reading, Pass
  <2>3. CASE ResumeIncident
    <3>1. CASE pc' = "propose_fix"
      <4>1. /\ At(Current, "open") /\ UNCHANGED <<incidents, project>>
            /\ pass' = [pass EXCEPT !.incident_id = Current,
                                    !.failure_output = "model",
                                    !.run_id = incidents[Current].failing_run_id,
                                    !.model_sql = project]
        BY <2>3, <3>1 DEF ResumeIncident
      <4>2. pass'.incident_id = Current /\ pass'.model_sql = project
        BY <1>1, <4>1 DEF Pass
      <4> QED BY <3>1, <4>1, <4>2 DEF OpenInHand, Reading, At
    <3>2. CASE pc' = "give_up"
      <4>1. At(Current, "open") /\ pass' = [pass EXCEPT !.incident_id = Current]
        BY <2>3, <3>2 DEF ResumeIncident
      <4>2. pass'.incident_id = Current
        BY <1>1, <4>1 DEF Pass
      <4> QED BY <1>3, <3>2, <4>1, <4>2 DEF OpenInHand, Reading, At
    <3> QED BY <2>3, <3>1, <3>2 DEF ResumeIncident, Proposing, Reading
  <2>4. CASE ProposeFix
    <3>1. /\ pc = "propose_fix" /\ pc' = "validate_candidate" /\ UNCHANGED project
          /\ pass'.incident_id = pass.incident_id /\ pass'.model_sql = pass.model_sql
      BY <1>1, <2>4 DEF ProposeFix, Pass
    <3> QED BY <1>3, <3>1 DEF OpenInHand, Proposing, Reading, At
  <2>5. CASE ValidateCandidate
    <3>1. /\ pc = "validate_candidate" /\ pass' = pass /\ UNCHANGED project
          /\ \/ /\ pc' = "judge_proposal"
                /\ <<pass.incident_id, pass.candidate_sql>> \in built'
             \/ pc' \in {"propose_fix", "give_up"}
      BY <2>5 DEF ValidateCandidate, AfterFailedBuild
    <3> QED BY <1>3, <3>1 DEF OpenInHand, Proposing, Reading, At
  <2>6. CASE JudgeProposal
    <3>1. PICK status \in Reviews : pass' = [pass EXCEPT !.judge_review = status]
      BY <2>6 DEF JudgeProposal
    <3>2. /\ pc = "judge_proposal" /\ pc' = "record_proposal" /\ UNCHANGED <<project, built>>
          /\ pass'.incident_id = pass.incident_id /\ pass'.model_sql = pass.model_sql
          /\ pass'.candidate_sql = pass.candidate_sql /\ pass'.judge_review = status
      BY <1>1, <2>6, <3>1 DEF JudgeProposal, Pass
    <3> QED BY <1>3, <3>2 DEF OpenInHand, Proposing, Reading, At
  <2>7. CASE \/ RecordIncident \/ RecordProposalNode \/ GiveUp \/ LoadApproved \/ ApplyFix
             \/ TriggerRerun \/ RecordVerifyingRunNode \/ VerifySuccess \/ WriteVerdict
    <3>1. ~OpenIncident(pass.run_id, pass.failure_output)
      BY <1>1, <1>3 DEF OpenIncident, Inserted
    <3> QED BY <2>7, <3>1
       DEF RecordIncident, RecordProposalNode, GiveUp, LoadApproved, AfterLoading, ApplyFix,
           TriggerRerun, RecordVerifyingRunNode, VerifySuccess, WriteVerdict, Proposing, Reading
  <2> QED
    BY <1>3, <2>1, <2>2, <2>3, <2>4, <2>5, <2>6, <2>7 DEF AgentStep, Node
<1>4. CASE AgentFault
  BY <1>4 DEF AgentFault, Fault, OpenInHand, Proposing, Reading
<1>5. CASE ~AgentStep /\ ~AgentFault
  <2>1. /\ pc' = pc /\ pass' = pass /\ UNCHANGED <<project, built>>
        /\ \A i \in DOMAIN incidents : At(i, "open") => At(i, "open")'
    BY <1>1, <1>5, OthersStep, StoresGrow DEF AgentStill, At
  <2> QED BY <2>1 DEF OpenInHand, At
<1>6. AgentStep => UNCHANGED incidents \/ AgentTable
  BY AgentTableForm
<1> QED
  BY <1>2, <1>3, <1>4, <1>5, <1>6

LEMMA BudgetGrows ==
    ASSUME NEW n \in Nat
    PROVE  /\ Budget(n) \in Nat /\ MaxFixAttempts \in Nat \ {0}
           /\ Budget(n + 1) = Budget(n) + MaxFixAttempts
           /\ MaxFixAttempts * (1 + n) = Budget(n) + MaxFixAttempts
<1>1. MaxFixAttempts \in Nat \ {0}
  BY AgentAssumption
<1>2. /\ MaxFixAttempts * n \in Nat
      /\ MaxFixAttempts * (n + 1) = MaxFixAttempts * n + MaxFixAttempts
      /\ MaxFixAttempts * (1 + n) = MaxFixAttempts * n + MaxFixAttempts
  BY <1>1
<1> QED BY <1>1, <1>2 DEF Budget

\* No open incident is there but the one a proposing pass has in hand.
LEMMA NoOpenBeside ==
    ASSUME incidents \in Seq(Row), OneInFlight(incidents),
           NEW i \in DOMAIN incidents, incidents[i].state \notin Terminal,
           NEW j \in DOMAIN incidents, incidents[j].state \notin Terminal
    PROVE  i = j
BY DEF OneInFlight, InFlight

LEMMA TriesStayInHand ==
    ASSUME IInv, OpenInHand, TriesInHand, smoke = "done", [Next]_vars
    PROVE  TriesInHand'
<1> DEFINE AnyOpen == \E i \in DOMAIN incidents : incidents[i].state = "open"
           M == MaxFixAttempts
<1>1. /\ incidents \in Seq(Row) /\ incidents' \in Seq(Row) /\ pass \in Pass
      /\ OneInFlight(incidents) /\ OneInFlight(incidents')
      /\ faults \in Nat /\ tried \in Nat /\ pass.attempts \in Nat
      /\ FreshPass.attempts = 0
  BY StoresGrow, AgentAssumption DEF IInv, TypeOK, TableInOrder, Pass, FreshPass
<1>2. /\ Budget(faults) \in Nat /\ M \in Nat \ {0}
      /\ Budget(faults + 1) = Budget(faults) + M
      /\ M * (1 + faults) = Budget(faults) + M
      /\ M * (1 + faults') = Budget(faults') + M
  BY <1>1, BudgetGrows, FaultsGrow
<1>3. /\ pc \notin Proposing => pass.attempts = 0
      /\ pass.attempts <= M
      /\ pc = "propose_fix" => pass.attempts < M
      /\ pc \in Proposing => tried <= Budget(faults) + pass.attempts
      /\ AnyOpen /\ pc \notin Proposing => tried <= Budget(faults)
      /\ tried <= Budget(faults) + M
  BY <1>1, <1>2 DEF TriesInHand, TriesPaidByFaults
<1>4. SUFFICES /\ pc' \notin Proposing => pass'.attempts = 0
               /\ pass'.attempts <= M
               /\ pc' = "propose_fix" => pass'.attempts < M
               /\ pc' \in Proposing => tried' <= Budget(faults') + pass'.attempts
               /\ AnyOpen' /\ pc' \notin Proposing => tried' <= Budget(faults')
               /\ tried' <= Budget(faults') + M
  BY <1>2 DEF TriesInHand, TriesPaidByFaults
<1> HIDE DEF M
<1> USE DEF EndPass, GoTo, history
<1> HIDE DEF FreshPass
<1>5. CASE AgentFault
  BY <1>1, <1>2, <1>3, <1>5 DEF AgentFault, Fault, Proposing
<1>6. CASE ~AgentStep /\ ~AgentFault
  <2>1. /\ pc' = pc /\ pass' = pass /\ faults' = faults /\ tried' = tried
        /\ AnyOpen' => AnyOpen
    BY <1>1, <1>6, OthersStep DEF AgentStill
  <2> QED BY <1>1, <1>2, <1>3, <2>1
<1>7. CASE AgentStep /\ AgentTable
  <2>1. CASE pc = "record_incident" /\ pc' = "propose_fix"
    <3>1. /\ pass' = [pass EXCEPT !.incident_id = Len(incidents')]
          /\ tried' = 0 /\ faults' = faults
      BY <1>7, <2>1 DEF AgentTable
    <3>2. pass'.attempts = pass.attempts
      BY <1>1, <3>1 DEF Pass
    <3> QED BY <1>1, <1>2, <1>3, <2>1, <3>1, <3>2 DEF Proposing
  <2>2. CASE pc' = "route_on_state" /\ pass' = FreshPass
    <3>1. tried' = tried /\ faults' = faults
      BY <1>7, <2>2 DEF AgentTable
    <3>2. AnyOpen' => AnyOpen /\ pc \notin Proposing
      <4>1. CASE pc \in Proposing
        <5>1. /\ pass.incident_id \in DOMAIN incidents
              /\ incidents[pass.incident_id].state = "open"
              /\ incidents'[pass.incident_id].state \in {"proposed", "unfixable"}
              /\ Changed(pass.incident_id)
          BY <1>7, <2>2, <4>1 DEF AgentTable, OpenInHand, At, Proposing, Offers, GivesUp
        <5>2. ASSUME NEW j \in DOMAIN incidents', incidents'[j].state = "open"
              PROVE  FALSE
          <6>1. j # pass.incident_id /\ j \in DOMAIN incidents /\ incidents[j].state = "open"
            BY <1>1, <5>1, <5>2 DEF Changed
          <6> QED BY <1>1, <5>1, <6>1, NoOpenBeside DEF Terminal
        <5> QED BY <5>2
      <4>2. CASE pc \notin Proposing
        <5>1. pc = "conclude" => pass.verdict \in Verdicts
          BY DEF IInv, VerdictInHand, Watching
        <5> QED BY <1>1, <1>7, <2>2, <4>2, <5>1
                DEF AgentTable, Proposing, Watches, Concludes, Changed, Verdicts
      <4> QED BY <4>1, <4>2
    <3> QED BY <1>1, <1>2, <1>3, <2>2, <3>1, <3>2 DEF Proposing
  <2> QED BY <1>7, <2>1, <2>2 DEF AgentTable
<1>8. CASE AgentStep /\ UNCHANGED incidents
  <2>1. CASE \/ RouteOnState \/ Idle \/ DetectFailure \/ FetchFailureLog \/ InspectSchema
             \/ DiagnoseFailure \/ LoadApproved \/ ApplyFix \/ TriggerRerun
             \/ RecordVerifyingRunNode \/ VerifySuccess \/ WriteVerdict
    <3>1. /\ pc \notin Proposing /\ pc' \notin Proposing
          /\ tried' = tried /\ faults' = faults
          /\ pass'.attempts \in {pass.attempts, 0}
      BY <1>1, <2>1 DEF RouteOnState, Idle, DetectFailure, FetchFailureLog, InspectSchema,
         DiagnoseFailure, LoadApproved, AfterLoading, ApplyFix, TriggerRerun,
         RecordVerifyingRunNode, VerifySuccess, WriteVerdict, Branch, Proposing, Pass
    <3> QED BY <1>1, <1>2, <1>3, <1>8, <3>1 DEF Proposing
  <2>2. CASE RecordIncident
    <3>1. ~OpenIncident(pass.run_id, pass.failure_output)
      BY <1>1, <1>8 DEF OpenIncident, Inserted
    <3>2. /\ pc \notin Proposing /\ pc' \notin Proposing
          /\ tried' = tried /\ faults' = faults /\ pass'.attempts = 0
      BY <1>1, <2>2, <3>1 DEF RecordIncident, Proposing
    <3> QED BY <1>1, <1>2, <1>3, <1>8, <3>2 DEF Proposing
  <2>3. CASE ResumeIncident
    <3>1. /\ pc = "resume_incident" /\ tried' = tried
          /\ pass'.attempts \in {pass.attempts, 0}
          /\ faults' \in {faults, faults + 1}
          /\ pc' \in {"propose_fix", "give_up", "route_on_state"}
          /\ pc' \in {"propose_fix", "give_up"} => AnyOpen
      BY <1>1, <2>3 DEF ResumeIncident, Pass, At
    <3>2. pc \notin Proposing /\ pass.attempts = 0 /\ pass'.attempts = 0
      BY <1>3, <3>1 DEF Proposing
    <3>3. AnyOpen' = AnyOpen
      BY <1>8
    <3> HIDE DEF AnyOpen
    <3>4. tried <= Budget(faults') + M
      BY <1>1, <1>2, <1>3, <3>1
    <3>5. AnyOpen => tried <= Budget(faults')
      BY <1>1, <1>2, <1>3, <3>1, <3>2
    <3>6. pc' = "propose_fix" => pass'.attempts < M
      BY <1>2, <3>2
    <3>7. pc' \in Proposing => AnyOpen
      BY <3>1 DEF Proposing
    <3> QED BY <1>1, <1>2, <3>1, <3>2, <3>3, <3>4, <3>5, <3>6, <3>7
  <2>4. CASE ProposeFix
    <3>1. /\ pc = "propose_fix" /\ pc' = "validate_candidate"
          /\ tried' = tried + 1 /\ faults' = faults
          /\ pass'.attempts = pass.attempts + 1
      BY <1>1, <2>4 DEF ProposeFix, Pass
    <3>2. /\ pc \in Proposing /\ pc' \in Proposing /\ pc' # "propose_fix"
      BY <3>1 DEF Proposing
    <3>3. pass'.attempts <= M /\ tried' <= Budget(faults') + pass'.attempts
      <4>1. /\ pass.attempts \in Nat /\ pass.attempts < M /\ M \in Nat
            /\ tried \in Nat /\ Budget(faults) \in Nat
            /\ tried <= Budget(faults) + pass.attempts
        BY <1>1, <1>2, <1>3, <3>1, <3>2
      <4>2. Budget(faults') = Budget(faults)
        BY <3>1
      <4> QED BY <3>1, <4>1, <4>2
    <3>4. tried' <= Budget(faults') + M
      BY <1>1, <1>2, <3>1, <3>3
    <3> QED BY <3>2, <3>3, <3>4
  <2>5. CASE ValidateCandidate
    <3>1. /\ pc = "validate_candidate" /\ tried' = tried /\ faults' = faults
          /\ pass' = pass
          /\ \/ pc' \in {"judge_proposal", "give_up"}
             \/ pc' = "propose_fix" /\ pass.attempts < M
      BY <2>5 DEF ValidateCandidate, AfterFailedBuild, M
    <3> QED BY <1>1, <1>2, <1>3, <3>1 DEF Proposing
  <2>6. CASE JudgeProposal
    <3>1. /\ pc = "judge_proposal" /\ pc' = "record_proposal"
          /\ tried' = tried /\ faults' = faults /\ pass'.attempts = pass.attempts
      BY <1>1, <2>6 DEF JudgeProposal, Pass
    <3> QED BY <1>1, <1>2, <1>3, <3>1 DEF Proposing
  <2>7. CASE RecordProposalNode \/ GiveUp
    <3>1. /\ pass.incident_id \in DOMAIN incidents
          /\ incidents[pass.incident_id].state = "open"
      BY <2>7 DEF RecordProposalNode, GiveUp, OpenInHand, At, Proposing
    <3>2. incidents'[pass.incident_id].state # "open"
      <4>1. CASE RecordProposalNode
        <5>1. /\ RecordProposal(pass.incident_id, pass.model_sql, pass.candidate_sql,
                                pass.judge_review)
              /\ pass.candidate_sql \in Contents
              /\ pass.model_sql \in Contents \cup {Torn, NULL}
              /\ pass.judge_review \in Reviews \cup {NULL}
          BY <1>1, <3>1, <4>1 DEF RecordProposalNode, At, IInv, ProposalInHand, Pass
        <5> QED BY <1>1, <3>1, <5>1, RecordProposalMoves DEF Offers
      <4>2. CASE GiveUp
        <5>1. ConcludeUnfixable(pass.incident_id)
          BY <3>1, <4>2 DEF GiveUp, At
        <5> QED BY <1>1, <3>1, <5>1, ConcludeUnfixableMoves DEF GivesUp
      <4> QED BY <2>7, <4>1, <4>2
    <3> QED BY <1>8, <3>1, <3>2
  <2> QED
    BY <1>8, <2>1, <2>2, <2>3, <2>4, <2>5, <2>6, <2>7 DEF AgentStep, Node
<1> QED
  BY <1>5, <1>6, <1>7, <1>8, AgentTableForm

LEMMA UnsetStaysInHand ==
    ASSUME IInv, UnsetInHand, smoke = "done", [Next]_vars
    PROVE  UnsetInHand'
<1> SUFFICES ASSUME pc' \in Applying PROVE VerifyingRunUnset(pass.incident_id)'
  BY DEF UnsetInHand
<1>1. pass \in Pass /\ incidents \in Seq(Row)
  BY DEF IInv, TypeOK
<1>2. CASE ~AgentStep /\ ~AgentFault
  <2>1. pc' = pc /\ pass' = pass
    BY <1>2, OthersStep DEF AgentStill
  <2>2. /\ VerifyingRunUnset(pass.incident_id)
        /\ pass.incident_id \in DOMAIN incidents
    BY <2>1 DEF UnsetInHand, IInv, ApprovalInHand
  <2>3. incidents'[pass.incident_id] = incidents[pass.incident_id]
    BY <1>2, <2>2, OthersStep DEF VerifyingRunUnset
  <2> QED BY <2>1, <2>2, <2>3 DEF VerifyingRunUnset
<1>3. CASE AgentFault
  BY <1>3 DEF AgentFault, Fault, EndPass, Applying
<1>4. CASE AgentStep /\ AgentTable
  BY <1>4 DEF AgentTable, Applying
<1>5. CASE AgentStep /\ UNCHANGED incidents
  <2>1. CASE pc' = "apply_fix"
    BY <1>5, <2>1, StepForms
       DEF TableStep, RunsStep, ProjectStep, PassStep, Opens, Offers, GivesUp, Decides,
           Watches, Concludes, Changed, AgentStill, Searches, Prepares, TakesUp, UnsetInHand,
           Applying, VerifyingRunUnset
  <2>2. CASE pc' # "apply_fix"
    <3>1. pc \in Applying /\ pass'.incident_id = pass.incident_id
      BY <1>1, <1>5, <2>2, StepForms
         DEF TableStep, RunsStep, ProjectStep, PassStep, AgentStill, Searches, Prepares,
             TakesUp, Applying, Pass
    <3> QED BY <1>5, <3>1 DEF UnsetInHand, VerifyingRunUnset
  <2> QED BY <2>1, <2>2
<1> QED
  BY <1>2, <1>3, <1>4, <1>5, AgentTableForm

LEMMA HistoryGrows ==
    ASSUME IInv, smoke = "done", [Next]_vars
    PROVE  built \subseteq built' /\ shown \subseteq shown'
<1>1. ~SmokeStep
  BY DEF SmokeStep, CloseApproved, CountInFlight, InsertIncident, Overwrite, Approve
<1>2. CASE AgentStep
  BY <1>2 DEF AgentStep, consoleVars, history, Node, RouteOnState, Idle, DetectFailure,
     FetchFailureLog, InspectSchema, DiagnoseFailure, RecordIncident, ResumeIncident,
     ProposeFix, ValidateCandidate, JudgeProposal, RecordProposalNode, GiveUp,
     LoadApproved, ApplyFix, TriggerRerun, RecordVerifyingRunNode, VerifySuccess,
     WriteVerdict
<1>3. CASE OperatorStep
  <2>1. shown \subseteq shown'
    BY <1>3, OperatorTableForm DEF OperatorTable
  <2> QED BY <1>3, <2>1, OperatorForms
<1> QED
  BY <1>1, <1>2, <1>3, PipelineForms
     DEF Next, AgentFault, Fault, history, consoleVars, OutOfIncidents, vars, agentVars

\* A row of the next table is an old one, a new one, or one that the agent or
\* the operator has moved by a statement.
RowMoves(i) ==
    \/ i \in DOMAIN incidents /\ incidents'[i] = incidents[i]
    \/ i \notin DOMAIN incidents /\ incidents'[i].state = "open"
    \/ /\ pc = "record_proposal" /\ i = pass.incident_id
       /\ UNCHANGED <<project, built, pages>>
       /\ Offers(i) /\ incidents[i].state = "open"
       /\ incidents'[i].model_contents_before = pass.model_sql
       /\ incidents'[i].model_contents_after = pass.candidate_sql
    \/ incidents[i].state = "open" /\ incidents'[i].state = "unfixable"
    \/ /\ OperatorTable
       /\ Decides(i)
       /\ \E tab \in Tabs, choice \in Assessments \cup {NULL} :
             /\ pages[tab].id = i /\ i # 0
             /\ Assessed(pages[tab], choice)
             /\ incidents'[i].judge_feedback = Feedback(pages[tab], choice)
             /\ incidents'[i].state = "approved" => <<i, pages[tab].after>> \in shown'
    \/ /\ KeepsItsText(i) /\ incidents'[i].judge_feedback = incidents[i].judge_feedback
       /\ incidents[i].state = "approved" /\ incidents'[i].state \in Decided
       /\ i \in DOMAIN incidents /\ i = pass.incident_id
       /\ \/ pc = "record_verifying_run" /\ VerifyingRunUnset(i)
          \/ pc = "conclude"

LEMMA EveryRowMoves ==
    ASSUME IInv, smoke = "done", [Next]_vars, NEW i \in DOMAIN incidents'
    PROVE  RowMoves(i)
<1>1. incidents \in Seq(Row) /\ incidents' \in Seq(Row)
  BY StoresGrow DEF IInv, TypeOK
<1>2. CASE UNCHANGED incidents
  BY <1>2 DEF RowMoves
<1>3. CASE AgentTable
  <2>1. CASE Opens
    BY <1>1, <2>1 DEF Opens, RowMoves
  <2>2. CASE pass.incident_id \in DOMAIN incidents /\ i # pass.incident_id
             /\ Changed(pass.incident_id)
    BY <1>1, <2>2 DEF Changed, RowMoves
  <2>3. CASE ~Opens /\ i = pass.incident_id
    <3>1. pc = "conclude" => pass.verdict \in Decided
      BY DEF IInv, VerdictInHand, Watching, Verdicts, Decided
    <3> QED BY <1>3, <2>3, <3>1
            DEF AgentTable, RowMoves, GivesUp, Watches, Concludes, Decided, VerifyingRunUnset
  <2> QED BY <1>3, <2>1, <2>2, <2>3
          DEF AgentTable, Offers, GivesUp, Watches, Concludes
<1>4. CASE OperatorTable
  <2>1. PICK tab \in Tabs, decision \in {"approved", "rejected"},
             choice \in Assessments \cup {NULL} :
          /\ pages[tab].id # 0 /\ pages[tab].id \in DOMAIN incidents
          /\ Assessed(pages[tab], choice)
          /\ Decides(pages[tab].id)
          /\ incidents'[pages[tab].id].state = decision
          /\ incidents'[pages[tab].id].judge_feedback = Feedback(pages[tab], choice)
          /\ shown' = IF decision = "approved"
                        THEN shown \cup {<<pages[tab].id, pages[tab].after>>}
                        ELSE shown
    BY <1>4 DEF OperatorTable
  <2>2. CASE i = pages[tab].id
    BY <1>4, <2>1, <2>2 DEF RowMoves
  <2>3. CASE i # pages[tab].id
    BY <1>1, <2>1, <2>3 DEF Decides, Changed, RowMoves
  <2> QED BY <2>2, <2>3
<1> QED
  BY <1>2, <1>3, <1>4, QuietTable

-----------------------------------------------------------------------------
(* The rows and what they promise *)

LEMMA ShownStaysReal ==
    ASSUME IInv, GateInv, [Next]_vars
    PROVE  ShownDifferenceIsReal'
<1>1. incidents \in Seq(Row) /\ OneInFlight(incidents) /\ incidents' \in Seq(Row)
  BY StoresGrow DEF IInv, TypeOK, TableInOrder
<1> SUFFICES ASSUME NEW i \in DOMAIN incidents', incidents'[i].state = "proposed"
             PROVE  incidents'[i].model_contents_before = project'
  BY DEF ShownDifferenceIsReal
<1>2. RowMoves(i)
  BY EveryRowMoves DEF GateInv
<1>3. CASE i \in DOMAIN incidents /\ incidents'[i] = incidents[i]
  <2>1. incidents[i].model_contents_before = project
    BY <1>3 DEF GateInv, ShownDifferenceIsReal
  <2>2. ~ProjectStep
    <3> SUFFICES ASSUME ProjectStep PROVE FALSE
      OBVIOUS
    <3>1. /\ pass.incident_id \in DOMAIN incidents
          /\ incidents[pass.incident_id].state = "approved"
      BY DEF ProjectStep, IInv, ApprovalInHand, GateInv, UnsetInHand, VerifyingRunUnset,
             Applying
    <3> QED BY <1>1, <1>3, <3>1, NoOpenBeside DEF Terminal
  <2> QED BY <1>3, <2>1, <2>2, StepForms DEF TableStep, RunsStep, PassStep
<1>4. CASE ~(i \in DOMAIN incidents /\ incidents'[i] = incidents[i])
  <2>1. /\ pc = "record_proposal" /\ project' = project
        /\ incidents'[i].model_contents_before = pass.model_sql
    BY <1>2, <1>4 DEF RowMoves, Decides, Decided
  <2> QED BY <2>1 DEF GateInv, OpenInHand, Reading
<1> QED BY <1>3, <1>4

LEMMA OffersStayBuilt ==
    ASSUME IInv, GateInv, [Next]_vars
    PROVE  OfferedFixesWereBuilt'
<1>1. built \subseteq built'
  BY HistoryGrows DEF GateInv
<1> SUFFICES ASSUME NEW i \in DOMAIN incidents',
                    incidents'[i].state \in Decided \cup {"proposed", "rejected"}
             PROVE  <<i, incidents'[i].model_contents_after>> \in built'
  BY DEF OfferedFixesWereBuilt
<1>2. RowMoves(i)
  BY EveryRowMoves DEF GateInv
<1>3. CASE pc = "record_proposal" /\ i = pass.incident_id
           /\ incidents'[i].model_contents_after = pass.candidate_sql
  BY <1>1, <1>3 DEF GateInv, OpenInHand
<1>4. CASE /\ i \in DOMAIN incidents
           /\ incidents'[i].model_contents_after = incidents[i].model_contents_after
           /\ incidents[i].state \in Decided \cup {"proposed", "rejected"}
  BY <1>1, <1>4 DEF GateInv, OfferedFixesWereBuilt
<1> QED
  BY <1>2, <1>3, <1>4 DEF RowMoves, Decides, Changed, KeepsItsText, Decided

LEMMA ApprovalsStayShown ==
    ASSUME IInv, GateInv, [Next]_vars
    PROVE  ApprovedIsWhatWasShown'
<1>1. shown \subseteq shown'
  BY HistoryGrows DEF GateInv
<1> SUFFICES ASSUME NEW i \in DOMAIN incidents', incidents'[i].state \in Decided
             PROVE  <<i, incidents'[i].model_contents_after>> \in shown'
  BY DEF ApprovedIsWhatWasShown
<1>2. RowMoves(i)
  BY EveryRowMoves DEF GateInv
<1>3. CASE Decides(i) /\ \E tab \in Tabs :
             /\ pages[tab].id = i /\ i # 0
             /\ incidents'[i].state = "approved" => <<i, pages[tab].after>> \in shown'
  BY <1>3 DEF GateInv, PagesAreTrue, Decides, KeepsItsText, Decided
<1>4. CASE /\ i \in DOMAIN incidents /\ incidents[i].state \in Decided
           /\ incidents'[i].model_contents_after = incidents[i].model_contents_after
  BY <1>1, <1>4 DEF GateInv, ApprovedIsWhatWasShown
<1> QED
  BY <1>2, <1>3, <1>4 DEF RowMoves, Offers, KeepsItsText, Decided

LEMMA ReviewsStayAssessed ==
    ASSUME IInv, GateInv, [Next]_vars
    PROVE  ReviewsAreAssessed'
<1> SUFFICES ASSUME NEW i \in DOMAIN incidents',
                    incidents'[i].state \in Decided \cup {"rejected"}
             PROVE  (incidents'[i].judge_review = "completed")
                       = (incidents'[i].judge_feedback # NULL)
  BY DEF ReviewsAreAssessed
<1>1. RowMoves(i)
  BY EveryRowMoves DEF GateInv
<1>2. CASE Decides(i) /\ \E tab \in Tabs, choice \in Assessments \cup {NULL} :
             /\ pages[tab].id = i /\ i # 0
             /\ Assessed(pages[tab], choice)
             /\ incidents'[i].judge_feedback = Feedback(pages[tab], choice)
  <2>1. PICK tab \in Tabs, choice \in Assessments \cup {NULL} :
             /\ pages[tab].id = i /\ i # 0
             /\ Assessed(pages[tab], choice)
             /\ incidents'[i].judge_feedback = Feedback(pages[tab], choice)
    BY <1>2
  <2>2. incidents'[i].judge_review = pages[tab].judge_review
    BY <1>2, <2>1 DEF GateInv, PagesAreTrue, Decides, KeepsItsText
  <2> QED BY <2>1, <2>2 DEF Assessed, Feedback
<1>3. CASE /\ i \in DOMAIN incidents /\ incidents[i].state \in Decided \cup {"rejected"}
           /\ incidents'[i].judge_review = incidents[i].judge_review
           /\ incidents'[i].judge_feedback = incidents[i].judge_feedback
  BY <1>3 DEF GateInv, ReviewsAreAssessed
<1> QED
  BY <1>1, <1>2, <1>3 DEF RowMoves, Offers, KeepsItsText, Decided

LEMMA TornStaysRepaired ==
    ASSUME IInv, GateInv, [Next]_vars
    PROVE  TornFileIsRepaired'
<1> SUFFICES ASSUME project' = Torn
             PROVE  \E i \in DOMAIN incidents' : VerifyingRunUnset(i)'
  BY DEF TornFileIsRepaired
<1>1. /\ DOMAIN incidents \subseteq DOMAIN incidents'
      /\ incidents \in Seq(Row) /\ Torn \notin Contents
  BY StoresGrow, PipelineAssumption DEF IInv, TypeOK
<1>2. pc \in Applying => /\ pass.incident_id \in DOMAIN incidents
                         /\ VerifyingRunUnset(pass.incident_id)
                         /\ pass.contents_to_write \in Contents
  BY DEF IInv, ApprovalInHand, TableInOrder, RowInOrder, GateInv, UnsetInHand,
         VerifyingRunUnset
<1>3. PICK i \in DOMAIN incidents :
         /\ VerifyingRunUnset(i)
         /\ project = Torn \/ UNCHANGED incidents
  <2>1. CASE ProjectStep
    BY <1>1, <1>2, <2>1 DEF ProjectStep, Applying
  <2>2. CASE ~ProjectStep
    <3>1. project = Torn
      BY <2>2, StepForms DEF TableStep, RunsStep, PassStep
    <3> QED BY <3>1 DEF GateInv, TornFileIsRepaired
  <2> QED BY <2>1, <2>2
<1>4. CASE UNCHANGED incidents
  BY <1>3, <1>4 DEF VerifyingRunUnset
<1>5. CASE project = Torn
  <2>1. pc # "record_verifying_run"
    BY <1>1, <1>2, <1>5 DEF IInv, ApprovalInHand, Applying
  <2>2. pc = "conclude" => ~VerifyingRunUnset(pass.incident_id)
    BY DEF IInv, VerdictInHand, Watching, VerifyingRunUnset
  <2>3. RowMoves(i)
    BY <1>1, <1>3, EveryRowMoves DEF GateInv
  <2>4. incidents'[i] = incidents[i]
    BY <1>3, <2>1, <2>2, <2>3 DEF RowMoves, VerifyingRunUnset, Decides
  <2> QED BY <1>1, <1>3, <2>4 DEF VerifyingRunUnset
<1> QED BY <1>3, <1>4, <1>5

LEMMA PagesStayTrue ==
    ASSUME IInv, GateInv, [Next]_vars
    PROVE  PagesAreTrue'
<1>1. \A tab \in Tabs : pages[tab].id # 0 => pages[tab].id \in DOMAIN incidents
  BY DEF IInv, PagesInHand
<1>2. DOMAIN incidents \subseteq DOMAIN incidents'
  BY StoresGrow DEF IInv, TypeOK
<1>3. ASSUME NEW tab \in Tabs, pages'[tab] = pages[tab], pages[tab].id # 0
      PROVE  /\ incidents'[pages[tab].id].state # "open"
             /\ incidents'[pages[tab].id].state = "proposed" =>
                  /\ pages[tab].after = incidents'[pages[tab].id].model_contents_after
                  /\ pages[tab].judge_review = incidents'[pages[tab].id].judge_review
  <2> DEFINE i == pages[tab].id
  <2>1. /\ i \in DOMAIN incidents /\ i \in DOMAIN incidents'
        /\ incidents[i].state # "open"
        /\ incidents[i].state = "proposed" =>
             /\ pages[tab].after = incidents[i].model_contents_after
             /\ pages[tab].judge_review = incidents[i].judge_review
    BY <1>1, <1>2, <1>3 DEF GateInv, PagesAreTrue
  <2> HIDE DEF i
  <2>2. RowMoves(i)
    BY <2>1, EveryRowMoves DEF GateInv
  <2>3. \/ incidents'[i] = incidents[i]
        \/ incidents'[i].state \notin {"open", "proposed"}
    BY <2>1, <2>2 DEF RowMoves, Decides, Decided
  <2> QED BY <2>1, <2>3 DEF i
<1>4. CASE UNCHANGED pages
  BY <1>3, <1>4 DEF PagesAreTrue
<1>5. CASE OperatorStep
  <2>1. PICK tab \in Tabs :
           /\ \A other \in Tabs \ {tab} : pages'[other] = pages[other]
           /\ \/ pages'[tab] = NoProposal
              \/ /\ UNCHANGED incidents
                 /\ At(Current, "proposed") /\ pages'[tab] = Snapshot(Current)
    BY <1>5, OperatorTableForm
  <2>2. pages'[tab].id # 0 =>
          /\ incidents'[pages'[tab].id].state # "open"
          /\ incidents'[pages'[tab].id].state = "proposed" =>
               /\ pages'[tab].after = incidents'[pages'[tab].id].model_contents_after
               /\ pages'[tab].judge_review = incidents'[pages'[tab].id].judge_review
    BY <2>1 DEF NoProposal, Snapshot, At
  <2> QED BY <1>3, <2>1, <2>2 DEF PagesAreTrue
<1>6. UNCHANGED pages \/ OperatorStep
  <2>1. ~SmokeStep
    BY DEF GateInv, SmokeStep, CloseApproved, CountInFlight, InsertIncident, Overwrite, Approve
  <2> QED BY <2>1, PipelineForms
          DEF Next, AgentStep, AgentFault, OutOfIncidents, vars, consoleVars
<1> QED BY <1>4, <1>5, <1>6

-----------------------------------------------------------------------------
(* The theorems *)

LEMMA InitGateInv == ASSUME SmokeRuns = 0 PROVE Init => GateInv
<1> SUFFICES ASSUME Init PROVE GateInv
  OBVIOUS
<1> USE DEF Init, PipelineInit, AgentInit, ConsoleInit, SmokeInit
<1>1. smoke = "done" /\ OpenInHand /\ UnsetInHand
  BY DEF OpenInHand, UnsetInHand, Proposing, Reading, Applying
<1>2. TriesInHand
  <2>1. /\ Budget(0) \in Nat /\ MaxFixAttempts \in Nat \ {0}
        /\ MaxFixAttempts * (1 + 0) = Budget(0) + MaxFixAttempts
    BY BudgetGrows
  <2> QED BY <2>1 DEF TriesInHand, TriesPaidByFaults, FreshPass, Proposing
<1>3. PagesAreTrue /\ TornFileIsRepaired
  BY PipelineAssumption DEF PagesAreTrue, NoProposal, TornFileIsRepaired
<1>4. /\ ShownDifferenceIsReal /\ OfferedFixesWereBuilt
      /\ ApprovedIsWhatWasShown /\ ReviewsAreAssessed
  BY DEF ShownDifferenceIsReal, OfferedFixesWereBuilt, ApprovedIsWhatWasShown,
         ReviewsAreAssessed
<1> QED
  BY <1>1, <1>2, <1>3, <1>4 DEF GateInv

LEMMA NextGateInv ==
    ASSUME IInv, GateInv, [Next]_vars
    PROVE  GateInv'
<1>1. smoke' = "done" /\ OpenInHand' /\ TriesInHand' /\ UnsetInHand'
  BY QuietTable, OpenStaysInHand, TriesStayInHand, UnsetStaysInHand DEF GateInv
<1> QED
  BY <1>1, PagesStayTrue, ShownStaysReal, OffersStayBuilt, ApprovalsStayShown,
     ReviewsStayAssessed, TornStaysRepaired
     DEF GateInv

\* What holds besides while the agent and the operator are the only writers.
THEOREM GateInductive == ASSUME SmokeRuns = 0 PROVE Spec => []GateInv
<1>1. Init => GateInv
  BY InitGateInv
<1>2. IInv /\ GateInv /\ [Next]_vars => GateInv'
  BY NextGateInv
<1> QED BY <1>1, <1>2, Inductive, PTL DEF Spec

\* Any text, any number of incidents, tabs and faults: the before side of the
\* difference on screen is the file as it is (record_proposal, theme.py's panel).
THEOREM ShownDifferencesAreReal ==
    ASSUME SmokeRuns = 0 PROVE Spec => []ShownDifferenceIsReal
<1>1. GateInv => ShownDifferenceIsReal
  BY DEF GateInv
<1> QED BY <1>1, GateInductive, PTL

\* A half-written file is always owned by an approved incident that the next
\* pass writes again (apply_fix after a crash).
THEOREM TornFilesAreRepaired ==
    ASSUME SmokeRuns = 0 PROVE Spec => []TornFileIsRepaired
<1>1. GateInv => TornFileIsRepaired
  BY DEF GateInv
<1> QED BY <1>1, GateInductive, PTL

\* Every fix on offer or decided on was built for that incident first
\* (validate_candidate, after_validation).
THEOREM OffersWereBuilt ==
    ASSUME SmokeRuns = 0 PROVE Spec => []OfferedFixesWereBuilt
<1>1. GateInv => OfferedFixesWereBuilt
  BY DEF GateInv
<1> QED BY <1>1, GateInductive, PTL

\* The approved text was on the screen that approved it, however old the tab
\* (_decide, RECORD_DECISION).
THEOREM ApprovalsWereShown ==
    ASSUME SmokeRuns = 0 PROVE Spec => []ApprovedIsWhatWasShown
<1>1. GateInv => ApprovedIsWhatWasShown
  BY DEF GateInv
<1> QED BY <1>1, GateInductive, PTL

\* A decision carries an assessment when its review was completed and none when
\* it was not (the panel and the trigger of 05-judge-review.sh).
THEOREM ReviewsWereAssessed ==
    ASSUME SmokeRuns = 0 PROVE Spec => []ReviewsAreAssessed
<1>1. GateInv => ReviewsAreAssessed
  BY DEF GateInv
<1> QED BY <1>1, GateInductive, PTL

\* An incident sees max_fix_attempts candidates and as many again per fault
\* (after_validation, resume_incident).
THEOREM TriesArePaidByFaults ==
    ASSUME SmokeRuns = 0 PROVE Spec => []TriesPaidByFaults
<1>1. GateInv => TriesPaidByFaults
  BY DEF GateInv, TriesInHand
<1> QED BY <1>1, GateInductive, PTL

\* The file changes, and a run is started by hand, only for an approved incident
\* that waits for its run, and what is written is its text (the gate of graph.py).
THEOREM OnlyApprovalsAct ==
    ASSUME SmokeRuns = 0 PROVE Spec => NothingActsUnapproved
<1>1. ASSUME IInv, GateInv, [Next]_vars
      PROVE  \/ project' = project /\ RunsOf("manual")' = RunsOf("manual")
             \/ \E i \in DOMAIN incidents :
                   /\ VerifyingRunUnset(i)
                   /\ project' \in {project, Torn, incidents[i].model_contents_after}
  <2>1. CASE pc \in Applying
    <3>1. /\ pass.incident_id \in DOMAIN incidents
          /\ VerifyingRunUnset(pass.incident_id)
          /\ incidents[pass.incident_id].model_contents_after = pass.contents_to_write
      BY <1>1, <2>1 DEF IInv, ApprovalInHand, GateInv, UnsetInHand
    <3>2. project' \in {project, Torn, pass.contents_to_write}
      BY <1>1, StepForms DEF TableStep, RunsStep, ProjectStep, PassStep
    <3> QED BY <3>1, <3>2
  <2>2. CASE pc \notin Applying
    <3>1. runs \in Seq(Run)
      BY <1>1 DEF IInv, TypeOK
    <3>2. /\ project' = project
          /\ \/ runs' = runs \/ Adds("scheduled") \/ \E r \in DOMAIN runs : Advances(r)
      BY <1>1, <2>2, StepForms DEF TableStep, RunsStep, ProjectStep, PassStep, Applying
    <3>3. RunsOf("manual")' = RunsOf("manual")
      BY <3>1, <3>2 DEF Adds, Advances, RunsOf, NewRun
    <3> QED BY <3>2, <3>3
  <2> QED BY <2>1, <2>2
<1> QED
  BY <1>1, Inductive, GateInductive, PTL DEF Spec, NothingActsUnapproved

-----------------------------------------------------------------------------
(* The refinement of ApprovalGate *)

\* The ledger of the record: a phase and a fix for each row.
Entry(row) == [phase |-> Phase(row.state), fix |-> row.model_contents_after]

Ledger == [i \in DOMAIN incidents |-> Entry(incidents[i])]

LEMMA LedgerIsIndexed ==
    ASSUME incidents \in Seq(Row)
    PROVE  /\ DOMAIN Ledger = DOMAIN incidents
           /\ \A i \in DOMAIN incidents : Ledger[i] = Entry(incidents[i])
BY DEF Ledger

\* A row that moves moves its entry and no other.
LEMMA EntryMoves ==
    ASSUME incidents \in Seq(Row), NEW i, Changed(i)
    PROVE  Ledger' = [Ledger EXCEPT ![i] = Entry(incidents'[i])]
<1>1. /\ incidents' \in Seq(Row) /\ DOMAIN incidents' = DOMAIN incidents
      /\ i \in DOMAIN incidents
      /\ \A j \in DOMAIN incidents : j # i => incidents'[j] = incidents[j]
  BY DEF Changed
<1>2. \A row : Entry(row)' = Entry(row)
  BY DEF Entry, Phase
<1> QED BY <1>1 DEF Ledger, Entry

LEMMA NoticeImplemented ==
    ASSUME IInv, Opens, UNCHANGED project
    PROVE  Gate!Notice
<1>1. incidents \in Seq(Row) /\ OneInFlight(incidents)
  BY DEF IInv, TypeOK, TableInOrder
<1>2. InFlight(incidents) = {}
  BY <1>1, CurrentIsTheOneInFlight DEF Opens, InFlight
<1>3. \A i \in DOMAIN incidents : Phase(incidents[i].state) = "closed"
  BY <1>1, <1>2 DEF InFlight, Terminal, Phase
<1>4. Gate!Active = {}
  BY <1>3 DEF Gate!Active
<1> DEFINE n == Len(incidents)
           noticed == [phase |-> "noticed", fix |-> NULL]
           S == [phase : {"noticed", "offered", "granted", "closed"},
                 fix : Contents \cup {NULL}]
<1>5. /\ n \in Nat /\ DOMAIN incidents = 1..n /\ DOMAIN incidents' = 1..(n + 1)
      /\ incidents'[n + 1].state = "open"
      /\ incidents'[n + 1].model_contents_after = NULL
      /\ \A j \in 1..n : incidents'[j] = incidents[j]
  BY <1>1 DEF Opens
<1>6. Ledger \in Seq(S) /\ Len(Ledger) = n
  <2>1. \A j \in 1..n : Entry(incidents[j]) \in S
    <3> TAKE j \in 1..n
    <3>1. incidents[j] \in Row
      BY <1>1, <1>5
    <3>2. incidents[j].model_contents_after \in Contents \cup {NULL}
      BY <3>1 DEF Row
    <3>3. Phase(incidents[j].state) \in {"noticed", "offered", "granted", "closed"}
      BY DEF Phase
    <3> QED BY <3>2, <3>3 DEF Entry
  <2>2. Ledger = [j \in 1..n |-> Entry(incidents[j])]
    BY <1>5 DEF Ledger
  <2> QED BY <1>5, <2>1, <2>2
<1>7. Ledger' = [j \in 1..(n + 1) |-> IF j = n + 1 THEN noticed ELSE Ledger[j]]
  <2>1. Ledger' = [j \in 1..(n + 1) |-> Entry(incidents'[j])]
    BY <1>5 DEF Ledger, Entry
  <2>2. Entry(incidents'[n + 1]) = noticed
    BY <1>5 DEF Entry, Phase
  <2>3. \A j \in 1..n : Ledger[j] = Entry(incidents'[j])
    BY <1>5 DEF Ledger
  <2> QED BY <1>5, <2>1, <2>2, <2>3
<1>8. Ledger' = Append(Ledger, noticed)
  BY <1>5, <1>6, <1>7
<1> QED
  BY <1>4, <1>8 DEF Gate!Notice, Ledger, Entry

LEMMA OfferImplemented ==
    ASSUME IInv, NEW i, Offers(i), incidents[i].state = "open", UNCHANGED project
    PROVE  Gate!Offer(i) /\ i \in DOMAIN Ledger
<1>1. incidents \in Seq(Row) /\ i \in DOMAIN incidents
  BY DEF IInv, TypeOK, Offers, Changed
<1>2. Ledger[i].phase = "noticed" /\ i \in DOMAIN Ledger
  BY <1>1, LedgerIsIndexed DEF Entry, Phase
<1>3. Entry(incidents'[i]) = [phase |-> "offered", fix |-> incidents'[i].model_contents_after]
  BY DEF Offers, Entry, Phase
<1>4. \E text \in Contents : Ledger' = [Ledger EXCEPT ![i] = [phase |-> "offered", fix |-> text]]
  BY <1>1, <1>3, EntryMoves DEF Offers
<1> QED BY <1>2, <1>4 DEF Gate!Offer, Ledger, Entry

\* An entry whose fix stays and whose phase moves.
LEMMA PhaseMoves ==
    ASSUME incidents \in Seq(Row), NEW i, Changed(i), KeepsItsText(i),
           NEW phase, Phase(incidents'[i].state) = phase
    PROVE  Ledger' = [Ledger EXCEPT ![i].phase = phase] /\ i \in DOMAIN Ledger
<1>1. i \in DOMAIN incidents
  BY DEF Changed
<1>2. Ledger[i] = Entry(incidents[i]) /\ DOMAIN Ledger = DOMAIN incidents
  BY <1>1, LedgerIsIndexed
<1>3. Entry(incidents'[i]) = [Ledger[i] EXCEPT !.phase = phase]
  BY <1>2 DEF Entry, KeepsItsText
<1> QED BY <1>1, <1>2, <1>3, EntryMoves

LEMMA DecisionImplemented ==
    ASSUME IInv, NEW i, Decides(i), UNCHANGED project
    PROVE  (Gate!Grant(i) \/ Gate!Close(i)) /\ i \in DOMAIN Ledger
<1>1. incidents \in Seq(Row) /\ i \in DOMAIN incidents
  BY DEF IInv, TypeOK, Decides, Changed
<1>2. Ledger[i].phase = "offered" /\ i \in DOMAIN Ledger
  BY <1>1, LedgerIsIndexed DEF Entry, Phase, Decides
<1>3. Ledger' \in {[Ledger EXCEPT ![i].phase = "granted"], [Ledger EXCEPT ![i].phase = "closed"]}
  BY <1>1, PhaseMoves DEF Decides, Phase
<1> QED BY <1>2, <1>3 DEF Gate!Grant, Gate!Close, Ledger, Entry

LEMMA GiveUpImplemented ==
    ASSUME IInv, NEW i, GivesUp(i), UNCHANGED project
    PROVE  Gate!Close(i) /\ i \in DOMAIN Ledger
<1>1. incidents \in Seq(Row) /\ i \in DOMAIN incidents
  BY DEF IInv, TypeOK, GivesUp, Changed
<1>2. Ledger[i].phase = "noticed" /\ i \in DOMAIN Ledger
  BY <1>1, LedgerIsIndexed DEF Entry, Phase, GivesUp
<1>3. Ledger' = [Ledger EXCEPT ![i].phase = "closed"]
  BY <1>1, PhaseMoves DEF GivesUp, Phase
<1> QED BY <1>2, <1>3 DEF Gate!Close, Ledger, Entry

\* The verdict is written with the fix wholly on disk.
LEMMA ConclusionImplemented ==
    ASSUME IInv, pc = "conclude", NEW i, i = pass.incident_id,
           Concludes(i, pass.verdict), UNCHANGED project
    PROVE  Gate!Close(i) /\ i \in DOMAIN Ledger
<1>1. /\ incidents \in Seq(Row) /\ i \in DOMAIN incidents
      /\ incidents[i].verifying_run_id # NULL /\ pass.verdict \in Verdicts
  BY DEF IInv, TypeOK, VerdictInHand, Watching
<1>2. project = incidents[i].model_contents_after
  BY <1>1 DEF IInv, WatchedRunsReadTheFix, At, Concludes
<1>3. Ledger[i].phase = "granted" /\ project = Ledger[i].fix /\ i \in DOMAIN Ledger
  BY <1>1, <1>2, LedgerIsIndexed DEF Entry, Phase, Concludes
<1>4. Ledger' = [Ledger EXCEPT ![i].phase = "closed"]
  BY <1>1, PhaseMoves DEF Concludes, Phase, Verdicts
<1> QED BY <1>3, <1>4 DEF Gate!Close, Ledger, Entry

LEMMA WatchImplemented ==
    ASSUME IInv, NEW i, NEW run, Watches(i, run)
    PROVE  Ledger' = Ledger
<1>1. incidents \in Seq(Row) /\ i \in DOMAIN incidents
  BY DEF IInv, TypeOK, Watches, Changed
<1>2. Entry(incidents'[i]) = Ledger[i]
  BY <1>1, LedgerIsIndexed DEF Entry, Watches, KeepsItsText, VerifyingRunUnset
<1>3. Ledger' = [Ledger EXCEPT ![i] = Ledger[i]]
  BY <1>1, <1>2, EntryMoves DEF Watches
<1> QED BY <1>3 DEF Ledger

LEMMA WriteImplemented ==
    ASSUME IInv, GateInv, ProjectStep
    PROVE  \E i \in DOMAIN Ledger : Gate!Write(i)
<1> DEFINE i == pass.incident_id
<1>1. /\ incidents \in Seq(Row) /\ i \in DOMAIN incidents
      /\ incidents[i].state = "approved"
      /\ incidents[i].model_contents_after = pass.contents_to_write
  BY DEF IInv, TypeOK, ApprovalInHand, GateInv, UnsetInHand, VerifyingRunUnset,
         ProjectStep, Applying
<1>2. /\ i \in DOMAIN Ledger /\ Ledger[i].phase = "granted"
      /\ Ledger[i].fix = pass.contents_to_write
  BY <1>1, LedgerIsIndexed DEF Entry, Phase
<1>3. project' \in {Torn, Ledger[i].fix} /\ Ledger' = Ledger
  BY <1>2 DEF ProjectStep, Ledger, Entry
<1>4. Gate!Write(i)
  BY <1>2, <1>3 DEF Gate!Write, Ledger, Entry
<1> QED BY <1>2, <1>4

\* Every step of the system is a step of the gate, or one the gate does not see.
LEMMA StepImplemented ==
    ASSUME IInv, GateInv, [Next]_vars
    PROVE  [Gate!GateNext]_(Gate!gateVars)
<1>1. Gate!gateVars = <<Ledger, project>> /\ (Gate!gateVars)' = <<Ledger, project>>'
  BY DEF Gate!gateVars, Ledger, Entry
<1>2. CASE AgentTable
  <2>1. UNCHANGED project
    BY <1>2 DEF AgentTable
  <2>2. CASE Opens
    BY <2>1, <2>2, NoticeImplemented DEF Gate!GateNext
  <2>3. CASE ~Opens
    <3>1. \/ Offers(pass.incident_id) /\ incidents[pass.incident_id].state = "open"
          \/ GivesUp(pass.incident_id)
          \/ Watches(pass.incident_id, pass.verifying_run_id)
          \/ pc = "conclude" /\ Concludes(pass.incident_id, pass.verdict)
      BY <1>2, <2>3 DEF AgentTable
    <3>2. \/ \E i \in DOMAIN Ledger : Gate!Offer(i) \/ Gate!Close(i)
          \/ Ledger' = Ledger
      <4>1. CASE Offers(pass.incident_id) /\ incidents[pass.incident_id].state = "open"
        BY <2>1, <4>1, OfferImplemented
      <4>2. CASE GivesUp(pass.incident_id)
        BY <2>1, <4>2, GiveUpImplemented
      <4>3. CASE Watches(pass.incident_id, pass.verifying_run_id)
        BY <4>3, WatchImplemented
      <4>4. CASE pc = "conclude" /\ Concludes(pass.incident_id, pass.verdict)
        <5>1. PICK i : i = pass.incident_id
          OBVIOUS
        <5>2. Gate!Close(i) /\ i \in DOMAIN Ledger
          BY <2>1, <4>4, <5>1, ConclusionImplemented
        <5> QED BY <5>2
      <4> QED BY <3>1, <4>1, <4>2, <4>3, <4>4
    <3> QED BY <1>1, <2>1, <3>2 DEF Gate!GateNext, Ledger, Entry
  <2> QED BY <2>2, <2>3
<1>3. CASE OperatorTable
  <2>1. PICK i \in DOMAIN incidents : Decides(i) /\ UNCHANGED project
    BY <1>3 DEF OperatorTable
  <2>2. (Gate!Grant(i) \/ Gate!Close(i)) /\ i \in DOMAIN Ledger
    BY <2>1, DecisionImplemented
  <2> QED BY <2>2 DEF Gate!GateNext, Ledger, Entry
<1>4. CASE ProjectStep
  <2>1. \E i \in DOMAIN Ledger : Gate!Write(i)
    BY <1>4, WriteImplemented
  <2> QED BY <2>1 DEF Gate!GateNext, Ledger, Entry
<1>5. CASE UNCHANGED <<incidents, project>>
  BY <1>1, <1>5 DEF Ledger
<1>6. UNCHANGED incidents /\ ~ProjectStep => UNCHANGED project
  BY StepForms DEF TableStep, RunsStep, PassStep
<1> QED
  BY <1>2, <1>3, <1>4, <1>5, <1>6, QuietTable DEF GateInv

\* The agent and the console together implement the approval gate: a fix is
\* fixed when it is offered, only a granted one reaches the file, and a granted
\* incident is closed only with its fix wholly on disk.
THEOREM GateImplemented == ASSUME SmokeRuns = 0 PROVE Spec => ImplementsGate
<1>1. Init => Gate!GateInit
  BY DEF Init, PipelineInit, Gate!GateInit
<1>2. IInv /\ GateInv /\ [Next]_vars => [Gate!GateNext]_(Gate!gateVars)
  BY StepImplemented
<1> QED
  BY <1>1, <1>2, Inductive, GateInductive, PTL DEF Spec, ImplementsGate, Gate!GateSpec
=============================================================================
