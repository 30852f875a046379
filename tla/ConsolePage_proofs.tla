--------------------------- MODULE ConsolePage_proofs ---------------------------
(***************************************************************************)
(* Proofs about the operator console while its scripts run, for every      *)
(* number of tabs, incidents, runs, expiries and outages.                  *)
(***************************************************************************)
EXTENDS ConsolePage, TLAPS

\* A row as the statements of this module leave it.
Row == [state : States, failing_run_id : Nat, failure_output : {"model"},
        target_model_path : {Target, NULL}, model_contents_before : {NULL},
        model_contents_after : Contents \cup {NULL},
        judge_review : Reviews \cup {NULL}, judge_feedback : Feedbacks \cup {NULL},
        verifying_run_id : {NULL}, concluded : BOOLEAN]

RecordInOrder ==
    /\ incidents \in Seq(Row) /\ Len(incidents) <= MaxIncidents
    /\ OneInFlight(incidents)

RunsInOrder == Len(runs) <= MaxRuns

\* What a tab displays or has read is nothing, or a row that is on record.
OnRecord(page) ==
    IF page.id = 0 THEN page = NoProposal ELSE page.id \in DOMAIN incidents

PagesOnRecord ==
    \A tab \in Tabs :
       /\ OnRecord(pages[tab]) /\ OnRecord(script[tab].read)
       /\ pages[tab].id # 0 => pages[tab].state = "proposed"

ThanksOnRecord == \A thank \in thanked : thank[2] \in DOMAIN incidents

\* A page that refreshes has read no proposal, and displays none once shown.
RefreshesShowNothing ==
    \A tab \in Tabs :
       script[tab].refreshing =>
          /\ script[tab].at \in {"health", "history"} =>
                script[tab].read.state # "proposed"
          /\ script[tab].at = "shown" => pages[tab].id = 0

\* What was on record for a run when it was found failing stays on record.
FindingsOnRecord ==
    \A tab \in Tabs : script[tab].recorded => RowsFor(script[tab].run) # {}

\* A run is denied a row it has only when the row is too old to be listed.
OffTheList(run) ==
    \E i \in RowsFor(run) : i + HistoryLimit <= Len(incidents)

DenialsAreOffTheList ==
    \A tab \in Tabs :
       /\ script[tab].at # "shown" => script[tab].denied = 0
       /\ script[tab].denied # 0 /\ script[tab].recorded =>
             OffTheList(script[tab].denied)

\* A call that nobody crossed and no expiry hit has the client to itself, and
\* its second attempt goes out with the token it has just fetched.
LoneCallsInHand ==
    \A c \in Tabs :
       calls[c].at # "idle" /\ ~calls[c].expired /\ ~calls[c].overlapped =>
          /\ \A d \in Tabs \ {c} : calls[d].at = "idle"
          /\ calls[c].attempt = 2 =>
                \/ calls[c].at = "check" /\ token = NULL
                \/ calls[c].at = "fetch"
                \/ calls[c].at = "ask" /\ token = "fresh"

IInv ==
    /\ TypeOK /\ RecordInOrder /\ RunsInOrder /\ PagesOnRecord
    /\ ThanksOnRecord /\ ThanksAreTrue /\ RefreshesShowNothing
    /\ FindingsOnRecord /\ DenialsAreOffTheList /\ LoneCallsInHand


-----------------------------------------------------------------------------
(* What the statements do to the record *)

\* Rows are added and moved, never taken away, and keep the run they are for.
TableMoves ==
    /\ RecordInOrder'
    /\ Len(incidents) <= Len(incidents')
    /\ \A i \in DOMAIN incidents :
          /\ incidents'[i].failing_run_id = incidents[i].failing_run_id
          /\ LifecycleAllows(incidents[i], incidents'[i])

\* With one incident in flight at most, in_flight() is that one or nothing.
LEMMA CurrentIsOnRecord ==
    ASSUME RecordInOrder
    PROVE  Current = 0 \/ Current \in DOMAIN incidents
<1>1. CASE InFlight(incidents) = {}
  BY <1>1 DEF Current
<1>2. CASE InFlight(incidents) # {}
  <2>1. PICK i \in InFlight(incidents) : TRUE
    BY <1>2
  <2>2. InFlight(incidents) = {i} /\ i \in DOMAIN incidents /\ i \in Nat
    BY <2>1 DEF OneInFlight, InFlight, RecordInOrder
  <2>3. Max({i}) = i
    BY <2>2 DEF Max
  <2> QED
    BY <2>2, <2>3 DEF Current
<1> QED
  BY <1>1, <1>2

\* An accepted UPDATE moves the row it names and no other.
LEMMA UpdateMoves ==
    ASSUME RecordInOrder, NEW i \in DOMAIN incidents, NEW new \in Row,
           new.failing_run_id = incidents[i].failing_run_id,
           Updated(incidents, i, new, incidents')
    PROVE  TableMoves /\ incidents'[i].state = new.state
<1> DEFINE row == Stamped(incidents[i], new)
<1>1. /\ row \in Row /\ row.state = new.state
      /\ row.failing_run_id = new.failing_run_id
  BY DEF Stamped, Row
<1>2. /\ incidents' = [incidents EXCEPT ![i] = row]
      /\ LifecycleAllows(incidents[i], new) /\ OneInFlight(incidents')
  BY DEF Updated
<1> HIDE DEF row
<1>3. /\ incidents' \in Seq(Row) /\ Len(incidents') = Len(incidents)
      /\ incidents'[i] = row
      /\ \A j \in DOMAIN incidents : j # i => incidents'[j] = incidents[j]
  BY <1>1, <1>2 DEF RecordInOrder
<1>4. \A j \in DOMAIN incidents : LifecycleAllows(incidents[j], incidents'[j])
  BY <1>1, <1>2, <1>3 DEF LifecycleAllows
<1> QED
  BY <1>1, <1>2, <1>3, <1>4 DEF TableMoves, RecordInOrder

LEMMA OpeningMoves ==
    ASSUME RecordInOrder, Len(incidents) < MaxIncidents, NEW run \in Nat,
           OpenIncident(run, "model")
    PROVE  TableMoves
<1> DEFINE row == NewIncident(run, "model")
<1>1. row \in Row
  BY DEF NewIncident, Blank, Row, States
<1>2. incidents' = Append(incidents, row) /\ OneInFlight(incidents')
  BY DEF OpenIncident, Inserted
<1> HIDE DEF row
<1>3. /\ incidents' \in Seq(Row) /\ Len(incidents') = Len(incidents) + 1
      /\ \A j \in DOMAIN incidents : incidents'[j] = incidents[j]
  BY <1>1, <1>2 DEF RecordInOrder
<1>4. Len(incidents') <= MaxIncidents
  BY <1>3, ClientsAssumption DEF RecordInOrder
<1> QED
  BY <1>2, <1>3, <1>4 DEF TableMoves, RecordInOrder, LifecycleAllows

\* The statements that set the state and nothing the tabs have read.
LEMMA StateMoves ==
    ASSUME RecordInOrder, NEW i \in DOMAIN incidents, NEW state \in States,
           NEW feedback \in Feedbacks \cup {NULL},
           \/ Updated(incidents, i, [incidents[i] EXCEPT !.state = state], incidents')
           \/ Updated(incidents, i,
                      [incidents[i] EXCEPT !.state = state,
                                           !.judge_feedback = feedback], incidents')
    PROVE  TableMoves /\ incidents'[i].state = state
<1>0. incidents[i] \in Row
  BY DEF RecordInOrder
<1>1. CASE Updated(incidents, i, [incidents[i] EXCEPT !.state = state], incidents')
  <2> DEFINE new == [incidents[i] EXCEPT !.state = state]
  <2>1. /\ new \in Row /\ new.failing_run_id = incidents[i].failing_run_id
        /\ new.state = state /\ Updated(incidents, i, new, incidents')
    BY <1>0, <1>1 DEF Row
  <2> HIDE DEF new
  <2> QED BY <2>1, UpdateMoves
<1>2. CASE Updated(incidents, i,
                   [incidents[i] EXCEPT !.state = state, !.judge_feedback = feedback],
                   incidents')
  <2> DEFINE new == [incidents[i] EXCEPT !.state = state, !.judge_feedback = feedback]
  <2>1. /\ new \in Row /\ new.failing_run_id = incidents[i].failing_run_id
        /\ new.state = state /\ Updated(incidents, i, new, incidents')
    BY <1>0, <1>2 DEF Row
  <2> HIDE DEF new
  <2> QED BY <2>1, UpdateMoves
<1> QED
  BY <1>1, <1>2

LEMMA ProposalMoves ==
    ASSUME RecordInOrder, NEW i \in DOMAIN incidents,
           NEW text \in Contents, NEW review \in Reviews,
           RecordProposal(i, NULL, text, review)
    PROVE  TableMoves
<1> DEFINE new == Proposed(incidents[i], NULL, text, review)
<1>0. incidents[i] \in Row
  BY DEF RecordInOrder
<1>1. /\ new \in Row /\ new.failing_run_id = incidents[i].failing_run_id
      /\ Updated(incidents, i, new, incidents')
  BY <1>0 DEF Row, Proposed, States, RecordProposal
<1> HIDE DEF new
<1> QED
  BY <1>1, UpdateMoves

LEMMA AgentMoves ==
    ASSUME TypeOK, RecordInOrder, AgentStep
    PROVE  TableMoves
<1>1. CASE /\ Len(incidents) < MaxIncidents
           /\ \E r \in DOMAIN runs : runs[r] = "failed" /\ OpenIncident(r, "model")
  <2>1. PICK r \in DOMAIN runs : OpenIncident(r, "model")
    BY <1>1
  <2>2. r \in Nat
    BY <2>1 DEF TypeOK
  <2> QED BY <1>1, <2>1, <2>2, OpeningMoves
<1>2. CASE /\ Current # 0
           /\ \/ \E text \in Contents, review \in Reviews :
                    RecordProposal(Current, NULL, text, review)
              \/ ConcludeUnfixable(Current)
              \/ \E ending \in {"resolved", "verification_failed"} :
                    Conclude(Current, ending)
  <2>1. PICK i \in DOMAIN incidents : i = Current
    BY <1>2, CurrentIsOnRecord
  <2>2. CASE \E text \in Contents, review \in Reviews :
                RecordProposal(i, NULL, text, review)
    BY <2>2, ProposalMoves
  <2>3. CASE ConcludeUnfixable(i)
    BY <2>3, StateMoves DEF ConcludeUnfixable, States
  <2>4. CASE \E ending \in {"resolved", "verification_failed"} : Conclude(i, ending)
    BY <2>4, StateMoves DEF Conclude, States
  <2> QED BY <1>2, <2>1, <2>2, <2>3, <2>4
<1> QED
  BY <1>1, <1>2 DEF AgentStep

\* A click decides on the incident the page displays, which is still proposed.
LEMMA DecisionMoves ==
    ASSUME RecordInOrder, PagesOnRecord, NEW tab \in Tabs, pages[tab].id # 0,
           NEW decision \in {"approved", "rejected"},
           NEW choice \in Assessments \cup {NULL},
           DecisionRecorded(pages[tab], decision, choice)
    PROVE  /\ TableMoves
           /\ pages[tab].id \in DOMAIN incidents
           /\ incidents[pages[tab].id].state = "proposed"
           /\ incidents'[pages[tab].id].state = decision
<1> DEFINE feedback == Feedback(pages[tab], choice)
           id == pages[tab].id
<1>1. /\ id \in DOMAIN incidents /\ pages[tab].state = "proposed"
      /\ feedback \in Feedbacks \cup {NULL} /\ decision \in States
  BY ConsoleAssumption DEF PagesOnRecord, OnRecord, Feedback, States
<1>2. /\ incidents[id].state = "proposed"
      /\ Updated(incidents, id,
                 [incidents[id] EXCEPT !.state = decision, !.judge_feedback = feedback],
                 incidents')
  BY <1>1 DEF DecisionRecorded, RecordDecision
<1> HIDE DEF feedback, id
<1>3. TableMoves /\ incidents'[id].state = decision
  BY <1>1, <1>2, StateMoves
<1> QED
  BY <1>1, <1>2, <1>3 DEF id


-----------------------------------------------------------------------------
(* What a tab's step does to its script and its page *)

Script == [at : {"main", "render", "health", "history", "shown"},
           refreshing : BOOLEAN, read : Page, health : Healths,
           run : 0..MaxRuns, recorded : BOOLEAN, denied : 0..MaxRuns]

\* The script of one tab goes on; the other tabs hold still.
Turns(tab) ==
    /\ script' \in [Tabs -> Script] /\ pages' \in [Tabs -> Page]
    /\ \A other \in Tabs \ {tab} :
          script'[other] = script[other] /\ pages'[other] = pages[other]

\* A run of the script begins, with the page as it was.
Begins(tab) ==
    /\ script'[tab].at \in {"main", "render"} /\ script'[tab].read = NoProposal
    /\ ~script'[tab].recorded /\ script'[tab].denied = 0
    /\ script[tab].at \in {"main", "render", "shown"}
    /\ pages' = pages
    /\ UNCHANGED <<incidents, shown, thanked>>

\* The second reading, the one to display.
Reads(tab) ==
    /\ script[tab].at = "render"
    /\ script'[tab] = [script[tab] EXCEPT !.at = "health", !.read = InFlightRow]
    /\ script[tab].refreshing => InFlightRow.state # "proposed"
    /\ UNCHANGED <<incidents, pages, shown, thanked>>

\* The answer about the pipeline's health.
Finds(tab) ==
    /\ script[tab].at = "health"
    /\ \E health \in Healths, run \in 0..MaxRuns :
          script'[tab] = [script[tab] EXCEPT !.at = "history", !.health = health,
                                             !.run = run,
                                             !.recorded = RowsFor(run) # {}]
    /\ UNCHANGED <<incidents, pages, shown, thanked>>

Shows(tab) ==
    /\ script[tab].at = "history"
    /\ script'[tab] = [script[tab] EXCEPT
          !.at = "shown",
          !.denied = IF Denies(script[tab], Listed) THEN script[tab].run ELSE 0]
    /\ pages'[tab] = Panel(tab)
    /\ UNCHANGED <<incidents, shown, thanked>>

\* A click, recorded or not, and the script from its start.
Clicks(tab) ==
    /\ script[tab].at = "shown" /\ pages[tab].id # 0
    /\ script'[tab] = Start /\ pages'[tab] = NoProposal
    /\ \/ UNCHANGED <<incidents, shown, thanked>>
       \/ \E decision \in {"approved", "rejected"} :
             /\ TableMoves
             /\ pages[tab].id \in DOMAIN incidents
             /\ incidents[pages[tab].id].state = "proposed"
             /\ incidents'[pages[tab].id].state = decision
             /\ thanked' = thanked \cup {<<tab, pages[tab].id, decision>>}

\* Everybody else leaves the tabs alone.
TabsStill ==
    /\ UNCHANGED <<script, pages, shown, thanked>>
    /\ UNCHANGED incidents \/ TableMoves

LEMMA PagesAndScripts ==
    /\ NoProposal \in Page /\ Start \in Script
    /\ TypeOK => /\ script \in [Tabs -> Script] /\ pages \in [Tabs -> Page]
                 /\ runs \in Seq(RunStates)
<1>1. MaxIncidents \in Nat /\ MaxRuns \in Nat
  BY ClientsAssumption, PageAssumption
<1>2. NoProposal \in Page
  BY <1>1 DEF NoProposal, Page
<1>3. Start \in Script
  BY <1>1, <1>2 DEF Start, Script, Healths
<1> QED
  BY <1>2, <1>3 DEF TypeOK, Script

\* What in_flight() returns is a page.
LEMMA InFlightIsAPage ==
    ASSUME RecordInOrder
    PROVE  InFlightRow \in Page /\ OnRecord(InFlightRow)
<1>1. CASE Current = 0
  BY <1>1, PagesAndScripts DEF InFlightRow, OnRecord, NoProposal
<1>2. CASE Current # 0
  <2>1. PICK i \in DOMAIN incidents : i = Current
    BY <1>2, CurrentIsOnRecord
  <2>2. /\ i \in 1..MaxIncidents /\ incidents[i] \in Row
    BY ClientsAssumption DEF RecordInOrder
  <2>3. Snapshot(i) \in Page /\ Snapshot(i).id = i /\ i # 0
    BY <2>2 DEF Snapshot, Page, Row
  <2> QED BY <1>2, <2>1, <2>3 DEF InFlightRow, OnRecord
<1> QED
  BY <1>1, <1>2

LEMMA BeginningForms ==
    ASSUME TypeOK, RecordInOrder, NEW tab \in Tabs,
           \/ ReadForMode(tab) \/ Refresh(tab) \/ Reload(tab)
           \/ ReadRecord(tab) /\ StartsOver(script[tab].refreshing, InFlightRow.state)
    PROVE  Turns(tab) /\ Begins(tab)
<1>1. /\ script \in [Tabs -> Script] /\ pages \in [Tabs -> Page] /\ Start \in Script
  BY PagesAndScripts
<1>2. \E at \in {"main", "render"}, refreshing \in BOOLEAN :
         script' = [script EXCEPT
            ![tab] = [Start EXCEPT !.at = at, !.refreshing = refreshing]]
  <2>1. Start = [Start EXCEPT !.at = "main", !.refreshing = FALSE]
    <3>1. Start.at = "main" /\ Start.refreshing = FALSE
      BY DEF Start
    <3> QED BY <1>1, <3>1 DEF Script
  <2>2. CASE ReadForMode(tab)
    <3>1. (InFlightRow.state # "proposed") \in BOOLEAN
      OBVIOUS
    <3> QED BY <2>2, <3>1 DEF ReadForMode
  <2>3. CASE Refresh(tab)
    BY <2>3 DEF Refresh
  <2>4. CASE \/ Reload(tab)
             \/ ReadRecord(tab) /\ StartsOver(script[tab].refreshing, InFlightRow.state)
    BY <2>1, <2>4 DEF Reload, Restarted, ReadRecord
  <2> QED BY <2>2, <2>3, <2>4
<1>3. PICK at \in {"main", "render"}, refreshing \in BOOLEAN :
         script' = [script EXCEPT
            ![tab] = [Start EXCEPT !.at = at, !.refreshing = refreshing]]
  BY <1>2
<1> DEFINE new == [Start EXCEPT !.at = at, !.refreshing = refreshing]
<1>4. /\ new \in Script /\ new.at = at /\ new.read = NoProposal
      /\ ~new.recorded /\ new.denied = 0
  BY <1>1 DEF Script, Start
<1>5. /\ script[tab].at \in {"main", "render", "shown"}
      /\ UNCHANGED <<incidents, pages, shown, thanked>>
  BY DEF ReadForMode, Refresh, Reload, ReadRecord, consoleVars
<1>6. script' = [script EXCEPT ![tab] = new]
  BY <1>3
<1> HIDE DEF new
<1> QED
  BY <1>1, <1>4, <1>5, <1>6 DEF Turns, Begins

LEMMA ReadingForms ==
    ASSUME TypeOK, RecordInOrder, NEW tab \in Tabs, ReadRecord(tab),
           ~StartsOver(script[tab].refreshing, InFlightRow.state)
    PROVE  Turns(tab) /\ Reads(tab)
<1>1. /\ script \in [Tabs -> Script] /\ pages \in [Tabs -> Page]
      /\ InFlightRow \in Page
  BY PagesAndScripts, InFlightIsAPage
<1>2. /\ script' = [script EXCEPT ![tab].at = "health", ![tab].read = InFlightRow]
      /\ script[tab].at = "render"
      /\ script[tab].refreshing => InFlightRow.state # "proposed"
      /\ UNCHANGED <<incidents, pages, shown, thanked>>
  BY DEF ReadRecord, StartsOver, consoleVars
<1> DEFINE new == [script[tab] EXCEPT !.at = "health", !.read = InFlightRow]
<1>3. new \in Script /\ script' = [script EXCEPT ![tab] = new]
  BY <1>1, <1>2 DEF Script
<1>4. script'[tab] = new
  BY <1>1, <1>3
<1> QED
  BY <1>1, <1>2, <1>3, <1>4 DEF Turns, Reads

\* Whatever Airflow answers has a health the page knows.
LEMMA HealthsAreKnown == \A state \in RunStates : HealthOf(state) \in Healths
BY DEF RunStates, HealthOf, Healths

LEMMA HealthForms ==
    ASSUME TypeOK, RunsInOrder, NEW tab \in Tabs, ReadHealth(tab)
    PROVE  \/ TabsStill
           \/ Turns(tab) /\ Finds(tab)
<1>1. /\ script \in [Tabs -> Script] /\ pages \in [Tabs -> Page]
      /\ runs \in Seq(RunStates)
      /\ script[tab].at = "health"
      /\ UNCHANGED <<incidents, pages, shown, thanked>>
  BY PagesAndScripts DEF ReadHealth, consoleVars
<1>2. CASE UNCHANGED script
  BY <1>1, <1>2 DEF TabsStill
<1>3. ASSUME NEW health \in Healths, NEW run \in 0..MaxRuns, HealthRead(tab, health, run)
      PROVE  Turns(tab) /\ Finds(tab)
  <2> DEFINE new == [script[tab] EXCEPT !.at = "history", !.health = health, !.run = run,
                                        !.recorded = RowsFor(run) # {}]
  <2>1. (RowsFor(run) # {}) \in BOOLEAN
    OBVIOUS
  <2> HIDE DEF RowsFor
  <2>2. new \in Script /\ script' = [script EXCEPT ![tab] = new]
    BY <1>1, <1>3, <2>1 DEF Script, HealthRead
  <2>3. script'[tab] = new
    BY <1>1, <2>2
  <2> QED BY <1>1, <2>2, <2>3 DEF Turns, Finds
<1>4. \/ UNCHANGED script
      \/ \E health \in Healths, run \in 0..MaxRuns : HealthRead(tab, health, run)
  <2>1. 0 \in 0..MaxRuns /\ "unknown" \in Healths /\ "never run" \in Healths
    BY PageAssumption DEF Healths
  <2>2. runs # <<>> => /\ Len(runs) \in 0..MaxRuns
                       /\ HealthOf(runs[Len(runs)]) \in Healths
    BY <1>1, PageAssumption, HealthsAreKnown DEF RunsInOrder
  <2> QED BY <2>1, <2>2 DEF ReadHealth
<1> QED
  BY <1>2, <1>3, <1>4

LEMMA DisplayForms ==
    ASSUME TypeOK, NEW tab \in Tabs, Display(tab)
    PROVE  Turns(tab) /\ Shows(tab)
<1>1. /\ script \in [Tabs -> Script] /\ pages \in [Tabs -> Page]
      /\ script[tab].at = "history"
      /\ UNCHANGED <<incidents, shown, thanked>>
  BY PagesAndScripts DEF Display
<1> DEFINE denied == IF Denies(script[tab], Listed) THEN script[tab].run ELSE 0
           new == [script[tab] EXCEPT !.at = "shown", !.denied = denied]
<1>2. /\ denied \in 0..MaxRuns
      /\ script' = [script EXCEPT ![tab].at = "shown", ![tab].denied = denied]
  BY <1>1, PageAssumption DEF Display, Script
<1>3. Panel(tab) \in Page /\ pages' = [pages EXCEPT ![tab] = Panel(tab)]
  BY <1>1, PagesAndScripts DEF Display, Panel, Script
<1> HIDE DEF denied
<1>4. new \in Script /\ script' = [script EXCEPT ![tab] = new]
  BY <1>1, <1>2 DEF Script
<1>5. script'[tab] = new
  BY <1>1, <1>4
<1> USE DEF denied
<1> QED
  BY <1>1, <1>3, <1>4, <1>5 DEF Turns, Shows

LEMMA ClickForms ==
    ASSUME TypeOK, RecordInOrder, PagesOnRecord, NEW tab \in Tabs,
           NEW decision \in {"approved", "rejected"},
           NEW choice \in Assessments \cup {NULL}, Click(tab, decision, choice)
    PROVE  Turns(tab) /\ Clicks(tab)
<1>1. /\ script \in [Tabs -> Script] /\ pages \in [Tabs -> Page]
      /\ Start \in Script /\ NoProposal \in Page
  BY PagesAndScripts
<1>2. /\ script[tab].at = "shown" /\ pages[tab].id # 0
      /\ script' = [script EXCEPT ![tab] = Start]
      /\ pages' = [pages EXCEPT ![tab] = NoProposal]
  BY DEF Click, Restarted
<1>3. Turns(tab) /\ script'[tab] = Start /\ pages'[tab] = NoProposal
  BY <1>1, <1>2 DEF Turns
<1>4. \/ UNCHANGED <<incidents, shown, thanked>>
      \/ /\ DecisionRecorded(pages[tab], decision, choice)
         /\ thanked' = thanked \cup {<<tab, pages[tab].id, decision>>}
  BY DEF Click, DecisionDropped
<1> QED
  BY <1>2, <1>3, <1>4, DecisionMoves DEF Clicks

LEMMA ScriptForms ==
    ASSUME IInv, NEW tab \in Tabs, ScriptStep(tab) \/ Reload(tab)
    PROVE  \/ TabsStill
           \/ Turns(tab) /\ (Begins(tab) \/ Reads(tab) \/ Finds(tab) \/ Shows(tab))
<1>1. TypeOK /\ RecordInOrder /\ RunsInOrder
  BY DEF IInv
<1> QED
  BY <1>1, BeginningForms, ReadingForms, HealthForms, DisplayForms DEF ScriptStep

LEMMA OtherForms ==
    ASSUME IInv, [Next]_pageVars,
           ~\E tab \in Tabs : ScriptStep(tab) \/ OperatorStep(tab)
    PROVE  TabsStill
<1>1. CASE AgentStep
  BY <1>1, AgentMoves DEF IInv, AgentStep, TabsStill, consoleVars
<1>2. CASE PipelineStep \/ TokenExpires \/ UNCHANGED pageVars
  BY <1>2 DEF PipelineStep, TokenExpires, pageVars, TabsStill, consoleVars
<1> QED
  BY <1>1, <1>2 DEF Next

\* A step turns one tab's script, or leaves them all alone.
LEMMA StepForms ==
    ASSUME IInv, [Next]_pageVars
    PROVE  \/ TabsStill
           \/ \E tab \in Tabs :
                 /\ Turns(tab)
                 /\ \/ Begins(tab) \/ Reads(tab) \/ Finds(tab)
                    \/ Shows(tab) \/ Clicks(tab)
<1>1. ASSUME NEW tab \in Tabs, OperatorStep(tab), ~Reload(tab)
      PROVE  Turns(tab) /\ Clicks(tab)
  BY <1>1, ClickForms DEF IInv, OperatorStep
<1> QED
  BY <1>1, ScriptForms, OtherForms

\* Whoever moves, rows stay on record, and so does what the tabs have of them.
LEMMA RecordKeeps ==
    ASSUME IInv, [Next]_pageVars
    PROVE  UNCHANGED incidents \/ TableMoves
BY StepForms DEF TabsStill, Begins, Reads, Finds, Shows, Clicks


-----------------------------------------------------------------------------
(* The invariant holds *)

LEMMA InitIInv == Init => IInv
<1> SUFFICES ASSUME Init PROVE IInv
  OBVIOUS
<1>1. /\ incidents = <<>> /\ runs = <<>> /\ thanked = {} /\ token = NULL
      /\ pages = [tab \in Tabs |-> NoProposal] /\ script = [tab \in Tabs |-> Start]
      /\ calls = [c \in Tabs |-> Idle]
  BY PageAssumption DEF Init, ConsoleInit, ClientInit
<1>2. TypeOK
  <2>1. script \in [Tabs -> Script] /\ pages \in [Tabs -> Page]
    BY <1>1, PagesAndScripts
  <2>2. calls \in [Tabs -> [at : {"idle", "check", "fetch", "ask", "rejected"},
                            attempt : {1, 2}, expired : BOOLEAN, overlapped : BOOLEAN]]
    BY <1>1 DEF Idle
  <2>3. runs \in Seq(RunStates)
    BY <1>1
  <2> QED BY <1>1, <2>1, <2>2, <2>3 DEF TypeOK, Script
<1>3. RecordInOrder /\ RunsInOrder
  BY <1>1, ClientsAssumption, PageAssumption DEF RecordInOrder, RunsInOrder, OneInFlight, InFlight
<1>4. PagesOnRecord /\ RefreshesShowNothing
  BY <1>1 DEF PagesOnRecord, OnRecord, RefreshesShowNothing, Start, NoProposal
<1>5. ThanksOnRecord /\ ThanksAreTrue
  BY <1>1 DEF ThanksOnRecord, ThanksAreTrue
<1>6. FindingsOnRecord /\ DenialsAreOffTheList
  BY <1>1 DEF FindingsOnRecord, DenialsAreOffTheList, Start
<1>7. LoneCallsInHand
  BY <1>1 DEF LoneCallsInHand, Idle
<1> QED
  BY <1>2, <1>3, <1>4, <1>5, <1>6, <1>7 DEF IInv

LEMMA RunsStayInOrder ==
    ASSUME TypeOK, RunsInOrder, [Next]_pageVars
    PROVE  runs' \in Seq(RunStates) /\ RunsInOrder'
<1>0. runs \in Seq(RunStates) /\ MaxRuns \in Nat
  BY PageAssumption DEF TypeOK
<1>1. CASE Len(runs) < MaxRuns /\ runs' = Append(runs, "running")
  BY <1>0, <1>1 DEF RunsInOrder, RunStates
<1>2. CASE \E r \in DOMAIN runs, ending \in {"success", "failed"} :
              runs' = [runs EXCEPT ![r] = ending]
  BY <1>0, <1>2 DEF RunsInOrder, RunStates
<1>3. CASE UNCHANGED runs
  BY <1>0, <1>3 DEF RunsInOrder
<1> QED
  BY <1>1, <1>2, <1>3
     DEF Next, pageVars, ScriptStep, ReadForMode, ReadRecord, ReadHealth, Display, Refresh,
         OperatorStep, Reload, Click, PipelineStep, AgentStep, TokenExpires

\* A step of a call, by one thread or by Airflow's clock.
CallStep(c) ==
    \/ RequestStep(c) \/ Answered(c) \/ NoAnswer(c) \/ RejectedAgain(c)

LEMMA ClientForms ==
    ASSUME [Next]_pageVars
    PROVE  (\E c \in Tabs : CallStep(c)) \/ Expire \/ UNCHANGED clientVars
<1>1. ASSUME NEW tab \in Tabs, ScriptStep(tab)
      PROVE  CallStep(tab) \/ UNCHANGED clientVars
  BY <1>1 DEF ScriptStep, ReadForMode, ReadRecord, ReadHealth, Display, Refresh, CallStep
<1>2. ASSUME NEW tab \in Tabs, OperatorStep(tab)
      PROVE  UNCHANGED clientVars
  BY <1>2 DEF OperatorStep, Reload, Click
<1> QED
  BY <1>1, <1>2 DEF Next, pageVars, PipelineStep, AgentStep, TokenExpires

Calls == [at : {"idle", "check", "fetch", "ask", "rejected"},
          attempt : {1, 2}, expired : BOOLEAN, overlapped : BOOLEAN]

\* A thread begins a call, which crosses every call that is on.
Starts(c) ==
    /\ calls[c].at = "idle" /\ calls'[c].attempt = 1
    /\ token' = token
    /\ ~calls'[c].overlapped => \A d \in Tabs : calls[d].at = "idle"
    /\ \A d \in Tabs \ {c} : calls[d].at # "idle" => calls'[d].overlapped

Checks(c) ==
    /\ calls[c].at = "check" /\ token' = token
    /\ calls'[c].attempt = calls[c].attempt
    /\ calls'[c].at = IF token = NULL THEN "fetch" ELSE "ask"

Fetches(c) ==
    /\ calls[c].at = "fetch" /\ token' = "fresh"
    /\ calls'[c].attempt = calls[c].attempt /\ calls'[c].at = "ask"

IsRejected(c) ==
    /\ calls[c].at = "ask" /\ token' = token
    /\ calls[c].attempt = 1 /\ calls'[c].attempt = 1
    /\ calls'[c].at = "rejected"

Drops(c) ==
    /\ calls[c].at = "rejected" /\ token' = NULL
    /\ calls'[c].attempt = 2 /\ calls'[c].at = "check"

GoesOn(c) ==
    /\ Checks(c) \/ Fetches(c) \/ IsRejected(c) \/ Drops(c)
    /\ calls'[c].expired = calls[c].expired
    /\ calls'[c].overlapped = calls[c].overlapped

Ends(c) == calls[c].at # "idle" /\ calls'[c] = Idle /\ token' = token

\* A thread that goes to another place of its call changes nothing else of it.
LEMMA GoingTo ==
    ASSUME calls \in [Tabs -> Calls], NEW c \in Tabs,
           NEW place \in {"check", "fetch", "ask", "rejected"}, GoTo(c, place)
    PROVE  /\ calls' \in [Tabs -> Calls]
           /\ \A d \in Tabs \ {c} : calls'[d] = calls[d]
           /\ calls'[c].at = place /\ calls'[c].attempt = calls[c].attempt
           /\ calls'[c].expired = calls[c].expired
           /\ calls'[c].overlapped = calls[c].overlapped
<1>1. [calls[c] EXCEPT !.at = place] \in Calls
  BY DEF Calls
<1>2. /\ calls' \in [Tabs -> Calls]
      /\ \A d \in Tabs \ {c} : calls'[d] = calls[d]
      /\ calls'[c] = [calls[c] EXCEPT !.at = place]
  BY <1>1 DEF GoTo
<1> QED
  BY <1>2 DEF Calls

\* Where one thread's call goes; the others see at most that they are crossed.
LEMMA CallForms ==
    ASSUME calls \in [Tabs -> Calls], NEW c \in Tabs, CallStep(c)
    PROVE  /\ calls' \in [Tabs -> Calls]
           /\ \A d \in Tabs \ {c} :
                 /\ calls'[d].at = calls[d].at /\ calls'[d].attempt = calls[d].attempt
                 /\ calls'[d].expired = calls[d].expired
                 /\ calls[d].overlapped => calls'[d].overlapped
           /\ Starts(c) \/ GoesOn(c) \/ Ends(c)
<1>1. CASE Call(c)
  <2>0. /\ calls' = [d \in Tabs |->
                       IF d = c
                         THEN [Idle EXCEPT !.at = "check", !.overlapped = Calling # {}]
                         ELSE [calls[d] EXCEPT !.overlapped = @ \/ d \in Calling]]
        /\ token' = token /\ calls[c].at = "idle"
    BY <1>1, PageAssumption DEF Call, Calling
  <2>1. (Calling # {}) \in BOOLEAN /\ \A d \in Tabs : (d \in Calling) \in BOOLEAN
    OBVIOUS
  <2>2. \A d \in Tabs : d \in Calling <=> calls[d].at # "idle"
    BY PageAssumption DEF Calling
  <2> HIDE DEF Calling
  <2>3. /\ calls'[c] = [at |-> "check", attempt |-> 1, expired |-> FALSE,
                        overlapped |-> Calling # {}]
        /\ \A d \in Tabs \ {c} :
              calls'[d] = [calls[d] EXCEPT !.overlapped = @ \/ d \in Calling]
    BY <2>0 DEF Idle
  <2>4. calls'[c] \in Calls
    BY <2>1, <2>3 DEF Calls
  <2>5. \A d \in Tabs \ {c} :
           /\ calls'[d] \in Calls
           /\ calls'[d].at = calls[d].at /\ calls'[d].attempt = calls[d].attempt
           /\ calls'[d].expired = calls[d].expired
           /\ calls'[d].overlapped = (calls[d].overlapped \/ d \in Calling)
    <3>1. ASSUME NEW d \in Tabs \ {c}
          PROVE  /\ calls'[d] \in Calls
                 /\ calls'[d].at = calls[d].at /\ calls'[d].attempt = calls[d].attempt
                 /\ calls'[d].expired = calls[d].expired
                 /\ calls'[d].overlapped = (calls[d].overlapped \/ d \in Calling)
      <4>1. calls[d] \in Calls
        OBVIOUS
      <4>2. PICK crossed \in BOOLEAN : crossed = (calls[d].overlapped \/ d \in Calling)
        OBVIOUS
      <4>3. calls'[d] = [calls[d] EXCEPT !.overlapped = crossed]
        BY <2>3, <4>2
      <4>4. /\ calls'[d] \in Calls
            /\ calls'[d].at = calls[d].at /\ calls'[d].attempt = calls[d].attempt
            /\ calls'[d].expired = calls[d].expired /\ calls'[d].overlapped = crossed
        BY <4>1, <4>3 DEF Calls
      <4> QED BY <4>2, <4>4
    <3> QED BY <3>1
  <2>6. calls' \in [Tabs -> Calls]
    BY <2>0, <2>4, <2>5
  <2>7. calls'[c].attempt = 1 /\ calls'[c].overlapped = (Calling # {})
    BY <2>3
  <2>8. Calling = {} => \A d \in Tabs : calls[d].at = "idle"
    BY <2>2
  <2>9. Starts(c)
    BY <2>0, <2>2, <2>5, <2>7, <2>8 DEF Starts
  <2> QED BY <2>5, <2>6, <2>9
<1>2. CASE CheckToken(c) \/ FetchToken(c) \/ Rejected(c)
  <2>1. CASE CheckToken(c)
    <3>1. PICK place \in {"fetch", "ask"} :
            /\ place = IF token = NULL THEN "fetch" ELSE "ask"
            /\ GoTo(c, place)
      BY <2>1 DEF CheckToken
    <3> QED BY <2>1, <3>1, GoingTo DEF CheckToken, GoesOn, Checks
  <2>2. CASE FetchToken(c)
    BY <2>2, GoingTo DEF FetchToken, GoesOn, Fetches
  <2>3. CASE Rejected(c)
    BY <2>3, GoingTo DEF Rejected, MayRetry, GoesOn, IsRejected
  <2> QED BY <1>2, <2>1, <2>2, <2>3
<1>3. CASE DropToken(c)
  <2>1. [calls[c] EXCEPT !.at = "check", !.attempt = 2] \in Calls
    <3>1. calls[c] \in Calls
      OBVIOUS
    <3> QED BY <3>1 DEF Calls
  <2>2. /\ calls' = [calls EXCEPT ![c] = [calls[c] EXCEPT !.at = "check", !.attempt = 2]]
        /\ token' = NULL /\ calls[c].at = "rejected"
    BY <1>3 DEF DropToken
  <2>3. /\ calls' \in [Tabs -> Calls]
        /\ \A d \in Tabs \ {c} : calls'[d] = calls[d]
        /\ calls'[c] = [calls[c] EXCEPT !.at = "check", !.attempt = 2]
    BY <2>1, <2>2
  <2> QED BY <2>2, <2>3 DEF Calls, GoesOn, Drops
<1>4. CASE Answered(c) \/ NoAnswer(c) \/ RejectedAgain(c)
  <2>1. /\ calls' = [calls EXCEPT ![c] = Idle] /\ token' = token
        /\ calls[c].at # "idle" /\ Idle \in Calls
    BY <1>4 DEF Answered, NoAnswer, RejectedAgain, Idle, Calls
  <2>2. /\ calls' \in [Tabs -> Calls]
        /\ \A d \in Tabs \ {c} : calls'[d] = calls[d]
        /\ calls'[c] = Idle
    BY <2>1
  <2> QED BY <2>1, <2>2 DEF Ends
<1> QED
  BY <1>1, <1>2, <1>3, <1>4 DEF CallStep, RequestStep


\* An expiry marks every call that is on.
LEMMA ExpireForms ==
    ASSUME calls \in [Tabs -> Calls], Expire
    PROVE  /\ calls' \in [Tabs -> Calls] /\ token' = "expired"
           /\ \A c \in Tabs :
                 /\ calls'[c].at = calls[c].at
                 /\ calls[c].at # "idle" => calls'[c].expired
<1>1. /\ calls' = [c \in Tabs |-> [calls[c] EXCEPT !.expired = @ \/ c \in Calling]]
      /\ token' = "expired"
      /\ \A c \in Tabs : c \in Calling <=> calls[c].at # "idle"
  BY PageAssumption DEF Expire, Calling
<1> HIDE DEF Calling
<1>2. \A c \in Tabs : (c \in Calling) \in BOOLEAN
  OBVIOUS
<1>3. ASSUME NEW c \in Tabs
      PROVE  /\ calls'[c] \in Calls /\ calls'[c].at = calls[c].at
             /\ calls'[c].expired = (calls[c].expired \/ c \in Calling)
  <2>1. calls'[c] = [calls[c] EXCEPT !.expired = @ \/ c \in Calling]
    BY <1>1, <1>3
  <2> QED BY <1>2, <2>1 DEF Calls
<1>4. calls' \in [Tabs -> Calls]
  BY <1>1, <1>3
<1> QED
  BY <1>1, <1>3, <1>4

LEMMA CallsStayTyped ==
    ASSUME TypeOK, [Next]_pageVars
    PROVE  calls' \in [Tabs -> Calls] /\ token' \in {NULL, "fresh", "expired"}
<1>0. calls \in [Tabs -> Calls] /\ token \in {NULL, "fresh", "expired"}
  BY DEF TypeOK, Calls
<1>1. CASE \E c \in Tabs : CallStep(c)
  BY <1>0, <1>1, CallForms DEF Starts, GoesOn, Checks, Fetches, IsRejected, Drops, Ends
<1>2. CASE Expire
  BY <1>0, <1>2, ExpireForms
<1>3. CASE UNCHANGED clientVars
  BY <1>0, <1>3 DEF clientVars
<1> QED
  BY <1>1, <1>2, <1>3, ClientForms

LEMMA LoneCallsStayInHand ==
    ASSUME TypeOK, LoneCallsInHand, [Next]_pageVars
    PROVE  LoneCallsInHand'
<1>0. calls \in [Tabs -> Calls]
  BY DEF TypeOK, Calls
<1>1. ASSUME NEW s \in Tabs, CallStep(s)
      PROVE  LoneCallsInHand'
  <2> SUFFICES ASSUME NEW c \in Tabs, calls'[c].at # "idle",
                      ~calls'[c].expired, ~calls'[c].overlapped
               PROVE  /\ \A d \in Tabs \ {c} : calls'[d].at = "idle"
                      /\ calls'[c].attempt = 2 =>
                            \/ calls'[c].at = "check" /\ token' = NULL
                            \/ calls'[c].at = "fetch"
                            \/ calls'[c].at = "ask" /\ token' = "fresh"
    BY DEF LoneCallsInHand
  <2>1. /\ \A d \in Tabs \ {s} :
              /\ calls'[d].at = calls[d].at /\ calls'[d].attempt = calls[d].attempt
              /\ calls'[d].expired = calls[d].expired
              /\ calls[d].overlapped => calls'[d].overlapped
        /\ Starts(s) \/ GoesOn(s) \/ Ends(s)
    BY <1>0, <1>1, CallForms
  <2>2. CASE c # s
    <3>1. calls[c].at # "idle" /\ ~calls[c].expired /\ ~calls[c].overlapped
      BY <2>1, <2>2
    <3>2. calls[s].at = "idle"
      BY <2>2, <3>1 DEF LoneCallsInHand
    <3>3. ~Starts(s)
      BY <2>2, <3>1 DEF Starts
    <3> QED BY <2>1, <3>2, <3>3
            DEF GoesOn, Ends, Checks, Fetches, IsRejected, Drops
  <2>3. CASE c = s /\ Starts(s)
    BY <2>1, <2>3 DEF Starts
  <2>4. CASE c = s /\ GoesOn(s)
    <3>1. calls[c].at # "idle" /\ ~calls[c].expired /\ ~calls[c].overlapped
      BY <2>4 DEF GoesOn, Checks, Fetches, IsRejected, Drops
    <3>2. \A d \in Tabs \ {c} : calls'[d].at = "idle"
      BY <2>1, <2>4, <3>1 DEF LoneCallsInHand
    <3>3. calls[c].attempt = 2 =>
             \/ calls[c].at = "check" /\ token = NULL
             \/ calls[c].at = "fetch"
             \/ calls[c].at = "ask" /\ token = "fresh"
      BY <3>1 DEF LoneCallsInHand
    <3> QED BY <2>4, <3>2, <3>3 DEF GoesOn, Checks, Fetches, IsRejected, Drops
  <2>5. ~(c = s /\ Ends(s))
    BY DEF Ends, Idle
  <2> QED BY <2>1, <2>2, <2>3, <2>4, <2>5
<1>2. CASE Expire
  BY <1>0, <1>2, ExpireForms DEF LoneCallsInHand
<1>3. CASE UNCHANGED clientVars
  BY <1>3 DEF clientVars, LoneCallsInHand
<1> QED
  BY <1>1, <1>2, <1>3, ClientForms

LEMMA RecordStaysInOrder ==
    ASSUME IInv, [Next]_pageVars
    PROVE  RecordInOrder'
<1>1. CASE UNCHANGED incidents
  BY <1>1 DEF IInv, RecordInOrder
<1> QED
  BY <1>1, RecordKeeps DEF TableMoves

\* A row on record is still there after a step, in its state or a later one,
\* and the table has not become shorter.
LEMMA RowsStay ==
    ASSUME IInv, [Next]_pageVars
    PROVE  /\ Len(incidents) \in Nat /\ Len(incidents') \in Nat
           /\ Len(incidents) <= Len(incidents')
           /\ DOMAIN incidents = 1..Len(incidents)
           /\ \A i \in DOMAIN incidents :
                 /\ i \in DOMAIN incidents'
                 /\ incidents'[i].failing_run_id = incidents[i].failing_run_id
                 /\ LifecycleAllows(incidents[i], incidents'[i])
<1>1. incidents \in Seq(Row) /\ incidents' \in Seq(Row)
  BY RecordStaysInOrder DEF IInv, RecordInOrder
<1>2. CASE UNCHANGED incidents
  BY <1>1, <1>2 DEF LifecycleAllows
<1>3. CASE TableMoves
  <2>1. DOMAIN incidents \subseteq DOMAIN incidents'
    BY <1>1, <1>3 DEF TableMoves
  <2> QED BY <1>1, <1>3, <2>1 DEF TableMoves
<1> QED
  BY <1>2, <1>3, RecordKeeps

LEMMA PagesStayOnRecord ==
    ASSUME IInv, [Next]_pageVars
    PROVE  PagesOnRecord'
<1>1. ASSUME NEW page, OnRecord(page)
      PROVE  IF page.id = 0 THEN page = NoProposal ELSE page.id \in DOMAIN incidents'
  BY <1>1, RowsStay DEF OnRecord
<1>2. \A tab \in Tabs :
         /\ OnRecord(pages[tab]) /\ OnRecord(script[tab].read)
         /\ pages[tab].id # 0 => pages[tab].state = "proposed"
  BY DEF IInv, PagesOnRecord
<1>3. OnRecord(NoProposal) /\ NoProposal.id = 0
  BY DEF OnRecord, NoProposal
<1>4. SUFFICES ASSUME NEW tab \in Tabs
               PROVE  /\ OnRecord(pages'[tab]) /\ OnRecord(script'[tab].read)
                      /\ pages'[tab].id # 0 => pages'[tab].state = "proposed"
  BY <1>1 DEF PagesOnRecord, OnRecord
<1>5. CASE pages'[tab] = pages[tab] /\ script'[tab] = script[tab]
  BY <1>2, <1>5
<1>6. CASE Turns(tab) /\ (Begins(tab) \/ Reads(tab) \/ Finds(tab) \/ Shows(tab) \/ Clicks(tab))
  <2>0. script[tab] \in Script
    BY PagesAndScripts DEF IInv
  <2>1. CASE Begins(tab)
    BY <1>2, <1>3, <2>1 DEF Begins
  <2>2. CASE Reads(tab)
    <3>1. script'[tab].read = InFlightRow /\ OnRecord(InFlightRow)
      BY <2>0, <2>2, InFlightIsAPage DEF Reads, IInv, Script
    <3> QED BY <1>2, <2>2, <3>1 DEF Reads
  <2>3. CASE Finds(tab)
    <3>1. script'[tab].read = script[tab].read /\ pages' = pages
      BY <2>0, <2>3 DEF Finds, Script
    <3> QED BY <1>2, <3>1
  <2>4. CASE Shows(tab)
    <3>1. script'[tab].read = script[tab].read /\ pages'[tab] = Panel(tab)
      BY <2>0, <2>4 DEF Shows, Script
    <3> QED BY <1>2, <1>3, <3>1 DEF Panel
  <2>5. CASE Clicks(tab)
    <3>1. script'[tab].read = NoProposal /\ pages'[tab] = NoProposal
      BY <2>5 DEF Clicks, Start
    <3> QED BY <1>3, <3>1
  <2> QED BY <1>6, <2>1, <2>2, <2>3, <2>4, <2>5
<1> QED
  BY <1>4, <1>5, <1>6, StepForms DEF TabsStill, Turns


\* A decision that was thanked for stands, and no other can be recorded.
LEMMA ThanksStayTrue ==
    ASSUME IInv, [Next]_pageVars
    PROVE  /\ thanked' \in SUBSET (Tabs \X (1..MaxIncidents) \X {"approved", "rejected"})
           /\ ThanksOnRecord' /\ ThanksAreTrue'
<1> DEFINE Stands(thank, state) ==
              state \in IF thank[3] = "rejected" THEN {"rejected"} ELSE Decided
<1>1. /\ thanked \in SUBSET (Tabs \X (1..MaxIncidents) \X {"approved", "rejected"})
      /\ \A thank \in thanked :
            /\ thank[2] \in DOMAIN incidents
            /\ Stands(thank, incidents[thank[2]].state)
            /\ \A other \in thanked : other[2] = thank[2] => other = thank
  BY DEF IInv, TypeOK, ThanksOnRecord, ThanksAreTrue
<1>2. \A thank \in thanked :
         /\ thank[2] \in DOMAIN incidents'
         /\ Stands(thank, incidents'[thank[2]].state)
  <2>1. \A thank \in thanked :
           /\ thank[2] \in DOMAIN incidents'
           /\ LifecycleAllows(incidents[thank[2]], incidents'[thank[2]])
    BY <1>1, RowsStay
  <2>2. ASSUME NEW old, NEW new, NEW thank, Stands(thank, old.state), LifecycleAllows(old, new)
        PROVE  Stands(thank, new.state)
    BY <2>2 DEF LifecycleAllows, LegalMoves, Terminal, Decided
  <2> QED BY <1>1, <2>1, <2>2
<1>3. CASE thanked' = thanked
  BY <1>1, <1>2, <1>3 DEF ThanksOnRecord, ThanksAreTrue
<1>4. ASSUME NEW tab \in Tabs, Clicks(tab), ~UNCHANGED thanked
      PROVE  /\ thanked' \in SUBSET (Tabs \X (1..MaxIncidents) \X {"approved", "rejected"})
             /\ ThanksOnRecord' /\ ThanksAreTrue'
  <2> DEFINE id == pages[tab].id
  <2>1. PICK decision \in {"approved", "rejected"} :
           /\ id \in DOMAIN incidents /\ incidents[id].state = "proposed"
           /\ incidents'[id].state = decision
           /\ thanked' = thanked \cup {<<tab, id, decision>>}
    BY <1>4 DEF Clicks
  <2>2. id \in 1..MaxIncidents /\ id \in DOMAIN incidents'
    BY <2>1, RowsStay, ClientsAssumption DEF IInv, RecordInOrder
  <2> HIDE DEF id
  <2> DEFINE new == <<tab, id, decision>>
  <2>3. /\ new \in Tabs \X (1..MaxIncidents) \X {"approved", "rejected"}
        /\ new[2] = id /\ new[3] = decision
    BY <2>1, <2>2
  <2>4. \A thank \in thanked : thank[2] # id
    BY <1>1, <2>1 DEF Decided
  <2>5. Stands(new, incidents'[id].state)
    BY <2>1, <2>3 DEF Decided
  <2> HIDE DEF new, Stands
  <2>6. thanked' = thanked \cup {new}
    BY <2>1 DEF new
  <2>7. \A thank \in thanked' :
           /\ thank[2] \in DOMAIN incidents'
           /\ Stands(thank, incidents'[thank[2]].state)
           /\ \A other \in thanked' : other[2] = thank[2] => other = thank
    BY <1>1, <1>2, <2>2, <2>3, <2>4, <2>5, <2>6
  <2> USE DEF Stands
  <2> QED BY <1>1, <2>3, <2>6, <2>7 DEF ThanksOnRecord, ThanksAreTrue
<1> QED
  BY <1>3, <1>4, StepForms DEF TabsStill, Begins, Reads, Finds, Shows

LEMMA RefreshesStillShowNothing ==
    ASSUME IInv, [Next]_pageVars
    PROVE  RefreshesShowNothing'
<1>1. SUFFICES ASSUME NEW tab \in Tabs, script'[tab].refreshing
               PROVE  /\ script'[tab].at \in {"health", "history"} =>
                            script'[tab].read.state # "proposed"
                      /\ script'[tab].at = "shown" => pages'[tab].id = 0
  BY DEF RefreshesShowNothing
<1>2. /\ script[tab] \in Script
      /\ script[tab].refreshing =>
          /\ script[tab].at \in {"health", "history"} =>
                script[tab].read.state # "proposed"
          /\ script[tab].at = "shown" => pages[tab].id = 0
  BY PagesAndScripts DEF IInv, RefreshesShowNothing
<1>3. CASE pages'[tab] = pages[tab] /\ script'[tab] = script[tab]
  BY <1>1, <1>2, <1>3
<1>4. CASE Begins(tab)
  BY <1>4 DEF Begins
<1>5. CASE Reads(tab)
  BY <1>1, <1>2, <1>5 DEF Reads, Script
<1>6. CASE Finds(tab)
  BY <1>1, <1>2, <1>6 DEF Finds, Script
<1>7. CASE Shows(tab)
  <2>1. /\ script[tab].refreshing /\ script[tab].at = "history"
        /\ script'[tab].at = "shown" /\ pages'[tab] = Panel(tab)
    BY <1>1, <1>2, <1>7 DEF Shows, Script
  <2>2. Panel(tab) = NoProposal
    BY <1>2, <2>1 DEF Panel
  <2> QED BY <2>1, <2>2 DEF NoProposal
<1>8. CASE Clicks(tab)
  BY <1>1, <1>8 DEF Clicks, Start
<1> QED
  BY <1>3, <1>4, <1>5, <1>6, <1>7, <1>8, StepForms DEF TabsStill, Turns

LEMMA FindingsStay ==
    ASSUME IInv, [Next]_pageVars
    PROVE  FindingsOnRecord'
<1>1. \A run : RowsFor(run) # {} =>
         \E i \in DOMAIN incidents' : incidents'[i].failing_run_id = run
  BY RowsStay DEF RowsFor
<1>2. SUFFICES ASSUME NEW tab \in Tabs, script'[tab].recorded
               PROVE  RowsFor(script'[tab].run) # {}
  BY <1>1 DEF FindingsOnRecord, RowsFor
<1>3. /\ script[tab] \in Script
      /\ script[tab].recorded => RowsFor(script[tab].run) # {}
  BY PagesAndScripts DEF IInv, FindingsOnRecord
<1>4. CASE script'[tab] = script[tab]
  BY <1>2, <1>3, <1>4
<1>5. CASE Begins(tab) \/ Clicks(tab)
  BY <1>2, <1>5 DEF Begins, Clicks, Start
<1>6. CASE Reads(tab) \/ Shows(tab)
  BY <1>2, <1>3, <1>6 DEF Reads, Shows, Script
<1>7. CASE Finds(tab)
  <2>1. PICK health \in Healths, run \in 0..MaxRuns :
           script'[tab] = [script[tab] EXCEPT !.at = "history", !.health = health,
                              !.run = run, !.recorded = RowsFor(run) # {}]
    BY <1>7 DEF Finds
  <2>2. script'[tab].run = run /\ script'[tab].recorded = (RowsFor(run) # {})
    <3> HIDE DEF RowsFor
    <3> QED BY <1>3, <2>1 DEF Script
  <2> QED BY <1>2, <2>2
<1> QED
  BY <1>4, <1>5, <1>6, <1>7, StepForms DEF TabsStill, Turns

LEMMA DenialsStayOffTheList ==
    ASSUME IInv, [Next]_pageVars
    PROVE  DenialsAreOffTheList'
<1>1. \A run : OffTheList(run) =>
         \E i \in DOMAIN incidents' :
            /\ incidents'[i].failing_run_id = run
            /\ i + HistoryLimit <= Len(incidents')
  <2>1. ASSUME NEW run, NEW i \in RowsFor(run), i + HistoryLimit <= Len(incidents)
        PROVE  /\ i \in DOMAIN incidents' /\ incidents'[i].failing_run_id = run
               /\ i + HistoryLimit <= Len(incidents')
    BY <2>1, RowsStay DEF RowsFor, HistoryLimit
  <2> QED BY <2>1 DEF OffTheList
<1>2. SUFFICES ASSUME NEW tab \in Tabs
               PROVE  /\ script'[tab].at # "shown" => script'[tab].denied = 0
                      /\ script'[tab].denied # 0 /\ script'[tab].recorded =>
                            OffTheList(script'[tab].denied)
  BY <1>1 DEF DenialsAreOffTheList, OffTheList, RowsFor
<1>3. /\ script[tab] \in Script
      /\ script[tab].at # "shown" => script[tab].denied = 0
      /\ script[tab].denied # 0 /\ script[tab].recorded => OffTheList(script[tab].denied)
      /\ script[tab].recorded => RowsFor(script[tab].run) # {}
  BY PagesAndScripts DEF IInv, DenialsAreOffTheList, FindingsOnRecord
<1>4. CASE script'[tab] = script[tab]
  BY <1>3, <1>4
<1>5. CASE Begins(tab) \/ Clicks(tab)
  BY <1>5 DEF Begins, Clicks, Start
<1>6. CASE Reads(tab) \/ Finds(tab)
  <2>1. /\ script[tab].denied = 0
        /\ \/ script'[tab] = [script[tab] EXCEPT !.at = "health", !.read = InFlightRow]
           \/ \E health \in Healths, run \in 0..MaxRuns, recorded \in BOOLEAN :
                 script'[tab] = [script[tab] EXCEPT !.at = "history", !.health = health,
                                                    !.run = run, !.recorded = recorded]
    <3>1. \A run : (RowsFor(run) # {}) \in BOOLEAN
      OBVIOUS
    <3> HIDE DEF RowsFor
    <3> QED BY <1>3, <1>6, <3>1 DEF Reads, Finds
  <2>2. script'[tab].denied = 0
    BY <1>3, <2>1 DEF Script
  <2> QED BY <2>2
<1>7. CASE Shows(tab)
  <2>1. /\ script'[tab].at = "shown" /\ script'[tab].recorded = script[tab].recorded
        /\ script'[tab].denied = IF Denies(script[tab], Listed) THEN script[tab].run ELSE 0
    BY <1>3, <1>7 DEF Shows, Script
  <2>2. ASSUME script[tab].recorded, Denies(script[tab], Listed)
        PROVE  OffTheList(script[tab].run)
    <3>1. PICK i \in RowsFor(script[tab].run) : TRUE
      BY <1>3, <2>2
    <3>2. /\ i \in DOMAIN incidents /\ i \in Nat /\ Len(incidents) \in Nat
          /\ incidents[i].failing_run_id = script[tab].run
      BY <3>1, RowsStay DEF RowsFor
    <3>3. ~(i > Len(incidents) - HistoryLimit)
      BY <2>2, <3>2 DEF Denies, Listed
    <3> QED BY <3>1, <3>2, <3>3 DEF OffTheList, HistoryLimit
  <2> QED BY <2>1, <2>2
<1> QED
  BY <1>4, <1>5, <1>6, <1>7, StepForms DEF TabsStill, Turns

LEMMA TypesStay ==
    ASSUME IInv, [Next]_pageVars
    PROVE  TypeOK'
<1>1. script' \in [Tabs -> Script] /\ pages' \in [Tabs -> Page]
  BY StepForms, PagesAndScripts DEF IInv, TabsStill, Turns
<1> QED
  BY <1>1, CallsStayTyped, RunsStayInOrder, ThanksStayTrue DEF IInv, TypeOK, Script, Calls

LEMMA NextIInv == IInv /\ [Next]_pageVars => IInv'
<1> SUFFICES ASSUME IInv, [Next]_pageVars PROVE IInv'
  OBVIOUS
<1>1. RunsInOrder' /\ LoneCallsInHand'
  BY RunsStayInOrder, LoneCallsStayInHand DEF IInv
<1> QED
  BY <1>1, TypesStay, RecordStaysInOrder, PagesStayOnRecord, ThanksStayTrue,
     RefreshesStillShowNothing, FindingsStay, DenialsStayOffTheList DEF IInv


-----------------------------------------------------------------------------
\* The invariant the theorems below read their part from.
THEOREM Inductive == Spec => []IInv
BY InitIInv, NextIInv, PTL DEF Spec

\* Every page, script and call holds values of its kind, whatever the operator,
\* the agent and Airflow do meanwhile (main and render of app.py).
THEOREM TypeCorrect == Spec => []TypeOK
<1>1. IInv => TypeOK
  BY DEF IInv
<1> QED BY <1>1, Inductive, PTL

\* A click answered "Recorded" was recorded, and for an incident there is one
\* such answer, however many tabs are open (_decide of app.py).
THEOREM ThanksTrue == Spec => []ThanksAreTrue
<1>1. IInv => ThanksAreTrue
  BY DEF IInv
<1> QED BY <1>1, Inductive, PTL

\* A page with the buttons on it never refreshes itself (main and render).
THEOREM HoldStill == Spec => []DecisionsHoldStill
<1>1. IInv => DecisionsHoldStill
  BY DEF IInv, RefreshesShowNothing, DecisionsHoldStill
<1> QED BY <1>1, Inductive, PTL

\* A failure that was on record when the run was found failing is denied only
\* if its row is older than the last HistoryLimit (history of incidents.py).
THEOREM DenialsForgetTheOldest == Spec => []DenialsAreOffTheList
<1>1. IInv => DenialsAreOffTheList
  BY DEF IInv
<1> QED BY <1>1, Inductive, PTL

\* While the record fits in the history that is listed, no denial is false.
THEOREM DenialsTrue ==
    ASSUME MaxIncidents <= HistoryLimit
    PROVE  Spec => []DenialsAreTrue
<1>1. ASSUME IInv, NEW tab \in Tabs, script[tab].denied # 0, script[tab].recorded
      PROVE  FALSE
  <2>1. PICK i \in DOMAIN incidents : i + HistoryLimit <= Len(incidents)
    BY <1>1 DEF IInv, DenialsAreOffTheList, OffTheList, RowsFor
  <2>2. i \in Nat /\ i # 0 /\ Len(incidents) \in Nat /\ Len(incidents) <= MaxIncidents
    BY <1>1, <2>1 DEF IInv, RecordInOrder
  <2> QED BY <2>1, <2>2, ClientsAssumption DEF HistoryLimit
<1>2. IInv => DenialsAreTrue
  BY <1>1 DEF DenialsAreTrue
<1> QED BY <1>2, Inductive, PTL

\* A call is rejected twice only if a token expired during it or another thread
\* was calling too (_request of pipeline.py).
THEOREM LoneCallsSucceed == Spec => LoneCallsOutliveAnExpiry
<1>1. ASSUME IInv, NEW tab \in Tabs, RejectedAgain(tab)
      PROVE  calls[tab].expired \/ calls[tab].overlapped
  <2>1. /\ calls[tab].at = "ask" /\ token # "fresh"
        /\ calls[tab].attempt = 2
    BY <1>1 DEF RejectedAgain, MayRetry, IInv, TypeOK
  <2> QED BY <1>1, <2>1 DEF IInv, LoneCallsInHand
<1>2. IInv => \A tab \in Tabs :
                 RejectedAgain(tab) => calls[tab].expired \/ calls[tab].overlapped
  BY <1>1
<1> QED BY <1>2, Inductive, PTL DEF Spec, LoneCallsOutliveAnExpiry

-----------------------------------------------------------------------------
(* The script implements the one-step rendering of Console *)

\* Console reads the same record.
LEMMA SameRecord ==
    /\ Abstract!Current = Current /\ Abstract!NoProposal = NoProposal
    /\ \A i, state : Abstract!At(i, state) <=> At(i, state)
    /\ \A i : Abstract!Snapshot(i) = Snapshot(i)
<1>1. Abstract!InFlight(incidents) = InFlight(incidents)
  BY DEF Abstract!InFlight, InFlight, Abstract!Terminal, Terminal
<1>2. Abstract!Current = Current
  BY <1>1 DEF Abstract!Current, Current, Abstract!Max, Max
<1> QED
  BY <1>2 DEF Abstract!NoProposal, NoProposal, Abstract!At, At, Abstract!Snapshot, Snapshot

\* What Console sees of a tab, before and after a step.
LEMMA HeldTab ==
    ASSUME NEW tab \in Tabs
    PROVE  /\ script[tab].at \notin {"health", "history"} => HeldPages[tab] = pages[tab]
           /\ script[tab].at \in {"health", "history"} =>
                HeldPages[tab] = IF script[tab].read.state = "proposed"
                                   THEN script[tab].read ELSE NoProposal
           /\ script'[tab].at \notin {"health", "history"} => HeldPages'[tab] = pages'[tab]
           /\ script'[tab].at \in {"health", "history"} =>
                HeldPages'[tab] = IF script'[tab].read.state = "proposed"
                                    THEN script'[tab].read ELSE NoProposal
           /\ HeldPages = [t \in Tabs |-> HeldPages[t]]
           /\ HeldPages' = [t \in Tabs |-> HeldPages'[t]]
<1> DEFINE Held(page, run) ==
              IF run.at \notin {"health", "history"} THEN page
              ELSE IF run.read.state = "proposed" THEN run.read
              ELSE NoProposal
<1>1. /\ HeldPages = [t \in Tabs |-> Held(pages[t], script[t])]
      /\ HeldPages' = [t \in Tabs |-> Held(pages'[t], script'[t])]
  BY DEF HeldPages
<1>2. ASSUME NEW page, NEW run
      PROVE  /\ run.at \notin {"health", "history"} => Held(page, run) = page
             /\ run.at \in {"health", "history"} =>
                  Held(page, run) = IF run.read.state = "proposed" THEN run.read
                                                                  ELSE NoProposal
  OBVIOUS
<1> HIDE DEF Held
<1>3. /\ HeldPages[tab] = Held(pages[tab], script[tab])
      /\ HeldPages'[tab] = Held(pages'[tab], script'[tab])
  BY <1>1
<1>4. /\ HeldPages = [t \in Tabs |-> HeldPages[t]]
      /\ HeldPages' = [t \in Tabs |-> HeldPages'[t]]
  BY <1>1
<1> QED
  BY <1>2, <1>3, <1>4

\* The second reading holds the proposal that waits, if there is one.
LEMMA ReadingHolds ==
    ASSUME IInv
    PROVE  (IF InFlightRow.state = "proposed" THEN InFlightRow ELSE NoProposal)
             = (IF At(Current, "proposed") THEN Snapshot(Current) ELSE NoProposal)
<1>1. RecordInOrder
  BY DEF IInv
<1>2. CASE Current = 0
  <2>1. Current \notin DOMAIN incidents
    BY <1>1, <1>2 DEF RecordInOrder
  <2> QED BY <1>2, <2>1, PageAssumption DEF InFlightRow, NoProposal, At, States
<1>3. CASE Current # 0
  BY <1>1, <1>3, CurrentIsOnRecord DEF InFlightRow, Snapshot, At
<1> QED
  BY <1>2, <1>3

\* A step of one tab's script leaves what Console sees of it, or renders.
LEMMA ScriptImplements ==
    ASSUME IInv, NEW tab \in Tabs, Turns(tab),
           Begins(tab) \/ Reads(tab) \/ Finds(tab) \/ Shows(tab)
    PROVE  \/ HeldPages' = HeldPages /\ shown' = shown
           \/ Abstract!Render(tab)
<1>1. /\ script[tab] \in Script
      /\ \A other \in Tabs \ {tab} : HeldPages'[other] = HeldPages[other]
  <2>1. script[tab] \in Script
    BY PagesAndScripts DEF IInv
  <2>2. ASSUME NEW other \in Tabs \ {tab}
        PROVE  HeldPages'[other] = HeldPages[other]
    <3>1. script'[other] = script[other] /\ pages'[other] = pages[other]
      BY <2>2 DEF Turns
    <3> QED BY <2>2, <3>1 DEF HeldPages
  <2> QED BY <2>1, <2>2
<1>2. ASSUME HeldPages'[tab] = HeldPages[tab]
      PROVE  HeldPages' = HeldPages
  BY <1>1, <1>2, HeldTab
<1>3. CASE Begins(tab)
  BY <1>2, <1>3, HeldTab DEF Begins
<1>4. CASE Finds(tab)
  <2>1. /\ script'[tab].at = "history" /\ script[tab].at = "health"
        /\ script'[tab].read = script[tab].read /\ shown' = shown
    BY <1>1, <1>4 DEF Finds, Script
  <2> QED BY <1>2, <2>1, HeldTab
<1>5. CASE Shows(tab)
  <2>1. /\ script'[tab].at = "shown" /\ script[tab].at = "history"
        /\ pages'[tab] = Panel(tab) /\ shown' = shown
    BY <1>1, <1>5 DEF Shows, Script
  <2> QED BY <1>2, <2>1, HeldTab DEF Panel
<1>6. CASE Reads(tab)
  <2>1. /\ script'[tab].at = "health" /\ script'[tab].read = InFlightRow
        /\ UNCHANGED <<incidents, shown>>
    BY <1>1, <1>6 DEF Reads, Script
  <2>2. HeldPages'[tab] = IF InFlightRow.state = "proposed" THEN InFlightRow ELSE NoProposal
    BY <2>1, HeldTab
  <2> DEFINE new == IF At(Current, "proposed") THEN Snapshot(Current) ELSE NoProposal
  <2>3. HeldPages'[tab] = new
    BY <2>2, ReadingHolds
  <2>4. HeldPages' = [HeldPages EXCEPT ![tab] = new]
    <3> HIDE DEF new
    <3> QED BY <1>1, <2>3, HeldTab
  <2> QED BY <2>1, <2>4, SameRecord DEF Abstract!Render
<1> QED
  BY <1>3, <1>4, <1>5, <1>6


\* Console sends the same statements.
LEMMA SameStatements ==
    ASSUME NEW page, NEW decision, NEW choice
    PROVE  /\ Abstract!DecisionRecorded(page, decision, choice)
                <=> DecisionRecorded(page, decision, choice)
           /\ Abstract!DecisionDropped(page, choice) <=> DecisionDropped(page, choice)
BY DEF Abstract!DecisionRecorded, DecisionRecorded, Abstract!DecisionDropped,
       DecisionDropped, Abstract!Assessed, Assessed, Abstract!Feedback, Feedback,
       Abstract!At, At, Abstract!RecordDecision, RecordDecision, Abstract!Updated, Updated,
       Abstract!FeedbackAllows, FeedbackAllows, Abstract!LifecycleAllows, LifecycleAllows,
       Abstract!LegalMoves, LegalMoves, Abstract!Terminal, Terminal,
       Abstract!ChecksHold, ChecksHold, Abstract!Stamped, Stamped, Abstract!States, States,
       Abstract!Feedbacks, Feedbacks, Abstract!OneInFlight, OneInFlight,
       Abstract!InFlight, InFlight

LEMMA ClickImplements ==
    ASSUME IInv, NEW tab \in Tabs, NEW decision \in {"approved", "rejected"},
           NEW choice \in Assessments \cup {NULL}, Click(tab, decision, choice)
    PROVE  Abstract!Decide(tab, decision, choice)
<1>1. TypeOK /\ RecordInOrder /\ PagesOnRecord
  BY DEF IInv
<1>2. Turns(tab) /\ Clicks(tab)
  BY <1>1, ClickForms
<1>3. /\ HeldPages[tab] = pages[tab] /\ HeldPages'[tab] = NoProposal
      /\ pages[tab].id # 0
  BY <1>2, HeldTab DEF Clicks, Start
<1>4. ASSUME NEW other \in Tabs \ {tab}
      PROVE  HeldPages'[other] = HeldPages[other]
  BY <1>2, <1>4 DEF HeldPages, Turns
<1>5. HeldPages' = [HeldPages EXCEPT ![tab] = Abstract!NoProposal]
  BY <1>3, <1>4, HeldTab, SameRecord
<1>6. \/ DecisionRecorded(pages[tab], decision, choice)
      \/ DecisionDropped(pages[tab], choice)
  BY DEF Click
<1>7. \/ Abstract!DecisionRecorded(pages[tab], decision, choice)
      \/ Abstract!DecisionDropped(pages[tab], choice)
  BY <1>6, SameRecord, SameStatements
<1> QED
  BY <1>3, <1>5, <1>7 DEF Abstract!Decide

\* What the tabs hold changes by a rendering that takes the row as it is at
\* that moment, or by a decision (render and _decide of app.py).
THEOREM PagesImplemented == Spec => PagesFollowConsole
<1> DEFINE Follows ==
              \E tab \in Tabs :
                 \/ Abstract!Render(tab)
                 \/ \E decision \in {"approved", "rejected"},
                       choice \in Assessments \cup {NULL} :
                          Abstract!Decide(tab, decision, choice)
           Unseen == HeldPages' = HeldPages /\ shown' = shown
<1>1. ASSUME IInv, [Next]_pageVars
      PROVE  Follows \/ Unseen
  <2>1. ASSUME TabsStill
        PROVE  Unseen
    BY <2>1 DEF TabsStill, HeldPages
  <2>2. ASSUME NEW tab \in Tabs, ScriptStep(tab) \/ Reload(tab)
        PROVE  Follows \/ Unseen
    BY <1>1, <2>1, <2>2, ScriptForms, ScriptImplements
  <2>3. ASSUME NEW tab \in Tabs, OperatorStep(tab)
        PROVE  Follows \/ Unseen
    BY <1>1, <2>2, <2>3, ClickImplements DEF OperatorStep
  <2> QED BY <1>1, <2>1, <2>2, <2>3, OtherForms
<1>2. IInv /\ [Next]_pageVars => [Follows]_<<HeldPages, shown>>
  BY <1>1
<1> QED
  BY <1>2, Inductive, PTL DEF Spec, PagesFollowConsole
=============================================================================
