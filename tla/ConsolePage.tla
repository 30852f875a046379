----------------------------- MODULE ConsolePage -----------------------------
(***************************************************************************)
(* A browser tab while the script behind it runs (streamlit_app/app.py,    *)
(* main and render).  One rendering reads the record, reads it again, asks *)
(* Airflow for the latest run, reads the history, and then displays; other *)
(* tabs, the agent and the pipeline move in between.  Console has the same *)
(* tabs with a rendering as one step, and PagesFollowConsole says that this*)
(* module implements it.                                                   *)
(***************************************************************************)
EXTENDS Console, AirflowClient

CONSTANTS
    Contents,  \* texts the agent may propose
    MaxRuns    \* bound on the runs of the pipeline

ASSUME PageAssumption ==
    /\ Callers = Tabs
    /\ NULL \notin Contents \cup States
    /\ MaxRuns \in Nat

VARIABLES
    script,  \* the run of the script behind each tab
    runs,    \* states of the pipeline's runs, oldest first
    thanked  \* history: <<tab, incident, decision>> told "Recorded"

pageVars == <<consoleVars, incidents, clientVars, script, runs, thanked>>

Reviews == {"completed", "unavailable"}

RunStates == {"running", "success", "failed"}

\* history() shows this many rows.
HistoryLimit == 25

Start ==
    [at |-> "main", refreshing |-> FALSE, read |-> NoProposal,
     health |-> "unknown", run |-> 0, recorded |-> FALSE, denied |-> 0]

Init ==
    /\ incidents = <<>>
    /\ ConsoleInit
    /\ ClientInit
    /\ script = [tab \in Tabs |-> Start]
    /\ runs = <<>>
    /\ thanked = {}

RowsFor(run) == {i \in DOMAIN incidents : incidents[i].failing_run_id = run}

\* in_flight(): the row in flight as it is now.
InFlightRow == IF Current = 0 THEN NoProposal ELSE Snapshot(Current)

\* What history() lists.
Listed == {i \in DOMAIN incidents : i > Len(incidents) - HistoryLimit}

-----------------------------------------------------------------------------
(* The script *)

\* main: the first reading decides whether this rendering refreshes itself.
ReadForMode(tab) ==
    /\ script[tab].at = "main"
    /\ script' = [script EXCEPT
         ![tab] = [Start EXCEPT !.at = "render",
                                !.refreshing = InFlightRow.state # "proposed"]]
    /\ UNCHANGED <<incidents, consoleVars, clientVars, runs, thanked>>

\* Mutated: a proposal that appears while the page refreshes is just shown.
StartsOver_Never(refreshing, state) == FALSE

\* A page that refreshes starts over when a proposal has appeared.
StartsOver(refreshing, state) == refreshing /\ state = "proposed"

\* render: the second reading is the one that is displayed.
ReadRecord(tab) ==
    /\ script[tab].at = "render"
    /\ IF StartsOver(script[tab].refreshing, InFlightRow.state)
         THEN script' = [script EXCEPT ![tab] = Start]
         ELSE script' = [script EXCEPT ![tab].at = "health",
                                       ![tab].read = InFlightRow]
    /\ UNCHANGED <<incidents, consoleVars, clientVars, runs, thanked>>

Healths == {"healthy", "failing", "unknown", "never run"}

\* Mutated: a run that has not ended is reported as Airflow reports it.
HealthOf_Raw(state) ==
    CASE state = "success" -> "healthy"
      [] state = "failed" -> "failing"
      [] OTHER -> state

HealthOf(state) ==
    CASE state = "success" -> "healthy"
      [] state = "failed" -> "failing"
      [] OTHER -> "unknown"

HealthRead(tab, health, run) ==
    script' = [script EXCEPT ![tab].at = "history", ![tab].health = health,
                             ![tab].run = run,
                             ![tab].recorded = RowsFor(run) # {}]

\* health: a call to Airflow, step by step, then what it returned or raised.
ReadHealth(tab) ==
    /\ script[tab].at = "health"
    /\ \/ RequestStep(tab) /\ UNCHANGED script
       \/ /\ Answered(tab)
          /\ IF runs = <<>> THEN HealthRead(tab, "never run", 0)
             ELSE HealthRead(tab, HealthOf(runs[Len(runs)]), Len(runs))
       \/ /\ NoAnswer(tab) \/ RejectedAgain(tab)
          /\ HealthRead(tab, "unknown", 0)
    /\ UNCHANGED <<incidents, consoleVars, runs, thanked>>

\* Mutated: nothing in flight is taken for nothing recorded.
Denies_NothingInFlight(page, rows) ==
    page.read.id = 0 /\ page.health = "failing"

\* "Nothing has been recorded for this failure yet."
Denies(page, rows) ==
    /\ page.read.id = 0
    /\ page.health = "failing"
    /\ \A i \in rows : incidents[i].failing_run_id # page.run

\* Mutated: what the last rendering left on the page stays.
Panel_LeavesOldButtons(tab) ==
    IF script[tab].read.state = "proposed" THEN script[tab].read ELSE pages[tab]

\* Only a proposed incident gets the panel with the buttons.
Panel(tab) ==
    IF script[tab].read.state = "proposed" THEN script[tab].read ELSE NoProposal

Display(tab) ==
    /\ script[tab].at = "history"
    /\ script' = [script EXCEPT
         ![tab].at = "shown",
         ![tab].denied = IF Denies(script[tab], Listed) THEN script[tab].run
                                                        ELSE 0]
    /\ pages' = [pages EXCEPT ![tab] = Panel(tab)]
    /\ UNCHANGED <<incidents, shown, clientVars, runs, thanked>>

\* The fragment's timer runs render again, and not main.
Refresh(tab) ==
    /\ script[tab].at = "shown"
    /\ script[tab].refreshing
    /\ script' = [script EXCEPT
         ![tab] = [Start EXCEPT !.at = "render", !.refreshing = TRUE]]
    /\ UNCHANGED <<incidents, consoleVars, clientVars, runs, thanked>>

ScriptStep(tab) ==
    \/ ReadForMode(tab) \/ ReadRecord(tab) \/ ReadHealth(tab)
    \/ Display(tab) \/ Refresh(tab)

-----------------------------------------------------------------------------
(* The operator *)

Restarted(tab) == script' = [script EXCEPT ![tab] = Start]

Reload(tab) ==
    /\ script[tab].at = "shown"
    /\ Restarted(tab)
    /\ UNCHANGED <<incidents, consoleVars, clientVars, runs, thanked>>

\* A click runs _decide with what the page displays, then the script again.
Click(tab, decision, choice) ==
    /\ script[tab].at = "shown"
    /\ pages[tab].id # 0
    /\ \/ /\ DecisionRecorded(pages[tab], decision, choice)
          /\ thanked' = thanked \cup {<<tab, pages[tab].id, decision>>}
       \/ /\ DecisionDropped(pages[tab], choice)
          /\ UNCHANGED thanked
    /\ pages' = [pages EXCEPT ![tab] = NoProposal]
    /\ Restarted(tab)
    /\ UNCHANGED <<clientVars, runs>>

OperatorStep(tab) ==
    \/ Reload(tab)
    \/ \E decision \in {"approved", "rejected"},
          choice \in Assessments \cup {NULL} : Click(tab, decision, choice)

-----------------------------------------------------------------------------
(* What moves meanwhile: the pipeline, and the agent's statements.  A failed *)
(* run may be recorded long after the agent looked at it.                    *)

PipelineStep ==
    /\ \/ /\ Len(runs) < MaxRuns
          /\ \A r \in DOMAIN runs : runs[r] # "running"
          /\ runs' = Append(runs, "running")
       \/ \E r \in DOMAIN runs, ending \in {"success", "failed"} :
             /\ runs[r] = "running"
             /\ runs' = [runs EXCEPT ![r] = ending]
    /\ UNCHANGED <<incidents, consoleVars, clientVars, script, thanked>>

\* The text the file held before is not on any page of this module.
AgentStep ==
    /\ \/ /\ Len(incidents) < MaxIncidents
          /\ \E r \in DOMAIN runs :
                runs[r] = "failed" /\ OpenIncident(r, "model")
       \/ /\ Current # 0
          /\ \/ \E text \in Contents, review \in Reviews :
                   RecordProposal(Current, NULL, text, review)
             \/ ConcludeUnfixable(Current)
             \/ \E ending \in {"resolved", "verification_failed"} :
                   Conclude(Current, ending)
    /\ UNCHANGED <<consoleVars, clientVars, script, runs, thanked>>

TokenExpires ==
    Expire /\ UNCHANGED <<incidents, consoleVars, script, runs, thanked>>

Next ==
    \/ \E tab \in Tabs : ScriptStep(tab) \/ OperatorStep(tab)
    \/ PipelineStep
    \/ AgentStep
    \/ TokenExpires

Spec == Init /\ [][Next]_pageVars

\* Streamlit runs a script to its end, and the fragment's timer goes on.
FairSpec == Spec /\ \A tab \in Tabs : WF_pageVars(ScriptStep(tab))
-----------------------------------------------------------------------------
Page == [id : 0..MaxIncidents, state : States \cup {NULL},
         after : Contents \cup {NULL}, judge_review : Reviews \cup {NULL}]

\* Every page, script and call holds values of its kind; a health that is none
\* of these has no colour, and drawing it raises.
TypeOK ==
    /\ pages \in [Tabs -> Page]
    /\ script \in
         [Tabs -> [at : {"main", "render", "health", "history", "shown"},
                   refreshing : BOOLEAN, read : Page, health : Healths,
                   run : 0..MaxRuns, recorded : BOOLEAN, denied : 0..MaxRuns]]
    /\ token \in {NULL, "fresh", "expired"}
    /\ calls \in
         [Tabs -> [at : {"idle", "check", "fetch", "ask", "rejected"},
                   attempt : {1, 2}, expired : BOOLEAN, overlapped : BOOLEAN]]
    /\ runs \in Seq(RunStates)
    /\ thanked \in SUBSET (Tabs \X (1..MaxIncidents) \X {"approved", "rejected"})

Decided == {"approved", "resolved", "verification_failed"}

\* A click is answered "Recorded" for a decision that was recorded, and for one
\* decision per incident, whatever other tabs click meanwhile.
ThanksAreTrue ==
    \A thank \in thanked :
       /\ incidents[thank[2]].state \in
             IF thank[3] = "rejected" THEN {"rejected"} ELSE Decided
       /\ \A other \in thanked : other[2] = thank[2] => other = thank

\* "Nothing has been recorded for this failure yet" is said of a run only if
\* the record held no row for it when the run was found failing.
DenialsAreTrue ==
    \A tab \in Tabs : script[tab].denied # 0 => ~script[tab].recorded

\* A page with the buttons on it does not refresh itself, wherever between its
\* readings the proposal appeared.
DecisionsHoldStill ==
    \A tab \in Tabs :
       script[tab].at = "shown" /\ pages[tab].id # 0 => ~script[tab].refreshing

\* "Refreshing the token once if the request is rejected" is enough for a
\* thread that has the client to itself: a call is rejected twice only if a
\* token expired during it or another thread was calling too.
LoneCallsOutliveAnExpiry ==
    [][\A tab \in Tabs :
          RejectedAgain(tab) => calls[tab].expired \/ calls[tab].overlapped]_pageVars

\* Console's rendering is one step, taken here by the second reading.
HeldPages ==
    [tab \in Tabs |->
        IF script[tab].at \notin {"health", "history"} THEN pages[tab]
        ELSE IF script[tab].read.state = "proposed" THEN script[tab].read
        ELSE NoProposal]

Abstract == INSTANCE Console WITH pages <- HeldPages

\* What a tab holds changes as Console says: by a rendering that takes the row
\* as it is at that moment, or by a decision.
PagesFollowConsole ==
    [][\E tab \in Tabs :
          \/ Abstract!Render(tab)
          \/ \E decision \in {"approved", "rejected"},
                choice \in Assessments \cup {NULL} :
                   Abstract!Decide(tab, decision, choice)]_<<HeldPages, shown>>

\* A page that refreshes itself comes to show a proposal that waits for it.
ProposalsComeUp ==
    \A tab \in Tabs, i \in 1..MaxIncidents :
       script[tab].refreshing /\ At(i, "proposed")
          ~> pages[tab].id = i \/ ~At(i, "proposed")
=============================================================================
