------------------------------- MODULE Console -------------------------------
(***************************************************************************)
(* The operator's browser tabs on the console (streamlit_app/app.py).  A   *)
(* tab shows the proposal as it was when the page was rendered and stays   *)
(* still while a decision is due; the buttons carry that rendered incident *)
(* to their callbacks, however old it has become.                          *)
(***************************************************************************)
EXTENDS IncidentClients

CONSTANTS
    Tabs,        \* browser tabs on the console
    Assessments  \* the answers the operator may give about a review

ASSUME ConsoleAssumption == Assessments \subseteq Feedbacks

VARIABLES
    pages,  \* what each tab shows: a proposal, or nothing to decide on
    shown   \* history: <<incident, text>> for each approval, as shown

consoleVars == <<pages, shown>>

NoProposal ==
    [id |-> 0, state |-> NULL, after |-> NULL, judge_review |-> NULL]

Snapshot(i) ==
    [id |-> i, state |-> incidents[i].state,
     after |-> incidents[i].model_contents_after,
     judge_review |-> incidents[i].judge_review]

ConsoleInit ==
    /\ pages = [tab \in Tabs |-> NoProposal]
    /\ shown = {}

\* main and render: only a proposed incident gets the panel with the buttons.
Render(tab) ==
    /\ pages' = [pages EXCEPT ![tab] =
                   IF At(Current, "proposed") THEN Snapshot(Current)
                                              ELSE NoProposal]
    /\ UNCHANGED <<incidents, shown>>

\* Mutated: an assessment is sent whether there is a review or not.
Feedback_Always(page, choice) == choice

\* The assessment that goes with a decision; a page without a completed review
\* sends none.
Feedback(page, choice) ==
    IF page.judge_review = "completed" THEN choice ELSE NULL

\* With a completed review on the page nothing is sent before the operator has
\* assessed it.
Assessed(page, choice) == page.judge_review = "completed" => choice # NULL

\* The statement found its row.
DecisionRecorded(page, decision, choice) ==
    /\ Assessed(page, choice)
    /\ RecordDecision(page.id, decision, page.state, Feedback(page, choice))
    /\ shown' = IF decision = "approved" THEN shown \cup {<<page.id, page.after>>}
                                         ELSE shown

\* No assessment yet, or the incident moved on: nothing changes.
DecisionDropped(page, choice) ==
    /\ ~Assessed(page, choice) \/ ~At(page.id, page.state)
    /\ UNCHANGED <<incidents, shown>>

\* _decide, after which Streamlit runs the page again.
Decide(tab, decision, choice) ==
    /\ pages[tab].id # 0
    /\ \/ DecisionRecorded(pages[tab], decision, choice)
       \/ DecisionDropped(pages[tab], choice)
    /\ pages' = [pages EXCEPT ![tab] = NoProposal]
=============================================================================
