------------------------------ MODULE Pipeline ------------------------------
(***************************************************************************)
(* The pipeline as the agent meets it: the upstream source, the landing    *)
(* table, the transformation file on the shared mount, and the runs of the *)
(* customer_elt DAG (airflow/dags/elt_pipeline.py, elt_extract.py).        *)
(*                                                                         *)
(* Airflow's scheduler is not in the repository: which run it creates or   *)
(* starts next, and whether a task fails for reasons of its own, is left   *)
(* open here.  A shape stands for the column names of the source table:    *)
(* the drift trigger renames one of them, once.                            *)
(***************************************************************************)
EXTENDS Naturals, Sequences, FiniteSets, SqlNull

CONSTANTS
    Contents,     \* complete texts the transformation file may hold
    Torn,         \* what a reader finds in the middle of a write
    Initial,      \* the text the repository ships
    Buildable,    \* for each text, the landing shapes dbt can build it on
    MaxScheduled  \* bound on the runs the schedule creates

Shapes == {"original", "drifted"}

ASSUME PipelineAssumption ==
    /\ Torn \notin Contents /\ NULL \notin Contents /\ NULL # Torn
    /\ Initial \in Contents
    /\ Buildable \in [Contents -> SUBSET Shapes]

VARIABLES
    source,   \* shape of public.customers in source_db
    landing,  \* shape of raw.customers in warehouse_db, NULL before a first run
    project,  \* contents of the transformation on disk
    runs      \* DAG runs in the order they were created (run_after)

pipelineVars == <<source, landing, project, runs>>

\* A run is queued, then goes through the stages of its two tasks, then ends.
Stages == {"columns_read", "landed", "parsed"}
Finished == {"success", "failed"}

\* What the API shows of a failed run: no task failed, a task whose log names
\* no transformation failed, or dbt named the transformation.
Failures == {"no_task", "other", "model"}

Run == [trigger : {"scheduled", "manual"},
        state : {"queued"} \cup Stages \cup Finished,
        columns : Shapes \cup {NULL},
        read : Contents \cup {Torn, NULL},
        failure : Failures \cup {NULL},
        overdue : BOOLEAN]

NewRun(trigger) ==
    [trigger |-> trigger, state |-> "queued", columns |-> NULL,
     read |-> NULL, failure |-> NULL, overdue |-> FALSE]

RunsOf(trigger) == {r \in DOMAIN runs : runs[r].trigger = trigger}

PipelineInit ==
    /\ source = "original"
    /\ landing = NULL
    /\ project = Initial
    /\ runs = <<>>
-----------------------------------------------------------------------------
\* scripts/drift.py main: the rename, done once; a second call finds the
\* drifted column and does nothing.
Drift ==
    /\ source = "original"
    /\ source' = "drifted"
    /\ UNCHANGED <<landing, project, runs>>

Schedule ==
    /\ Cardinality(RunsOf("scheduled")) < MaxScheduled
    /\ runs' = Append(runs, NewRun("scheduled"))
    /\ UNCHANGED <<source, landing, project>>

\* max_active_runs=1: a queued run starts when no other run is active.  Its
\* first task asks the source what its columns are.
StartRun(r) ==
    /\ runs[r].state = "queued"
    /\ \A other \in DOMAIN runs : runs[other].state \notin Stages
    /\ runs' = [runs EXCEPT ![r].state = "columns_read", ![r].columns = source]
    /\ UNCHANGED <<source, landing, project>>

\* The landing table is dropped and recreated with the columns read before,
\* then filled by position: a rename in between lands under the old name.
LandRows(r) ==
    /\ runs[r].state = "columns_read"
    /\ landing' = runs[r].columns
    /\ runs' = [runs EXCEPT ![r].state = "landed"]
    /\ UNCHANGED <<source, project>>

\* dbt run reads the project first and builds afterwards.
ReadProject(r) ==
    /\ runs[r].state = "landed"
    /\ runs' = [runs EXCEPT ![r].state = "parsed", ![r].read = project]
    /\ UNCHANGED <<source, landing, project>>

\* A torn file may hold any prefix of a text, so it builds or it does not.
BuildsOn(text, shape) ==
    IF text = Torn THEN BOOLEAN ELSE {shape \in Buildable[text]}

\* The staging view is created on the landing table as it now is.
BuildModels(r) ==
    /\ runs[r].state = "parsed"
    /\ \/ /\ TRUE \in BuildsOn(runs[r].read, landing)
          /\ runs' = [runs EXCEPT ![r].state = "success"]
       \/ /\ FALSE \in BuildsOn(runs[r].read, landing)
          /\ runs' = [runs EXCEPT ![r].state = "failed", ![r].failure = "model"]
    /\ UNCHANGED <<source, landing, project>>

\* A task, or the run itself, fails for a reason that is not the transformation;
\* retries are 0, so the failure stands.  dbt names the model it was building
\* when the database went away, so this too can look like a broken model.
FailRun(r) ==
    /\ runs[r].state \in Stages
    /\ \E failure \in Failures :
          /\ failure = "model" => runs[r].state = "parsed"
          /\ runs' = [runs EXCEPT ![r].state = "failed", ![r].failure = failure]
    /\ UNCHANGED <<source, landing, project>>

\* More than verification_timeout_seconds have passed since the run was queued
\* and it has not finished.  Only runs the agent triggered are ever asked.
AgeRun(r) ==
    /\ runs[r].trigger = "manual"
    /\ runs[r].state \notin Finished
    /\ ~runs[r].overdue
    /\ runs' = [runs EXCEPT ![r].overdue = TRUE]
    /\ UNCHANGED <<source, landing, project>>

RunStep(r) ==
    StartRun(r) \/ LandRows(r) \/ ReadProject(r) \/ BuildModels(r) \/ FailRun(r)

\* Orchestrator.latest_run: newest by run_after, finished or not.
LatestRun == Len(runs)

\* Orchestrator.trigger_run on the server's side.
TriggerRun == runs' = Append(runs, NewRun("manual"))

\* sandbox.write_model opens the file for writing, which empties it, and then
\* writes the text: two steps a concurrent dbt run can read between.
OpenForWriting == project' = Torn
WriteText(text) == project' = text
=============================================================================
