# A verification project for the agentic data engineering demo

The repository runs a small ELT pipeline, breaks it by renaming an upstream
column, and lets an agent diagnose the failure, propose a corrected
transformation, wait for an operator's approval, apply what was approved and
verify it against a pipeline run of its own. This directory models that loop in
TLA+, checks it with TLC and proves its safety properties with TLAPS. Paths are relative to
the repository root.

## 1. Inventory

### Parts, their state and their operations

| Part | Source | State it keeps | Operations |
|---|---|---|---|
| Incident record | `postgres/init/03-incident-store.sql`, `05-judge-review.sh` | rows of `ops.incidents` | INSERT and UPDATE, filtered by checks, three triggers and a partial unique index |
| Agent graph and loop | `agent/graph.py`, `agent/main.py` | nothing between passes; `AgentState` within one | 17 nodes, one pass after another for ever |
| Store client | `agent/incidents.py` | none | six statements, each conditional on a state |
| Airflow clients | `agent/orchestrator.py`, `streamlit_app/pipeline.py` | a token | check, fetch, request, drop and ask once more; latest run, failed task, log, one run, trigger |
| Project writer | `agent/sandbox.py` | the transformation file | `write_model` |
| Validation | `agent/validation.py` | a copy of the project, the agent's schemas | drop, copy, write the macro and the candidate, build or time out, drop |
| Model calls | `agent/diagnosis.py`, `proposal.py`, `judge.py` | none | diagnose, propose, review |
| Pipeline | `airflow/dags/*`, `dbt/` | landing table, models, runs | extract, transform |
| Drift trigger | `scripts/drift.py` | the source's column name | look, look, rename, report |
| Simulated upstream | `postgres/seed/*` | rows of the source | seed, append a batch |
| Operator console | `streamlit_app/*` | what each browser tab shows, whether it refreshes, one Airflow client | two readings of the record, health, history, display, refresh, approve, reject |
| Smoke test | `smoke-tests.sh` | none | writes the record like an agent and an operator at once |
| Tracing, settings, deployment | `agent/traces.py`, `agent/config.py`, `docker-compose.yml`, `verify-stack.sh` | none that the programs decide on | |

The parts never call each other. They meet in three shared places:
`ops.incidents`, the transformation file on a shared mount, and Airflow's runs.
Everything hard follows from that: each part reads a shared place, thinks for
seconds or minutes, and writes another.

### What is hard

- The agent holds nothing between passes and may die at any node, between
  emptying the file and filling it or between triggering a run and recording it.
- Scheduled runs go on while a fix is written, so a run may have started before
  the write, or be queued in front of the run that is to verify it.
- A page stands still while the operator reads; the record moves under it.
- One rendering reads the record twice, then Airflow, then the history, and all
  sessions share one Airflow client with one token.
- A candidate is built on the landing table that the pipeline's extract drops,
  with every view on it; each may wait for the other's lock, and dbt may hang.
- `smoke-tests.sh` writes the record while the agent is running.
- One incident at most is in flight, so one that never concludes would stop
  everything.

PROJECT.json lists these hazards one by one, at their lines, with the property
that would catch each or the reason why none does.

### What makes each part correct

- Record: legal roads only, one incident in flight, conclusions final.
- Agent: nothing acts without an approval, what is written is what was approved,
  the verdict comes from a run that read it, retries are bounded, nothing waits
  for ever.
- Validation: a verdict is about the whole project with that candidate and about
  nothing an earlier one left; the pipeline's output is untouched; nothing stays
  behind; neither build nor extract holds up the other for ever.
- Airflow clients: a call outlives an expired token, and a second rejection ends it.
- Console: what is approved is what was shown; a completed review is assessed; a
  page with buttons stands still; "Recorded" and "nothing has been recorded" are
  true; a proposal comes up by itself.
- Pipeline: a failure is shown and stays; no two runs write the landing table.
- Upstream: the source holds the seed and a whole number of batches, and a
  rename neither stops the arrivals nor mixes with a batch under way.

## 2. Modules

    SqlNull               the null of columns and fields
    IncidentSchema        checks, triggers and index, as operators on rows
    IncidentStore         the record under any writer
    IncidentStore_proofs  theorems about it
    IncidentClients       the statements the programs send, on that schema
    Pipeline              source, landing table, file and runs
    Agent                 the graph, a node per action; EXTENDS the two above
    Console               browser tabs, a rendering as one step
    AirflowClient         the request loop and its token, shared by threads
    ConsolePage           the script behind a tab, reading by reading; refines Console
    Validation            one candidate after another, beside the extract
    SmokeTest             the script's statements
    ApprovalGate          abstract specification of the promise
    SelfHealing           all of it together, properties and refinement
    Upstream              the source table: seeder, arrivals, triggers, extract
    Upstream_proofs       theorems about it
    Validation_proofs     theorems about it
    SelfHealing_proofs    theorems about the whole loop, whoever writes the record
    SelfHealingGate_proofs  theorems about it without a second writer
    ConsolePage_proofs    theorems about the page, and that it refines Console
    MCIncidentStore, MCSelfHealing, MCValidation   small instances for TLC

### How state and actions correspond to the code

**IncidentSchema.** `Inserted` and `Updated` say what the table looks like after
a statement the schema accepts, in PostgreSQL's order: row triggers (judge
feedback, then lifecycle, which may stamp `concluded_at`), then checks, then the
index. Columns that no property distinguishes (texts for people, timestamps) are
left out; `concluded_at` is whether it is set.

**IncidentStore.** `Insert` and `Update(i)` attempt any row at all, values the
checks do not know included. A refused statement is a stuttering step. `seen` is
a history variable.

**IncidentClients.** One operator per statement of `agent/incidents.py`,
`streamlit_app/incidents.py` and `smoke-tests.sh`, each with its WHERE clause.
`_advance` raising on zero rows is the other disjunct in the action that uses
the statement.

**Pipeline.** A run is queued, has read the source's columns, has landed the
rows, has parsed the project, and has ended. `StartRun` is `read_source_columns`,
`LandRows` the rebuild and the copy, `ReadProject` and `BuildModels` are dbt,
which parses first and builds later. Column names are abstracted to the two
shapes the rename distinguishes, and whether a text builds on a shape is the
constant `Buildable`. A build also fails, or a task dies, for reasons of its own
(`FailRun`), and dbt may then blame the transformation. Airflow's scheduler is
not part of the repository: any queued run may be next.

**Agent.** `pc` is the node about to run and `pass` its `AgentState`. A node
that only reads is one action. `apply_fix` is two, because opening a file for
writing empties it. `trigger_rerun` is two, because two systems are called.
`verify_success` is two (`VerifySuccess`, `WriteVerdict`), because the run may
move between its reading and the verdict. `route_on_state` and
`load_approved` or `resume_incident` are separate actions, because the code
reads the record in each. `Fault` drops the pass at any node: `main.py` catches
what a pass raises, the container is restarted, and both leave the same state.
A lost answer of the POST that triggers a run is a `Fault` after `TriggerRerun`.
The nodes after `inspect_schema` that fall through when nothing was found are
folded into the node that found nothing.

**Console.** `pages` is what each tab shows. `Decide` uses the page and not the
record, as the button callbacks do: `DecisionRecorded` is the statement that
found its row, `DecisionDropped` a click without the assessment that is due, or
one on an incident that has moved on. `Feedback` is what goes with the decision.
A page without a proposal may be stale as well, but has no buttons.

**AirflowClient.** The loop of `_request`, which both clients have. The token is
an attribute, so it is looked at (`CheckToken`), fetched (`FetchToken`), read
for the header (`Answered`, `Rejected`) and dropped (`DropToken`) with other
threads in between. A call ends with Airflow's answer, without one (`NoAnswer`)
or rejected a second time. `expired` and `overlapped` are histories of a call.

**ConsolePage.** The script of `app.py` from top to bottom: `ReadForMode` is the
reading in `main` that chooses whether the page refreshes, `ReadRecord` the one
in `render` that is shown, `ReadHealth` a call through `AirflowClient`,
`Display` the history and the panel. `Refresh` is the fragment's timer, which
runs `render` and not `main`. The agent and the pipeline are their statements
only, in any order the record allows. `PagesFollowConsole` says that what a tab
holds changes exactly as in `Console`, whose rendering is taken by the second
reading; so what `SelfHealing` shows with `Console` is not owed to the
rendering being one step there.

**Validation.** `at` is the line of `validate`, `scratch` the copy file by file,
`relations` what each side's schemas hold and who built it. dbt and PostgreSQL
are external: dbt parses, creates schemas and commits one model after the other,
and the locks are what `dbt.at` and `extract.at` imply. A container that stops
takes dbt with it, and PostgreSQL rolls the open transaction back. `ApplyFix`
changes the project between validations only, because the same process does
both. The agent's own validation is one step in `Agent`, with a verdict about
the landing table of that moment; `BuiltMeansTheWholeProject` is what justifies
it.

**SmokeTest.** A program counter over the five statements. The rest of the
script starts a pipeline run, which is one more run the schedule might have
created, and waits. The script approves the proposal that is there; when its own
overwrite found nothing, the agent may have put it there.

**ApprovalGate.** A ledger and a disk. A fix is fixed when it is offered, only a
granted fix is written, the disk changes at no other time, and a granted entry
closes only with its fix wholly on disk. `SelfHealing!Gate` maps the record to
the ledger and the file to the disk.

**Upstream.** Composed on its own, below the column shapes of `Pipeline`: the
three writers of the source and its reader, a statement per action. A
transaction that has read or written the table holds a lock until it ends and
the rename waits for it; one that has only read the catalogue holds none. That
is PostgreSQL's doing and nothing in the code says so, yet it is all that
separates a batch from a rename. `holders` is the set of such transactions. A
batch that raises and a process that dies both end in `Sleep` with the lock
released, since compose starts the container again. Statements that read for
display only (`row_count` after a batch, the first `identifier_column`) are left
out, and a record is its identifier. `failures` counts to two, which stands for
more.

## 3. What the runs check

| Run | Instance | Question | Distinct states |
|---|---|---|---|
| `incident_store` | 2 rows, 9 attempts at states, unknown texts included | Does the schema alone keep the lifecycle? | 13 thousand |
| `loop` | 2 scheduled runs, 2 incidents, 3 texts, no faults | The shown difference, and the proof with other runs around it | 1.4 million |
| `crash` | 1 scheduled run, 2 incidents, 2 attempts a pass, 1 fault | The gate and its refinement; torn file, spare runs, the watched run; only what built is offered; budgets | 1.1 million |
| `tabs` | 2 tabs, 2 incidents, 3 texts, no faults | Stale pages and assessments; a failure is noticed, a second one too | 72 thousand |
| `smoke` | one run of the script, 2 incidents | A resolution is still about its fix with a second writer of the record, which may replace an approval the agent is applying | 1.1 million |
| `liveness` | 2 attempts, 1 fault | Approved and open incidents move on | 71 thousand |
| `upstream` | seed of 2, batches of 2, 3 batches, 2 triggers, 1 crash | Counts, the batch and the rename, racing triggers, stale names, one failing batch, arrivals go on | 123 thousand |
| `console` | 2 tabs on one client, 1 incident, 1 run, 1 expiry, 1 outage | Two readings, refreshing, denials, thanks, the token; refines `Console` | 453 thousand |
| `validation` | 3 validations, 2 extracts, 2 faults, 3 staging and 2 mart texts | Leftovers, the pipeline's output, the verdict, locks and the timeout | 228 thousand |

Why these bounds are enough for the questions: two incidents are the fewest for
which "another incident" exists, and the second arises only from a failing
verifying run or from a rejection; two scheduled runs are the fewest for which
one can be ahead of the verifying run while another made the failure; one fault
reaches every crash window; two texts
tell a right fix from a wrong one, and a third, which also builds, tells two
proposals that both work apart.

For the upstream, two triggers are the fewest that race; batches of two differ
from a batch of one too many; and three batches put a rename or a crash before,
inside and after another.

For the console, two tabs are the fewest that share the client and the fewest
that can decide the same incident, and one expiry meets a call of each at every
place. One incident and one run are enough for a proposal to appear, be decided
and be concluded between any two readings. `HistoryLimit` is the code's 25 and
never cuts a listing that short.

For the validation, a third call can meet what a second, cut short, left on top
of what a first left; two faults cut both short. Of the staging texts one reads
the original shape, one the drifted, and one the drifted without what the mart
needs; the second mart text accepts that one. Two extracts are the fewest with
which the landing table is replaced between the two models of a build and again
before its verdict.

Constants that only bound the model: `MaxScheduled` (runs the schedule creates),
`MaxIncidents` (rows), `MaxFaults`, `SmokeRuns`, `MaxBatches`, `MaxCrashes`,
`MaxRuns`, `MaxExpiries`, `MaxOutages`, `MaxValidations` and `MaxExtracts`.
With `MaxIncidents` rows the agent stops looking for failures; `OutOfIncidents`
marks that end, so that TLC reports every other deadlock. Deadlock is checked in
all runs.

### Properties that are violated, and what that means

- **A page may approve what it never showed** (`stale_tab`). The decision is
  conditional on id and state. If `smoke-tests.sh` overwrites a proposed row
  between rendering and clicking, the click approves the new text
  (`agent/incidents.py:163` says the two cannot diverge). Without a second
  writer of proposals the property holds (`tabs`).
- **A fix may be blamed for a run that never read it** (`blame`). A verifying
  run that fails in its extract task, or is overdue in the queue, concludes the
  incident as `verification_failed`. ADR-0024 says an outcome is always a
  statement about the fix. For `resolved` that is so (`ResolvedRunReadTheFix`).
- **The retry bound is per pass** (`retries`). A pass that dies while proposing
  is resumed with a fresh count. `TriesPaidByFaults` is the bound that does
  hold: each further budget costs a fault.

### What else the code does and a reader might not expect

No run is dedicated to these; each shows when the formula named here is checked
in the run's configuration.

- **The upstream's writer may fail on the rename** (`upstream`, `failures = 0`).
  It looks up the identifier's name and uses it in the next statement, with no
  lock in between. `postgres/seed/db.py:4` says it migrates rather than failing.
  It fails at most that one batch (`OneBatchFails`), and the next one follows
  the new name (`BatchesKeepArriving`).
- **A page may stand still with nothing on it** (`console`: no tab that is shown
  without buttons has stopped refreshing). When another tab decides a proposal
  between the reading in `main` and the one in `render`, the page has been told
  not to refresh and has nothing to decide (`app.py:381-391`). It stays so until
  it is reloaded. `ProposalsComeUp` is therefore stated of pages that refresh.
- **Two sessions may each lose a call to one expiry** (`console`, without the
  `overlapped` in `LoneCallsOutliveAnExpiry`). One thread drops the token the
  other has just fetched (`pipeline.py:48-63`), the second rejection is final, and
  the page says that Airflow could not be reached. A thread that has the client
  to itself loses no call to one expiry.
- **A validation may fail a pipeline run** (`validation`, `BreakDeadlock`). The
  extract locks the landing table and then the views on it, the candidate's mart
  the view and then the table. PostgreSQL ends one transaction; when it is the
  extract's, the run fails (`elt_extract.py:98`). Nothing in the repository
  promises otherwise, and neither side waits for ever (`NeitherWaitsForEver`).

### Fairness

`FairSpec` assumes that the agent takes its next step if it has one
(`WF(AgentStep)`: `main.py` polls in a loop that catches everything, and
`docker-compose.yml` restarts the container unless stopped) and that a run that
does not finish becomes overdue (`WF(TimePasses(r))`: the clock of
`_seconds_since_queued`). It assumes nothing of the operator, of Airflow's
scheduler, of the drift trigger or of the runs. Two assumptions are built into
the model instead and are worth naming: faults are finite (`MaxFaults`), so a
model endpoint that refuses for ever is outside `OpenIncidentsMoveOn`; and every
run reports when it was queued, without which `verify_success` would wait
without a bound.

`FailuresAreNoticed` allows a newer run to hide a failure: the agent looks at the
latest run only.

`Upstream!FairSpec` assumes `WF(ArrivalsStep)`: the loop sleeps and goes on, and
compose starts the container again when it dies. Nothing is assumed of the
seeder, the triggers or the extract.

`ConsolePage!FairSpec` assumes `WF(ScriptStep(tab))` for each tab: Streamlit runs
a script to its end, and the fragment's timer starts the next `render`. It
assumes nothing of the operator, the agent or the pipeline.

`Validation!FairSpec` assumes `WF(ValidateStep)`, the agent's process and the 300
seconds of its `subprocess` timeout; `WF(RebuildLandingTable)`, an extract that
can take its lock does; and `WF(BreakDeadlock)`, PostgreSQL's detector. Nothing
is assumed of dbt, which may hang at any place, and an extract is not assumed to
give up by itself.

## 4. What is proved

Every safety property, action property and refinement that a passing run checks
is also a theorem, for all values of the constants under the named assumptions.
The argument is the same everywhere: an inductive invariant (`IInv`, `GateInv`),
found with TLC on the run's instance, and one lemma per action or per form of
step.

`IncidentStore_proofs` proves, for all values of the constants under
`StoreAssumption` (the known texts are among the texts writers try, and null is
not an assessment), that the specification of the record implies

- `TypeCorrect`: `[]TypeOK`,
- `NewestInFlight`: `[]OnlyTheNewestIsInFlight`,
- `RoadsFollowed`: `[]EndingsFollowTheirRoad`,
- `ConclusionsFinal`: the action property `ConcludedStaysConcluded`.

The inductive invariant is `IInv`: typing; only the newest row in flight; each
row's history is exactly the road to its present state; and a row carries a
conclusion time exactly when it is concluded. The road is needed because the
ending alone does not say what came before: "resolved implies once approved" is
preserved by an update only if the state before it already determined the whole
history. That only the newest row is in flight is needed for the insert: the
index only says that there is one, and without the order an insert could not be
shown to come after every concluded row.

`Upstream_proofs` proves, for any seed, batch size, number of batches and
crashes (`UpstreamAssumption`: the first two at least one) and any set of
triggers,

- `TypeCorrect`: `[]TypeOK`,
- `CountsAreLegitimate`: `[]SeedAndBatches`,
- `RenameWaitsForTheBatch`: `[]BatchMatchesTheTable`,
- `OneRename`: `[]OneTriggerRenames`,
- `FailsOnce`: `[]OneBatchFails`.

Its invariant adds to these that the seeder copies into an empty table only and
that arrivals never run on one (`SeededOnce`); that a batch under way holds the
table from its SELECT on and carries the identifier after the last
(`BatchInHand`), without which neither the count nor the wait of the rename
would survive a step; and that a trigger which has renamed left the new name
behind (`RenamedMeansDrifted`), from which a second rename is refused.

`FailsOnce` needs an invariant of its own, `NameInHand`: a batch that is about to
use a name the table no longer has read it before the rename, and nothing had
failed when it did. A batch fails on no other ground, every name read after the
rename is the new one, so there is no second. `LandsStaleOnce`
(`[]StaleNamesLandOnce`) is the same thought about the pipeline's extract, which
reads its source names before it reads the rows: `ExtractInHand` says that an
extract holding names the table has lost took them before the rename, when no
stale landing had happened.

`Validation_proofs` proves, for any texts, whatever they read and feed, and any
number of validations, extracts and faults (`ValidationAssumption`: the shipped
project is one of texts, and null is neither a text nor a verdict),

- `TypeCorrect`: `[]TypeOK`,
- `NothingLeft`: `[]LeavesNothingBehind`,
- `NothingCarried`: `[]NothingCarriesOver`,
- `OutputUntouched`: `[]OutputIsThePipelines`,
- `WholeProjectBuilt`: `[]BuiltMeansTheWholeProject`.

The invariant follows the copy and the schemas along `at`. `CopyInHand`: the copy
is the project's while it is made, the project's with the candidate when dbt is
on, and has the agent's macro before dbt parses it. `SchemasInHand`: there are no
schemas of the agent's from the first drop until dbt creates them, and then they
hold what was built from the copy. `LocksHeld`: a transaction of dbt's that read
the landing table or the view keeps the extract from taking it. `VerdictInHand`
needs the last two: a view that is there reads the landing table that is there,
since an extract that replaces the table takes the view with it, and neither can
happen between reading the view and building the mart. Without the cascade the
verdict could be about two shapes at once.

`SelfHealing_proofs` is about the whole loop, for any texts and whatever they
build on, any numbers of runs, incidents, tabs, attempts, faults and smoke tests
(`SelfHealingAssumption`: null is no value of a column, and the text the smoke
test writes is a text), and proves

- `TypeCorrect`: `[]TypeOK`,
- `ResolutionIsProved`: `[]ResolvedRunReadTheFix`,
- `ProofsAreApart`: `[]EachProofIsItsOwn`,
- `WatchedRunsAreKept`: the action property `WatchedRunIsKept`,
- `SpareRunsArePaidByFaults`: `[]SpareRunsAreBounded`.

None of these is inductive: at almost every node the agent acts on what it read
a while ago. `IInv` says, for each value of `pc`, what `pass` may still rely on.
`TableInOrder` has one incident in flight, and a row with a verifying run only
from the approval on, started after the run that failed. `FailureInHand` and
`ProposalInHand` follow the pass to its offer. `ApprovalInHand` is the heart: a
pass past `load_approved` holds the text of an incident that was approved, what
it has written stays written, and the run it has triggered can have read nothing
else and belongs to no other incident. `VerdictInHand` ties the run that is
watched to the record, and `WatchedRunsReadTheFix` says that while an incident
waits for its run nobody writes the file, whence a run that starts late reads
the same text. This last part needs that the agent is at no node that acts while
some approved incident has its run, hence that only one incident is in flight,
hence the index of the record. The smoke test is in all of it: it may approve,
but it may not un-approve.

The proof does not go through some thirty actions five times. `StepForms` shows
once which of the table, the runs, the file and the pass a step moves
(`TableStep`, `RunsStep`, `ProjectStep`, `PassStep`), with the moves of a row by
name (`Opens`, `Offers`, `Decides`, `Watches`, `Concludes`, `GivesUp`), and each
part of the invariant is preserved by each form. `SpareRunsArePaidByFaults` is a
count: the manual runs are no more than the decided incidents that no longer wait
for one (`Paid`, with the one a pass has just triggered it for) and the faults,
since between `trigger_rerun` and recording the run only a fault loses it.

`SelfHealingGate_proofs` assumes `SmokeRuns = 0`: the agent and the console are
the only writers of the record. This is no convenience. With the smoke test
beside them the properties are false, and `stale_tab` shows it for one of them:
the script overwrites a proposal between its display and the click, and offers
what nothing built. Under that assumption it proves

- `ShownDifferencesAreReal`: `[]ShownDifferenceIsReal`,
- `TornFilesAreRepaired`: `[]TornFileIsRepaired`,
- `OffersWereBuilt`: `[]OfferedFixesWereBuilt`,
- `ApprovalsWereShown`: `[]ApprovedIsWhatWasShown`,
- `ReviewsWereAssessed`: `[]ReviewsAreAssessed`,
- `TriesArePaidByFaults`: `[]TriesPaidByFaults`,
- `OnlyApprovalsAct`: the action property `NothingActsUnapproved`,
- `GateImplemented`: the refinement `ImplementsGate`.

`GateInv` adds what only a sole writer can rely on: the incident a pass proposes
for is open all along and the file is as the pass read it (`OpenInHand`); the one
it applies still waits for its run (`UnsetInHand`); a page whose incident awaits
its decision shows the row as it is (`PagesAreTrue`), which is what makes an
approval one of what was displayed although the click checks id and state only;
and the candidates tried for an incident are paid for by this pass and the faults
before it (`TriesInHand`). The refinement then goes move by move: opening is
`Notice`, the offer `Offer`, a decision `Grant` or `Close`, either half of the
write `Write`, the verdict `Close`, and recording the run a step the ledger does
not see. The guard of `Write` is `UnsetInHand`; the guard of `Close` for a granted
entry, that its fix is wholly on disk, is `WatchedRunsReadTheFix`.

`ConsolePage_proofs` is about any number of tabs on one client, incidents, runs,
expiries and outages (`PageAssumption`: each tab is a caller, and null is neither
a text nor a state), and proves

- `TypeCorrect`: `[]TypeOK`,
- `ThanksTrue`: `[]ThanksAreTrue`,
- `HoldStill`: `[]DecisionsHoldStill`,
- `DenialsForgetTheOldest` and `DenialsTrue`, about `DenialsAreTrue`,
- `LoneCallsSucceed`: the action property `LoneCallsOutliveAnExpiry`,
- `PagesImplemented`: the refinement `PagesFollowConsole`.

`DenialsAreTrue` is not true of every record. The page lists the latest 25
incidents, and "nothing has been recorded" is said of a run that is on none of
them. The first theorem holds of any record: a run is denied a row it had only
when 25 later rows have come. The second adds `MaxIncidents <= HistoryLimit` and
is the property. TLC finds the counterexample as soon as the listing is shorter
than the record.

The invariant relates what a script has read to what the record has become:
what a tab shows or has read is a row on record (`PagesOnRecord`); a page that
refreshes has read no proposal (`RefreshesShowNothing`), which joins the two
readings; and what was on record when a run was found failing stays so
(`FindingsOnRecord`), since rows are never taken away. `LoneCallsInHand` says
that a call no other crossed has the client to itself, so that its second
attempt goes out with the token it has fetched. For the refinement, `HeldPages`
is what a tab will show once the script has read the record for the second time;
that reading is `Console`'s rendering, a click its decision, and everything else
a stutter.

What stays with TLC alone: the liveness properties `ApprovalsConclude`,
`OpenIncidentsMoveOn`, `FailuresAreNoticed`, `BatchesKeepArriving`,
`ProposalsComeUp` and `NeitherWaitsForEver`, because they rest on fairness and so
on ENABLED, which the prover cannot reason about; and the three runs that expect
a violation, which are counterexamples.

## 5. What is not modelled

Display (`difference.py`, `theme.py`, the layout of the panels) is modelled only
where it can raise: a health without a colour. Tracing, settings, deployment and
the readiness check change no state the programs decide on. The bootstrap runs
before anything else. Prompts and the schemas of model answers are data: a model
call returns any text, or raises. `resolve_target`'s comparison of paths is left
out because the model knows one transformation. How long a notice stays on a page
is left out; that it is true is `ThanksAreTrue`.

Smaller steps that are left out, each at a place no property
depends on: the latest run is the newest created, where Airflow orders by
`run_after`; Airflow answers a request in one step with the header it was sent
with; a second click while the page runs again, and an exception of the store
inside a rendering, are not among the console's steps; and PostgreSQL frees what
a dead client held at once, where it may finish a statement first.

`Validation` and `ConsolePage` are composed on their own and not with
`SelfHealing`: together they are beyond TLC. What they share with it is stated as
a refinement (`PagesFollowConsole`) or as the property that justifies the
coarser step (`BuiltMeansTheWholeProject`).

## 6. Plan

Done, in this order: the record, its proofs, the statements, the pipeline, the
agent, the console, the smoke test, their composition, the abstract gate, the
upstream and its proofs, the Airflow client, the console's page, the
validation and its proofs; then the proofs about the whole loop, about the gate
and its refinement, and about the page.

Next, most important first:

1. What the gate promises by itself, as theorems about `ApprovalGate`, from which
   `GateImplemented` carries them to the system.
2. That the programs' statements keep to `IncidentStore`: the composed record
   follows the lifecycle and its conclusions are final.
3. The safety half of the liveness argument: at each node of a pass the next step
   exists or the pass waits for a run or the operator.

## 7. Running

    tlc -workers 2 -config MCLoop.cfg MCSelfHealing.tla
    tlc -workers 2 -config MCIncidentStore.cfg MCIncidentStore.tla
    tlc -workers 2 -config MCUpstream.cfg Upstream.tla
    tlc -workers 2 -config MCConsole.cfg ConsolePage.tla
    tlc -workers 2 -config MCValidation.cfg MCValidation.tla
    tlapm IncidentStore_proofs.tla
    tlapm Upstream_proofs.tla
    tlapm Validation_proofs.tla
    tlapm SelfHealing_proofs.tla
    tlapm SelfHealingGate_proofs.tla
    tlapm ConsolePage_proofs.tla

Definitions whose name ends in `_` and a few words (`RecordDecision_Newest`) are
mutated forms of the definition that follows them. Putting one in the place of
its original breaks the property PROJECT.json names beside it.
