------------------------------- MODULE Upstream -------------------------------
(***************************************************************************)
(* The simulated upstream: public.customers of source_db under its three   *)
(* writers (postgres/seed/generate_customers.py, source_activity.py,       *)
(* scripts/drift.py) and its one reader (airflow/dags/elt_extract.py).     *)
(*                                                                         *)
(* A transaction that has read or written the table holds a lock on it     *)
(* until it ends, and the rename waits for it; a transaction that has only *)
(* read the catalogue holds none.  That is PostgreSQL's, and it is what    *)
(* separates the writers where nothing in their code does.                 *)
(***************************************************************************)
EXTENDS Naturals, FiniteSetsExt, SqlNull

CONSTANTS
    SeedRows,   \* SEED_ROW_COUNT
    BatchSize,  \* ARRIVAL_BATCH_SIZE
    Triggers,   \* runs of the drift trigger
    MaxBatches, \* bound on the batches that arrive
    MaxCrashes  \* bound on the deaths of the arrivals process

ASSUME UpstreamAssumption ==
    /\ SeedRows \in Nat \ {0} /\ BatchSize \in Nat \ {0}
    /\ MaxBatches \in Nat /\ MaxCrashes \in Nat

VARIABLES
    column,    \* the name of the table's identifier
    rows,      \* the identifiers of the committed rows
    holders,   \* the writers whose transaction holds a lock on the table
    seeder,    \* where the seeder is
    arrivals,  \* where append_batch is, the column it read, its first_id
    trigger,   \* where each drift trigger is
    extract,   \* where the extract task is, and the column it read
    landing,   \* raw.customers: its column, its rows
    crashes,   \* deaths of the arrivals process so far
    failures,  \* history: batches that raised, two standing for more
    stale      \* history: extracts that landed rows under a past name

arrivalsVars == <<arrivals, crashes, failures>>
extractVars == <<extract, landing, stale>>
vars == <<column, rows, holders, seeder, arrivalsVars, trigger, extractVars>>

Names == {"customer_id", "cust_id"}

Init ==
    /\ column = "customer_id" /\ rows = {} /\ holders = {}
    /\ seeder = "count"
    /\ arrivals = [at |-> "stopped", name |-> NULL, first |-> 0]
    /\ trigger = [t \in Triggers |-> "look_for_drifted"]
    /\ extract = [at |-> "idle", name |-> NULL]
    /\ landing = [name |-> NULL, rows |-> {}]
    /\ crashes = 0 /\ failures = 0 /\ stale = 0
-----------------------------------------------------------------------------
(* The seeder, run by every docker compose up *)

\* The count opens the transaction that will copy.
CountRows ==
    /\ seeder = "count"
    /\ IF rows = {} THEN seeder' = "copy" /\ holders' = holders \cup {"seeder"}
                    ELSE seeder' = "done" /\ UNCHANGED holders
    /\ UNCHANGED rows

Seed ==
    /\ seeder = "copy"
    /\ rows' = rows \cup 1..SeedRows
    /\ holders' = holders \ {"seeder"}
    /\ seeder' = "check"

\* A second count, of what the copy has committed.
CheckSeed ==
    /\ seeder = "check"
    /\ seeder' = IF rows = 1..SeedRows THEN "done" ELSE "dead"
    /\ UNCHANGED <<rows, holders>>

\* The container ends without success, and its transaction with it.
SeederDies ==
    /\ seeder \in {"count", "copy", "check"}
    /\ seeder' = "dead"
    /\ holders' = holders \ {"seeder"}
    /\ UNCHANGED rows

\* Another docker compose up, beside whatever is running.
SeedAgain ==
    /\ seeder \in {"done", "dead"}
    /\ seeder' = "count"
    /\ UNCHANGED <<rows, holders>>
-----------------------------------------------------------------------------
(* Arrivals: one append_batch after another *)

\* MaxBatches stops the arrivals.
MoreToCome == SeedRows + MaxBatches * BatchSize \notin rows

\* A new connection knows nothing of the last.
Sleep == arrivals' = [at |-> "sleep", name |-> NULL, first |-> 0]

\* Started when the seeder has completed, and again whenever it has died.
StartArrivals ==
    /\ arrivals.at = "stopped" /\ seeder = "done"
    /\ Sleep
    /\ UNCHANGED <<rows, holders, crashes, failures>>

\* Mutated: the name is the one the table was declared with.
IdentifierColumn_Declared == "customer_id"

\* identifier_column, looked up in the catalogue.
IdentifierColumn == column

ReadIdentifier ==
    /\ arrivals.at = "sleep" /\ MoreToCome
    /\ arrivals' = [arrivals EXCEPT !.at = "max", !.name = IdentifierColumn]
    /\ UNCHANGED <<rows, holders, crashes, failures>>

\* A statement that names a column the table no longer has raises; nothing
\* catches it, and the container is started again.
BatchFails ==
    /\ Sleep
    /\ holders' = holders \ {"arrivals"}
    /\ failures' = IF failures = 0 THEN 1 ELSE 2

\* Mutated: the connection commits every statement by itself.
LockFrom_Autocommit == holders

\* The transaction that selects from the table keeps its lock.
LockFrom == holders \cup {"arrivals"}

\* max_identifier's second query, by the name its first one found.
SelectMax ==
    /\ arrivals.at = "max"
    /\ \/ /\ arrivals.name = column
          /\ arrivals' = [arrivals EXCEPT !.at = "columns", !.first = Max(rows \cup {0}) + 1]
          /\ holders' = LockFrom
          /\ UNCHANGED failures
       \/ arrivals.name # column /\ BatchFails
    /\ UNCHANGED <<rows, crashes>>

ReadColumns ==
    /\ arrivals.at = "columns"
    /\ arrivals' = [arrivals EXCEPT !.at = "copy", !.name = column]
    /\ UNCHANGED <<rows, holders, crashes, failures>>

\* Mutated: last_id is first_id + batch_size.
Batch_OneTooMany == arrivals.first .. (arrivals.first + BatchSize)

Batch == arrivals.first .. (arrivals.first + BatchSize - 1)

\* copy_rows: the COPY, refused by the primary key if a record is there, and the
\* commit.
CopyBatch ==
    /\ arrivals.at = "copy"
    /\ \/ /\ arrivals.name = column /\ Batch \cap rows = {}
          /\ rows' = rows \cup Batch
          /\ holders' = holders \ {"arrivals"}
          /\ Sleep
          /\ UNCHANGED failures
       \/ /\ arrivals.name # column \/ Batch \cap rows # {}
          /\ BatchFails
          /\ UNCHANGED rows
    /\ UNCHANGED crashes

ArrivalsDie ==
    /\ arrivals.at \in {"max", "columns", "copy"}
    /\ crashes < MaxCrashes
    /\ crashes' = crashes + 1
    /\ Sleep
    /\ holders' = holders \ {"arrivals"}
    /\ UNCHANGED <<rows, failures>>
-----------------------------------------------------------------------------
(* The drift trigger *)

LookForDrifted(t) ==
    /\ trigger[t] = "look_for_drifted"
    /\ trigger' = [trigger EXCEPT ![t] =
                     IF column = "cust_id" THEN "nothing_to_do"
                                           ELSE "look_for_original"]
    /\ UNCHANGED column

LookForOriginal(t) ==
    /\ trigger[t] = "look_for_original"
    /\ trigger' = [trigger EXCEPT ![t] =
                     IF column = "customer_id" THEN "rename" ELSE "raised"]
    /\ UNCHANGED column

\* Mutated: the statement does not name the column it renames.
Renames_Anything == TRUE

\* ALTER TABLE ... RENAME COLUMN raises if the column is not there.
Renames == column = "customer_id"

\* The rename waits until nobody holds the table.
Rename(t) ==
    /\ trigger[t] = "rename" /\ holders = {}
    /\ \/ /\ Renames
          /\ column' = "cust_id"
          /\ trigger' = [trigger EXCEPT ![t] = "report"]
       \/ /\ ~Renames
          /\ trigger' = [trigger EXCEPT ![t] = "raised"]
          /\ UNCHANGED column

Report(t) ==
    /\ trigger[t] = "report"
    /\ trigger' = [trigger EXCEPT ![t] =
                     IF column = "cust_id" THEN "applied" ELSE "raised"]
    /\ UNCHANGED column
-----------------------------------------------------------------------------
(* The extract task; max_active_runs=1 makes it one at a time *)

\* Mutated: the shape is asked for only when there is no landing table.
SourceColumns_Once == IF landing.name = NULL THEN column ELSE landing.name

SourceColumns == column

ReadSourceColumns ==
    /\ extract.at = "idle"
    /\ extract' = [at |-> "rebuild", name |-> SourceColumns]
    /\ UNCHANGED <<landing, stale>>

\* rebuild_landing_table commits on its own.
RebuildLanding ==
    /\ extract.at = "rebuild"
    /\ landing' = [name |-> extract.name, rows |-> {}]
    /\ extract' = [extract EXCEPT !.at = "land"]
    /\ UNCHANGED stale

\* COPY names no column on either side, so rows land by position under
\* whatever name was read.
LandCopy ==
    /\ extract.at = "land"
    /\ landing' = [landing EXCEPT !.rows = rows]
    /\ stale' = IF extract.name = column THEN stale ELSE stale + 1
    /\ extract' = [at |-> "idle", name |-> NULL]

ExtractFails ==
    /\ extract.at # "idle"
    /\ extract' = [at |-> "idle", name |-> NULL]
    /\ UNCHANGED <<landing, stale>>
-----------------------------------------------------------------------------
SeederStep ==
    /\ CountRows \/ Seed \/ CheckSeed \/ SeederDies \/ SeedAgain
    /\ UNCHANGED <<column, arrivalsVars, trigger, extractVars>>

ArrivalsStep ==
    /\ StartArrivals \/ ReadIdentifier \/ SelectMax \/ ReadColumns \/ CopyBatch
    /\ UNCHANGED <<column, seeder, trigger, extractVars>>

ArrivalsFault == ArrivalsDie /\ UNCHANGED <<column, seeder, trigger, extractVars>>

TriggerStep(t) ==
    /\ LookForDrifted(t) \/ LookForOriginal(t) \/ Rename(t) \/ Report(t)
    /\ UNCHANGED <<rows, holders, seeder, arrivalsVars, extractVars>>

ExtractStep ==
    /\ ReadSourceColumns \/ RebuildLanding \/ LandCopy \/ ExtractFails
    /\ UNCHANGED <<column, rows, holders, seeder, arrivalsVars, trigger>>

Next ==
    \/ SeederStep
    \/ ArrivalsStep \/ ArrivalsFault
    \/ \E t \in Triggers : TriggerStep(t)
    \/ ExtractStep

Spec == Init /\ [][Next]_vars

\* The arrivals loop sleeps and goes on; compose starts it again when it dies.
FairSpec == Spec /\ WF_vars(ArrivalsStep)
-----------------------------------------------------------------------------
\* Every variable holds a value of its kind.
TypeOK ==
    /\ column \in Names
    /\ rows \in SUBSET Nat
    /\ holders \in SUBSET {"seeder", "arrivals"}
    /\ seeder \in {"count", "copy", "check", "done", "dead"}
    /\ arrivals \in [at : {"stopped", "sleep"}, name : {NULL}, first : {0}]
                   \cup [at : {"max", "columns", "copy"}, name : Names, first : Nat]
    /\ trigger \in [Triggers -> {"look_for_drifted", "look_for_original",
                                 "rename", "report", "applied",
                                 "nothing_to_do", "raised"}]
    /\ extract \in [at : {"idle"}, name : {NULL}]
                  \cup [at : {"rebuild", "land"}, name : Names]
    /\ landing \in [name : Names \cup {NULL}, rows : SUBSET Nat]
    /\ crashes \in 0..MaxCrashes /\ failures \in 0..2 /\ stale \in Nat

\* "A legitimate count is the seeded figure plus a whole number of batches"
\* (ADR-0012, asserted by verify-stack.sh): whatever dies, is started again or
\* is renamed, the table holds the first so many identifiers and no other.
SeedAndBatches ==
    \/ rows = {}
    \/ \E k \in 0..MaxBatches : rows = 1..(SeedRows + k * BatchSize)

\* A batch and the rename never meet between reading the columns and the COPY
\* that lists them, because the batch's transaction already holds the table.
BatchMatchesTheTable == arrivals.at = "copy" => arrivals.name = column

\* Of any number of drift triggers one renames and reports; the others find
\* nothing to do or raise.
OneTriggerRenames ==
    \A t, u \in Triggers :
       trigger[t] \in {"report", "applied"} /\ trigger[u] \in {"report", "applied"}
          => t = u

\* A rename between the extract's two looks at the source lands rows under
\* the old name.  That happens to the run that is on its way and no other: the
\* next one fails in the transformation, as the demo needs it to.
StaleNamesLandOnce == stale <= 1

\* A rename between a batch's look at the catalogue and its SELECT makes the
\* batch raise, although db.py promises a writer that "migrates with it rather
\* than failing".  That batch is the only one: whatever dies and is started
\* again, the next ones know the new name.
OneBatchFails == failures <= 1

\* Records keep arriving, rename or not (ADR-0013).
BatchesKeepArriving ==
    \A k \in 0..(MaxBatches - 1) :
       arrivals.at # "stopped" /\ rows = 1..(SeedRows + k * BatchSize)
          ~> SeedRows + (k + 1) * BatchSize \in rows
=============================================================================
