------------------------------ MODULE Validation ------------------------------
(***************************************************************************)
(* Proving a candidate builds (agent/validation.py): Validator.validate,   *)
(* step by step, next to the extract of the pipeline, which replaces the   *)
(* landing table under it and takes every view on it away (CASCADE).       *)
(*                                                                         *)
(* dbt and PostgreSQL are external.  dbt reads the project, creates the    *)
(* schemas its macro names, and builds stg_customers (a view on the        *)
(* landing table) and then dim_customers (a table, read through the view), *)
(* a transaction each; it may hang anywhere.  PostgreSQL's locks are what  *)
(* dbt.at and extract.at say they are; they are gone when a client dies.   *)
(***************************************************************************)
EXTENDS Naturals, SqlNull

CONSTANTS
    StagingTexts,    \* texts stg_customers may have
    MartTexts,       \* texts dim_customers may have
    Fits,            \* for each staging text, the landing shapes it reads
    Feeds,           \* for each mart text, the staging texts it can read
    Shipped,         \* the project the repository ships
    MaxValidations,  \* bound on calls of validate
    MaxExtracts,     \* bound on extracts
    MaxFaults        \* bound on exceptions and deaths of the agent

Models == {"staging", "marts"}
Shapes == {"original", "drifted"}
Project == [staging : StagingTexts, marts : MartTexts]

ASSUME ValidationAssumption ==
    /\ Fits \in [StagingTexts -> SUBSET Shapes]
    /\ Feeds \in [MartTexts -> SUBSET StagingTexts]
    /\ Shipped \in Project
    /\ NULL \notin StagingTexts \cup MartTexts \cup {"built", "refused"}
    /\ MaxValidations \in Nat /\ MaxExtracts \in Nat /\ MaxFaults \in Nat

VARIABLES
    at,           \* where validate is
    candidate,    \* relative_path and candidate_sql
    verdict,      \* what validate returned or is about to, "raised" if it raises
    scratch,      \* the copy: its models and its macro, NULL for a missing file
    dbt,          \* the build: where it is, what it parsed, what it built on
    relations,    \* the schemas of the pipeline and of the agent, what they hold
    project,      \* the transformation project
    landing,      \* shape of raw.customers
    extract,      \* where the extract is
    validations, extracts, faults

bounds == <<validations, extracts, faults>>
pipelineVars == <<project, landing, extract>>
vars == <<at, candidate, verdict, scratch, dbt, relations, pipelineVars, bounds>>

NoCopy == [staging |-> NULL, marts |-> NULL, macro |-> NULL]
NoBuild == [at |-> "off", copy |-> NoCopy, landing |-> NULL]

\* A schema that is not there holds NULL, and one with nothing in it Empty.
Empty == [text |-> NULL, by |-> NULL]
Relation(text, by) == [text |-> text, by |-> by]
NoSchemas == [m \in Models |-> NULL]

Builds(texts, shape) ==
    shape \in Fits[texts.staging] /\ texts.staging \in Feeds[texts.marts]

BuiltFrom(texts, by) == [m \in Models |-> Relation(texts[m], by)]

Init ==
    /\ at = "idle" /\ candidate = NULL /\ verdict = NULL
    /\ scratch = NoCopy
    /\ dbt = NoBuild
    /\ project = Shipped /\ landing = "original" /\ extract = "idle"
    /\ relations = [pipeline |-> BuiltFrom(Shipped, "pipeline"), agent |-> NoSchemas]
    /\ validations = 0 /\ extracts = 0 /\ faults = 0

Candidates ==
    [model : {"staging"}, text : StagingTexts] \cup [model : {"marts"}, text : MartTexts]

-----------------------------------------------------------------------------
(* validate *)

\* Mutated: what a crash left in the schemas stays there.
Validate_DropsOnlyAfter(c) ==
    /\ at = "idle" /\ validations < MaxValidations
    /\ at' = "remove_copy" /\ candidate' = c /\ verdict' = NULL
    /\ dbt' = NoBuild
    /\ validations' = validations + 1
    /\ UNCHANGED <<scratch, relations, pipelineVars, extracts, faults>>

Validate(c) ==
    /\ at = "idle" /\ validations < MaxValidations
    /\ at' = "drop_before" /\ candidate' = c /\ verdict' = NULL
    /\ dbt' = NoBuild
    /\ validations' = validations + 1
    /\ UNCHANGED <<scratch, relations, pipelineVars, extracts, faults>>

\* Every schema with the prefix is dropped, one statement each; a statement
\* waits while the extract is taking the view in that schema away.
DropSchemas ==
    /\ at \in {"drop_before", "drop_after"}
    /\ IF relations.agent = NoSchemas
         THEN /\ at' = IF at = "drop_before" THEN "remove_copy" ELSE "idle"
              /\ UNCHANGED relations
         ELSE /\ \E m \in Models :
                    /\ relations.agent[m] # NULL
                    /\ m = "staging" => extract # "dropped"
                    /\ relations' = [relations EXCEPT !.agent[m] = NULL]
              /\ UNCHANGED at
    /\ UNCHANGED <<candidate, verdict, scratch, dbt, pipelineVars, bounds>>

\* Mutated: a copy that is there is used again.
RemoveCopy_KeepsIt ==
    /\ at = "remove_copy"
    /\ at' = IF scratch = NoCopy THEN "copy" ELSE "write_candidate"
    /\ UNCHANGED <<candidate, verdict, scratch, dbt, relations, pipelineVars, bounds>>

\* shutil.rmtree, if there is anything to remove.
RemoveCopy ==
    /\ at = "remove_copy"
    /\ scratch' = NoCopy
    /\ at' = "copy"
    /\ UNCHANGED <<candidate, verdict, dbt, relations, pipelineVars, bounds>>

\* shutil.copytree, file by file; the macro that is copied is the project's.
CopyFile ==
    /\ at = "copy"
    /\ \/ /\ \E file \in {f \in DOMAIN scratch : scratch[f] = NULL} :
                scratch' = [scratch EXCEPT
                   ![file] = IF file = "macro" THEN "pipeline" ELSE project[file]]
          /\ UNCHANGED at
       \/ /\ \A file \in DOMAIN scratch : scratch[file] # NULL
          /\ at' = "write_macro"
          /\ UNCHANGED scratch
    /\ UNCHANGED <<candidate, verdict, dbt, relations, pipelineVars, bounds>>

\* The agent's macro puts its prefix in front of every schema.
WriteMacro ==
    /\ at = "write_macro"
    /\ scratch' = [scratch EXCEPT !.macro = "agent"]
    /\ at' = "write_candidate"
    /\ UNCHANGED <<candidate, verdict, dbt, relations, pipelineVars, bounds>>

\* Mutated: the candidate goes to the staging model, whatever its path says.
WriteCandidate_ToStaging ==
    /\ at = "write_candidate"
    /\ scratch' = [scratch EXCEPT !.staging = candidate.text]
    /\ dbt' = [dbt EXCEPT !.at = "parse"]
    /\ at' = "build"
    /\ UNCHANGED <<candidate, verdict, relations, pipelineVars, bounds>>

\* The path is resolved inside the copy.
WriteCandidate ==
    /\ at = "write_candidate"
    /\ scratch' = [scratch EXCEPT ![candidate.model] = candidate.text]
    /\ dbt' = [dbt EXCEPT !.at = "parse"]
    /\ at' = "build"
    /\ UNCHANGED <<candidate, verdict, relations, pipelineVars, bounds>>

BuildEnds(answer) ==
    at' = "drop_after" /\ verdict' = answer /\ dbt' = [dbt EXCEPT !.at = "off"]

\* The exit code.
BuildReturns ==
    /\ at = "build"
    /\ \/ dbt.at = "succeeded" /\ BuildEnds("built")
       \/ dbt.at = "failed" /\ BuildEnds("refused")
    /\ UNCHANGED <<candidate, scratch, relations, pipelineVars, bounds>>

\* Mutated: dbt is waited for as long as it takes.
Timeout_Never ==
    /\ FALSE
    /\ UNCHANGED vars

\* Mutated: the handler returns, and only a build that ended is cleaned up.
Timeout_ReturnsAtOnce ==
    /\ at = "build"
    /\ at' = "idle" /\ verdict' = "refused" /\ dbt' = [dbt EXCEPT !.at = "off"]
    /\ UNCHANGED <<candidate, scratch, relations, pipelineVars, bounds>>

\* 300 seconds: dbt is killed, and PostgreSQL rolls its transaction back.
Timeout ==
    /\ at = "build"
    /\ BuildEnds("refused")
    /\ UNCHANGED <<candidate, scratch, relations, pipelineVars, bounds>>

\* An exception goes through finally when the build is on, else straight out.
Raise ==
    /\ at # "idle" /\ faults < MaxFaults
    /\ faults' = faults + 1
    /\ IF at = "build" THEN BuildEnds("raised")
                       ELSE at' = "idle" /\ verdict' = "raised" /\ UNCHANGED dbt
    /\ UNCHANGED <<candidate, scratch, relations, pipelineVars, validations, extracts>>

\* The container is stopped, and dbt with it; scratch space is all that is left.
Crash ==
    /\ at # "idle" /\ faults < MaxFaults
    /\ faults' = faults + 1
    /\ at' = "idle" /\ verdict' = NULL /\ dbt' = [dbt EXCEPT !.at = "off"]
    /\ UNCHANGED <<candidate, scratch, relations, pipelineVars, validations, extracts>>

\* sandbox.write_model, once the operator has approved: between validations.
ApplyFix ==
    /\ at = "idle" /\ verdict = "built"
    /\ project' = [project EXCEPT ![candidate.model] = candidate.text]
    /\ verdict' = NULL
    /\ UNCHANGED <<at, candidate, scratch, dbt, relations, landing, extract, bounds>>

ValidateStep ==
    \/ DropSchemas \/ RemoveCopy \/ CopyFile \/ WriteMacro \/ WriteCandidate
    \/ BuildReturns \/ Timeout

-----------------------------------------------------------------------------
(* dbt run, with the dbt the pipeline has *)

HoldsLanding == dbt.at \in {"staging_built", "mart_built"}
HoldsView == dbt.at \in {"view_read", "mart_built"}

Side == dbt.copy.macro

DbtAt(place) == dbt' = [dbt EXCEPT !.at = place]

Parse ==
    /\ dbt.at = "parse"
    /\ dbt' = [dbt EXCEPT
         !.copy = scratch,
         !.at = IF \E file \in DOMAIN scratch : scratch[file] = NULL
                  THEN "failed" ELSE "schemas"]
    /\ UNCHANGED relations

CreateSchemas ==
    /\ dbt.at = "schemas"
    /\ relations' = [relations EXCEPT ![Side] =
         [m \in Models |-> IF @[m] = NULL THEN Empty ELSE @[m]]]
    /\ DbtAt("staging")

\* The view takes its columns from the landing table, and holds it.
CreateView ==
    /\ dbt.at = "staging"
    /\ extract \notin {"holds_landing", "dropped"}
    /\ dbt' = [dbt EXCEPT
         !.at = IF landing \in Fits[dbt.copy.staging] THEN "staging_built" ELSE "failed",
         !.landing = landing]
    /\ UNCHANGED relations

\* Mutated: the candidate is all that is built (dbt run --select).
AfterStaging_StopsAtTheCandidate ==
    IF candidate.model = "staging" THEN "succeeded" ELSE "mart"

\* Nothing is selected, so everything is built.
AfterStaging == "mart"

CommitView ==
    /\ dbt.at = "staging_built"
    /\ relations' = [relations EXCEPT ![Side]["staging"] =
                        Relation(dbt.copy.staging, "agent")]
    /\ DbtAt(AfterStaging)

\* The mart is read through the view, which an extract may have taken away.
ReadView ==
    /\ dbt.at = "mart"
    /\ extract # "dropped"
    /\ DbtAt(IF relations[Side]["staging"] \in {NULL, Empty}
                \/ relations[Side]["staging"].text \notin Feeds[dbt.copy.marts]
               THEN "failed" ELSE "view_read")
    /\ UNCHANGED relations

ReadLanding ==
    /\ dbt.at = "view_read"
    /\ extract \notin {"holds_landing", "dropped"}
    /\ dbt' = [dbt EXCEPT !.at = "mart_built", !.landing = landing]
    /\ UNCHANGED relations

CommitMart ==
    /\ dbt.at = "mart_built"
    /\ relations' = [relations EXCEPT ![Side]["marts"] =
                        Relation(dbt.copy.marts, "agent")]
    /\ DbtAt("succeeded")

DbtStep ==
    /\ Parse \/ CreateSchemas \/ CreateView \/ CommitView \/ ReadView
         \/ ReadLanding \/ CommitMart
    /\ UNCHANGED <<at, candidate, verdict, scratch, pipelineVars, bounds>>

-----------------------------------------------------------------------------
(* The pipeline meanwhile *)

\* rebuild_landing_table is one transaction.  The drop waits for whoever reads
\* the table, and CASCADE then waits for whoever reads a view on it.
BeginExtract ==
    /\ extract = "idle" /\ extracts < MaxExtracts
    /\ extract' = "asks" /\ extracts' = extracts + 1
    /\ UNCHANGED <<relations, landing>>

LockLanding ==
    /\ extract = "asks" /\ ~HoldsLanding
    /\ extract' = "holds_landing"
    /\ UNCHANGED <<relations, landing, extracts>>

DropCascade ==
    /\ extract = "holds_landing" /\ ~HoldsView
    /\ extract' = "dropped"
    /\ UNCHANGED <<relations, landing, extracts>>

WithoutViews(schemas) ==
    [schemas EXCEPT !["staging"] = IF @ = NULL THEN NULL ELSE Empty]

\* A rename at the source shows in the columns read for the new table.
CommitExtract ==
    /\ extract = "dropped"
    /\ landing' \in {landing, "drifted"}
    /\ relations' = [side \in DOMAIN relations |-> WithoutViews(relations[side])]
    /\ extract' = "idle"
    /\ UNCHANGED extracts

ExtractFails ==
    /\ extract # "idle"
    /\ extract' = "idle"
    /\ UNCHANGED <<relations, landing, extracts>>

RebuildLandingTable ==
    /\ LockLanding \/ DropCascade \/ CommitExtract
    /\ UNCHANGED <<at, candidate, verdict, scratch, dbt, project, validations, faults>>

ExtractStep ==
    \/ RebuildLandingTable
    \/ /\ BeginExtract \/ ExtractFails
       /\ UNCHANGED <<at, candidate, verdict, scratch, dbt, project, validations, faults>>

\* The pipeline's own dbt run comes after its extract, and replaces its output
\* as far as the project builds.
Transform ==
    /\ extract = "idle"
    /\ relations' = [relations EXCEPT !.pipeline =
         [m \in Models |->
            IF \/ Builds(project, landing)
               \/ m = "staging" /\ landing \in Fits[project.staging]
              THEN Relation(project[m], "pipeline") ELSE @[m]]]
    /\ UNCHANGED <<at, candidate, verdict, scratch, dbt, pipelineVars, bounds>>

\* dbt waits for the landing table with the view in hand, the extract the other
\* way round: PostgreSQL ends one of the two transactions.
BreakDeadlock ==
    /\ dbt.at = "view_read" /\ extract = "holds_landing"
    /\ \/ DbtAt("failed") /\ UNCHANGED extract
       \/ extract' = "idle" /\ UNCHANGED dbt
    /\ UNCHANGED <<at, candidate, verdict, scratch, relations, project, landing, bounds>>

-----------------------------------------------------------------------------
Next ==
    \/ \E c \in Candidates : Validate(c)
    \/ ValidateStep \/ Raise \/ Crash \/ ApplyFix
    \/ DbtStep
    \/ ExtractStep \/ Transform \/ BreakDeadlock

Spec == Init /\ [][Next]_vars

\* The agent's process runs, and its clock; an extract that can go on does.
\* Nothing is assumed of dbt: it may hang.
FairSpec ==
    /\ Spec
    /\ WF_vars(ValidateStep)
    /\ WF_vars(RebuildLandingTable)
    /\ WF_vars(BreakDeadlock)
-----------------------------------------------------------------------------
Relations ==
    [text : StagingTexts \cup MartTexts \cup {NULL}, by : {"pipeline", "agent", NULL}]

Copies ==
    [staging : StagingTexts \cup {NULL}, marts : MartTexts \cup {NULL},
     macro : {"pipeline", "agent", NULL}]

\* Every file, schema, build and table holds a value of its kind.
TypeOK ==
    /\ at \in {"idle", "drop_before", "remove_copy", "copy", "write_macro",
               "write_candidate", "build", "drop_after"}
    /\ candidate \in Candidates \cup {NULL}
    /\ verdict \in {NULL, "built", "refused", "raised"}
    /\ scratch \in Copies /\ project \in Project
    /\ dbt \in [at : {"off", "parse", "schemas", "staging", "staging_built",
                      "mart", "view_read", "mart_built", "succeeded", "failed"},
                copy : Copies, landing : Shapes \cup {NULL}]
    /\ relations \in [{"pipeline", "agent"} -> [Models -> Relations \cup {NULL}]]
    /\ landing \in Shapes
    /\ extract \in {"idle", "asks", "holds_landing", "dropped"}

\* "Builds candidates on a copy, and leaves nothing behind": a validation that
\* returned a verdict, a timeout's included, left none of its schemas.
LeavesNothingBehind ==
    at = "idle" /\ verdict \in {"built", "refused"} => relations.agent = NoSchemas

\* "So nothing carries over": while a candidate is built, what dbt parsed is the
\* project with the candidate in place of one model, and what the agent's
\* schemas hold was built from it, whatever crashes and fixes came before.
NothingCarriesOver ==
    at = "build" /\ dbt.at \notin {"off", "parse"} =>
       /\ [m \in Models |-> dbt.copy[m]]
             = [project EXCEPT ![candidate.model] = candidate.text]
       /\ \A m \in Models :
             relations.agent[m] \in
                {NULL, Empty, Relation(dbt.copy[m], "agent")}

\* ADR-0022: the pipeline's output is untouched by validation, wherever an
\* earlier one was cut short.
OutputIsThePipelines ==
    \A m \in Models : relations.pipeline[m].by \in {"pipeline", NULL}

\* "A correction that builds alone and breaks what depends on it is exactly the
\* case worth catching": built is said of a candidate with which the whole
\* project builds on one shape of the landing table, the shape it had when the
\* build ended, although an extract may replace it between the two models.
BuiltMeansTheWholeProject ==
    verdict = "built" =>
       Builds([project EXCEPT ![candidate.model] = candidate.text], dbt.landing)

\* A validation ends, also when dbt hangs, and neither a build that hangs nor
\* the crossing of their locks holds up the pipeline's extract for ever.
NeitherWaitsForEver ==
    /\ at # "idle" ~> at = "idle"
    /\ extract # "idle" ~> extract = "idle"
=============================================================================
