-------------------------- MODULE Validation_proofs --------------------------
(***************************************************************************)
(* What a verdict of Validation is about, and what a validation leaves, for *)
(* any texts and any number of validations, extracts and faults.            *)
(***************************************************************************)
EXTENDS Validation, TLAPS

WithCandidate == [project EXCEPT ![candidate.model] = candidate.text]

\* dbt runs while validate waits for it and at no other time.
BuildIsOn ==
    /\ dbt.at # "off" <=> at = "build"
    /\ at # "idle" \/ verdict = "built" => candidate \in Candidates

\* The copy is the project's, and then the project's with the candidate, and it
\* is what dbt parses.
CopyInHand ==
    /\ at = "copy" => \A m \in Models : scratch[m] \in {NULL, project[m]}
    /\ at \in {"write_macro", "write_candidate"} =>
         \A m \in Models : scratch[m] = project[m]
    /\ at = "build" => \A m \in Models : scratch[m] = WithCandidate[m]
    /\ at \in {"write_candidate", "build"} => scratch.macro = "agent"
    /\ dbt.at \notin {"off", "parse"} => dbt.copy = scratch

\* From the first drop until dbt creates them, and after a verdict, there are
\* none of the agent's schemas.
Dropped ==
    \/ at \in {"remove_copy", "copy", "write_macro", "write_candidate"}
    \/ dbt.at = "parse"
    \/ at = "idle" /\ verdict \in {"built", "refused"}

\* The agent's schemas hold nothing but what dbt builds.
SchemasInHand ==
    /\ Dropped => relations.agent = NoSchemas
    /\ at = "build" =>
         \A m \in Models :
            relations.agent[m] \in {NULL, Empty, Relation(scratch[m], "agent")}
    /\ OutputIsThePipelines

\* A transaction that read the landing table keeps the extract from it, and one
\* that read the view keeps the extract from the view.
LocksHeld ==
    /\ HoldsLanding => extract \notin {"holds_landing", "dropped"}
    /\ HoldsView => extract # "dropped"

\* A view that is there reads the landing table that is there; a mart was read
\* through a view that it can read.
VerdictInHand ==
    /\ at = "build" /\ relations.agent["staging"] \notin {NULL, Empty} =>
         landing \in Fits[scratch.staging]
    /\ dbt.at \in {"staging_built", "view_read"} => landing \in Fits[scratch.staging]
    /\ dbt.at \in {"view_read", "mart_built", "succeeded"} =>
         scratch.staging \in Feeds[scratch.marts]
    /\ dbt.at \in {"mart_built", "succeeded"} => dbt.landing \in Fits[scratch.staging]
    /\ at \notin {"idle", "drop_after"} => verdict # "built"
    /\ BuiltMeansTheWholeProject

\* The inductive invariant.
IInv ==
    /\ TypeOK
    /\ BuildIsOn
    /\ CopyInHand
    /\ SchemasInHand
    /\ LocksHeld
    /\ VerdictInHand

-----------------------------------------------------------------------------
\* A schema is typed by what it holds.
Schemas == [Models -> Relations \cup {NULL}]

LEMMA InitIInv == ValidationAssumption /\ Init => IInv
<1> SUFFICES ASSUME ValidationAssumption, Init
             PROVE  IInv
  OBVIOUS
<1> USE DEF Init
<1>1. TypeOK
  BY DEF TypeOK, ValidationAssumption, NoCopy, NoBuild, Copies, Project, Relations,
         BuiltFrom, NoSchemas, Models, Relation, Shapes
<1>2. BuildIsOn /\ CopyInHand /\ LocksHeld
  BY DEF BuildIsOn, CopyInHand, LocksHeld, NoBuild, HoldsLanding, HoldsView,
         ValidationAssumption
<1>3. SchemasInHand
  BY DEF SchemasInHand, Dropped, OutputIsThePipelines, NoBuild, BuiltFrom, Relation, Models,
         ValidationAssumption
<1>4. VerdictInHand
  BY DEF VerdictInHand, BuiltMeansTheWholeProject, NoBuild, ValidationAssumption,
         NoSchemas, Models
<1> QED
  BY <1>1, <1>2, <1>3, <1>4 DEF IInv

-----------------------------------------------------------------------------
(* Types *)

LEMMA ValidateTypes ==
    ASSUME ValidationAssumption, TypeOK, BuildIsOn, ValidateStep
    PROVE  TypeOK'
<1> USE DEF ValidationAssumption, TypeOK, bounds, pipelineVars
<1>1. CASE DropSchemas
  BY <1>1 DEF DropSchemas, NoSchemas, Models, Relations
<1>2. CASE RemoveCopy
  BY <1>2 DEF RemoveCopy, NoCopy, Copies
<1>3. CASE CopyFile
  BY <1>3 DEF CopyFile, Copies, Project
<1>4. CASE WriteMacro
  BY <1>4 DEF WriteMacro, Copies
<1>5. CASE WriteCandidate
  <2>1. candidate \in Candidates
    BY <1>5 DEF BuildIsOn, WriteCandidate
  <2>2. CASE candidate \in [model : {"staging"}, text : StagingTexts]
    BY <1>5, <2>2 DEF WriteCandidate, Copies
  <2>3. CASE candidate \in [model : {"marts"}, text : MartTexts]
    BY <1>5, <2>3 DEF WriteCandidate, Copies
  <2> QED BY <2>1, <2>2, <2>3 DEF Candidates
<1>6. CASE BuildReturns \/ Timeout
  BY <1>6 DEF BuildReturns, Timeout, BuildEnds
<1> QED
  BY <1>1, <1>2, <1>3, <1>4, <1>5, <1>6 DEF ValidateStep

LEMMA AgentTypes ==
    ASSUME ValidationAssumption, TypeOK, BuildIsOn,
           \/ \E c \in Candidates : Validate(c)
           \/ Raise \/ Crash \/ ApplyFix
    PROVE  TypeOK'
<1> USE DEF ValidationAssumption, TypeOK, bounds, pipelineVars
<1>1. ASSUME NEW c \in Candidates, Validate(c)
      PROVE  TypeOK'
  BY <1>1 DEF Validate, NoBuild, NoCopy, Copies
<1>2. CASE Raise \/ Crash
  BY <1>2 DEF Raise, Crash, BuildEnds
<1>3. CASE ApplyFix
  <2>1. candidate \in Candidates
    BY <1>3 DEF ApplyFix, BuildIsOn
  <2>2. CASE candidate \in [model : {"staging"}, text : StagingTexts]
    BY <1>3, <2>2 DEF ApplyFix, Project
  <2>3. CASE candidate \in [model : {"marts"}, text : MartTexts]
    BY <1>3, <2>3 DEF ApplyFix, Project
  <2> QED BY <2>1, <2>2, <2>3 DEF Candidates
<1> QED
  BY <1>1, <1>2, <1>3

\* What dbt parsed sends everything into the agent's schemas.
LEMMA SideIsTheAgents ==
    ASSUME BuildIsOn, CopyInHand, dbt.at \notin {"off", "parse"}
    PROVE  Side = "agent"
BY DEF BuildIsOn, CopyInHand, Side

LEMMA DbtTypes ==
    ASSUME ValidationAssumption, TypeOK, BuildIsOn, CopyInHand, DbtStep
    PROVE  TypeOK'
<1> USE DEF ValidationAssumption, TypeOK, bounds, pipelineVars, DbtAt
<1>1. UNCHANGED <<at, candidate, verdict, scratch, project, landing, extract>>
  BY DEF DbtStep
<1>2. CASE Parse
  <2>1. PICK place \in {"failed", "schemas"} :
           dbt' = [dbt EXCEPT !.copy = scratch, !.at = place]
    BY <1>2 DEF Parse
  <2> QED
    BY <1>1, <1>2, <2>1 DEF Parse
<1>3. CASE CreateSchemas
  <2>1. Side = "agent"
    BY <1>3, SideIsTheAgents DEF CreateSchemas
  <2> QED
    BY <1>1, <1>3, <2>1 DEF CreateSchemas, Empty, Relations, Models
<1>4. CASE CreateView \/ ReadLanding
  BY <1>1, <1>4 DEF CreateView, ReadLanding
<1>5. CASE CommitView \/ CommitMart
  <2>1. Side = "agent" /\ dbt.copy = scratch
    BY <1>5, SideIsTheAgents DEF CommitView, CommitMart, CopyInHand
  <2>2. scratch.staging \in StagingTexts \cup {NULL} /\ scratch.marts \in MartTexts \cup {NULL}
    BY DEF Copies
  <2>3. CASE CommitView
    BY <1>1, <2>1, <2>2, <2>3 DEF CommitView, AfterStaging, Relation, Relations, Models
  <2>4. CASE CommitMart
    BY <1>1, <2>1, <2>2, <2>4 DEF CommitMart, Relation, Relations, Models
  <2> QED BY <1>5, <2>3, <2>4
<1>6. CASE ReadView
  BY <1>1, <1>6 DEF ReadView
<1> QED
  BY <1>2, <1>3, <1>4, <1>5, <1>6 DEF DbtStep

LEMMA PipelineTypes ==
    ASSUME ValidationAssumption, TypeOK, ExtractStep \/ Transform \/ BreakDeadlock
    PROVE  TypeOK'
<1> USE DEF ValidationAssumption, TypeOK, bounds, pipelineVars
<1>1. CASE RebuildLandingTable
  <2>1. CASE LockLanding \/ DropCascade
    BY <1>1, <2>1 DEF RebuildLandingTable, LockLanding, DropCascade
  <2>2. CASE CommitExtract
    BY <1>1, <2>2 DEF RebuildLandingTable, CommitExtract, WithoutViews, Empty, Relations,
                      Models, Shapes
  <2> QED BY <1>1, <2>1, <2>2 DEF RebuildLandingTable
<1>2. CASE ExtractStep /\ ~RebuildLandingTable
  BY <1>2 DEF ExtractStep, BeginExtract, ExtractFails
<1>3. CASE Transform
  <2> DEFINE output ==
        [m \in Models |->
            IF \/ Builds(project, landing)
               \/ m = "staging" /\ landing \in Fits[project.staging]
              THEN Relation(project[m], "pipeline") ELSE relations.pipeline[m]]
  <2>1. \A m \in Models : Relation(project[m], "pipeline") \in Relations
    BY DEF Models, Project, Relation, Relations
  <2>2. output \in Schemas
    BY <2>1 DEF Schemas
  <2>3. relations' = [relations EXCEPT !.pipeline = output]
    BY <1>3 DEF Transform
  <2>4. relations' \in [{"pipeline", "agent"} -> Schemas]
    <3> HIDE DEF output
    <3> QED BY <2>2, <2>3 DEF Schemas
  <2>5. UNCHANGED <<at, candidate, verdict, scratch, dbt, project, landing, extract>>
    BY <1>3 DEF Transform
  <2> HIDE DEF output
  <2> QED
    BY <2>4, <2>5 DEF Schemas
<1>4. CASE BreakDeadlock
  BY <1>4 DEF BreakDeadlock, DbtAt
<1> QED
  BY <1>1, <1>2, <1>3, <1>4 DEF ExtractStep

LEMMA NextTypes ==
    ASSUME ValidationAssumption, IInv, [Next]_vars
    PROVE  TypeOK'
<1> USE DEF IInv
<1>1. CASE ValidateStep
  BY <1>1, ValidateTypes
<1>2. CASE (\E c \in Candidates : Validate(c)) \/ Raise \/ Crash \/ ApplyFix
  BY <1>2, AgentTypes
<1>3. CASE DbtStep
  BY <1>3, DbtTypes
<1>4. CASE ExtractStep \/ Transform \/ BreakDeadlock
  BY <1>4, PipelineTypes
<1>5. CASE UNCHANGED vars
  BY <1>5 DEF vars, pipelineVars, TypeOK
<1> QED
  BY <1>1, <1>2, <1>3, <1>4, <1>5 DEF Next

-----------------------------------------------------------------------------
(* The parts of the invariant *)

\* What a step of validate, of dbt and of the pipeline leaves alone.
LEMMA WhoChangesWhat ==
    /\ ValidateStep => UNCHANGED <<project, landing, extract>>
    /\ DbtStep => UNCHANGED <<at, candidate, verdict, scratch, project, landing, extract>>
    /\ ExtractStep \/ Transform =>
         UNCHANGED <<at, candidate, verdict, scratch, dbt, project>>
    /\ BreakDeadlock =>
         UNCHANGED <<at, candidate, verdict, scratch, relations, project, landing>>
<1>1. ValidateStep => UNCHANGED <<project, landing, extract>>
  BY DEF ValidateStep, DropSchemas, RemoveCopy, CopyFile, WriteMacro, WriteCandidate,
         BuildReturns, Timeout, BuildEnds, pipelineVars
<1>2. DbtStep => UNCHANGED <<at, candidate, verdict, scratch, project, landing, extract>>
  BY DEF DbtStep, pipelineVars
<1>3. ExtractStep \/ Transform =>
         UNCHANGED <<at, candidate, verdict, scratch, dbt, project>>
  BY DEF ExtractStep, RebuildLandingTable, Transform, pipelineVars
<1>4. BreakDeadlock =>
         UNCHANGED <<at, candidate, verdict, scratch, relations, project, landing>>
  BY DEF BreakDeadlock
<1> QED
  BY <1>1, <1>2, <1>3, <1>4

\* dbt stays on until validate stops waiting for it.
LEMMA DbtStaysOn ==
    ASSUME TypeOK, DbtStep \/ BreakDeadlock
    PROVE  dbt.at # "off" /\ dbt'.at # "off"
BY DEF TypeOK, DbtStep, Parse, CreateSchemas, CreateView, CommitView, ReadView,
       ReadLanding, CommitMart, BreakDeadlock, DbtAt, AfterStaging

LEMMA NextBuildIsOn ==
    ASSUME ValidationAssumption, IInv, [Next]_vars
    PROVE  BuildIsOn'
<1> USE DEF IInv, BuildIsOn
<1>1. CASE ValidateStep
  BY <1>1 DEF ValidateStep, DropSchemas, RemoveCopy, CopyFile, WriteMacro,
              WriteCandidate, BuildReturns, Timeout, BuildEnds, TypeOK
<1>2. CASE (\E c \in Candidates : Validate(c)) \/ Raise \/ Crash \/ ApplyFix
  BY <1>2 DEF Validate, Raise, Crash, ApplyFix, BuildEnds, NoBuild, TypeOK,
              ValidationAssumption
<1>3. CASE DbtStep \/ BreakDeadlock
  BY <1>3, WhoChangesWhat, DbtStaysOn
<1>4. CASE ExtractStep \/ Transform \/ UNCHANGED vars
  BY <1>4, WhoChangesWhat DEF vars
<1> QED
  BY <1>1, <1>2, <1>3, <1>4 DEF Next

LEMMA NextCopyInHand ==
    ASSUME ValidationAssumption, IInv, [Next]_vars
    PROVE  CopyInHand'
<1> USE DEF IInv, CopyInHand
<1>1. CASE ValidateStep
  <2>1. UNCHANGED project
    BY <1>1, WhoChangesWhat
  <2>2. CASE DropSchemas \/ BuildReturns \/ Timeout
    BY <2>2 DEF DropSchemas, BuildReturns, Timeout, BuildEnds, BuildIsOn, TypeOK
  <2>3. CASE RemoveCopy
    BY <2>3 DEF RemoveCopy, NoCopy, Models, BuildIsOn
  <2>4. CASE CopyFile
    BY <2>1, <2>4 DEF CopyFile, Models, BuildIsOn, TypeOK, Copies
  <2>5. CASE WriteMacro
    BY <2>1, <2>5 DEF WriteMacro, Models, BuildIsOn, TypeOK, Copies
  <2>6. CASE WriteCandidate
    <3>1. candidate \in Candidates /\ candidate' = candidate
      BY <2>6 DEF WriteCandidate, BuildIsOn
    <3>2. at' = "build" /\ dbt'.at = "parse"
      BY <2>6 DEF WriteCandidate, TypeOK
    <3>3. scratch' = [scratch EXCEPT ![candidate.model] = candidate.text]
      BY <2>6 DEF WriteCandidate
    <3>4. scratch'.macro = "agent"
      BY <2>6, <3>1, <3>3 DEF WriteCandidate, Candidates, TypeOK, Copies
    <3>5. \A m \in Models : scratch'[m] = (WithCandidate')[m]
      BY <2>1, <2>6, <3>1, <3>3
         DEF WriteCandidate, WithCandidate, Candidates, Models, TypeOK, Copies, Project
    <3> QED BY <3>2, <3>4, <3>5
  <2> QED
    BY <1>1, <2>2, <2>3, <2>4, <2>5, <2>6 DEF ValidateStep
<1>2. CASE (\E c \in Candidates : Validate(c)) \/ Raise \/ Crash \/ ApplyFix
  BY <1>2 DEF Validate, Raise, Crash, ApplyFix, BuildEnds, NoBuild, BuildIsOn, TypeOK
<1>3. CASE DbtStep
  <2>1. UNCHANGED <<at, candidate, scratch, project>>
    BY <1>3, WhoChangesWhat
  <2>2. WithCandidate' = WithCandidate
    BY <2>1 DEF WithCandidate
  <2>3. dbt'.at \notin {"off", "parse"} => dbt'.copy = scratch
    BY <1>3 DEF DbtStep, Parse, CreateSchemas, CreateView, CommitView, ReadView,
                ReadLanding, CommitMart, DbtAt, AfterStaging, TypeOK
  <2> QED BY <2>1, <2>2, <2>3
<1>4. CASE BreakDeadlock
  <2>1. UNCHANGED <<at, candidate, scratch, project>>
    BY <1>4, WhoChangesWhat
  <2>2. WithCandidate' = WithCandidate
    BY <2>1 DEF WithCandidate
  <2>3. dbt'.copy = dbt.copy /\ dbt.at = "view_read"
    BY <1>4 DEF BreakDeadlock, DbtAt, TypeOK
  <2> QED BY <2>1, <2>2, <2>3
<1>5. CASE ExtractStep \/ Transform \/ UNCHANGED vars
  <2>1. UNCHANGED <<at, candidate, scratch, dbt, project>>
    BY <1>5, WhoChangesWhat DEF vars, pipelineVars
  <2>2. WithCandidate' = WithCandidate
    BY <2>1 DEF WithCandidate
  <2> QED BY <2>1, <2>2
<1> QED
  BY <1>1, <1>2, <1>3, <1>4, <1>5 DEF Next

LEMMA NextLocksHeld ==
    ASSUME ValidationAssumption, IInv, [Next]_vars
    PROVE  LocksHeld'
<1> USE DEF IInv, LocksHeld, HoldsLanding, HoldsView
<1>1. CASE ValidateStep
  <2>1. extract' = extract
    BY <1>1, WhoChangesWhat
  <2>2. dbt' = dbt \/ dbt'.at \in {"parse", "off"}
    BY <1>1 DEF ValidateStep, DropSchemas, RemoveCopy, CopyFile, WriteMacro,
                WriteCandidate, BuildReturns, Timeout, BuildEnds, TypeOK
  <2> QED BY <2>1, <2>2
<1>2. CASE (\E c \in Candidates : Validate(c)) \/ Raise \/ Crash \/ ApplyFix
  <2>1. extract' = extract
    BY <1>2 DEF Validate, Raise, Crash, ApplyFix, pipelineVars
  <2>2. dbt' = dbt \/ dbt'.at = "off"
    BY <1>2 DEF Validate, Raise, Crash, ApplyFix, BuildEnds, NoBuild, TypeOK
  <2> QED BY <2>1, <2>2
<1>3. CASE DbtStep
  <2>1. extract' = extract
    BY <1>3, WhoChangesWhat
  <2> QED
    BY <1>3, <2>1 DEF DbtStep, Parse, CreateSchemas, CreateView, CommitView, ReadView,
                      ReadLanding, CommitMart, DbtAt, AfterStaging, TypeOK
<1>4. CASE BreakDeadlock
  BY <1>4 DEF BreakDeadlock, DbtAt, TypeOK
<1>5. CASE ExtractStep
  BY <1>5, WhoChangesWhat
     DEF ExtractStep, RebuildLandingTable, LockLanding, DropCascade, CommitExtract,
         BeginExtract, ExtractFails
<1>6. CASE Transform \/ UNCHANGED vars
  BY <1>6 DEF Transform, vars, pipelineVars
<1> QED
  BY <1>1, <1>2, <1>3, <1>4, <1>5, <1>6 DEF Next

LEMMA ValidateSchemas ==
    ASSUME ValidationAssumption, IInv, ValidateStep
    PROVE  SchemasInHand'
<1> USE DEF IInv, SchemasInHand, Dropped, OutputIsThePipelines
<1>1. CASE DropSchemas
  <2>1. dbt'.at = "off" /\ at' # "build"
    BY <1>1 DEF DropSchemas, BuildIsOn
  <2>2. relations'.pipeline = relations.pipeline
    BY <1>1 DEF DropSchemas, TypeOK
  <2>3. at' \in {"remove_copy", "idle"} => relations'.agent = NoSchemas
    BY <1>1 DEF DropSchemas
  <2>4. at' \in {"drop_before", "drop_after", "remove_copy", "idle"}
    BY <1>1 DEF DropSchemas
  <2> QED BY <2>1, <2>2, <2>3, <2>4
<1>2. CASE RemoveCopy \/ CopyFile \/ WriteMacro
  BY <1>2 DEF RemoveCopy, CopyFile, WriteMacro, BuildIsOn
<1>3. CASE WriteCandidate
  <2>1. relations' = relations /\ relations.agent = NoSchemas /\ at' = "build"
    BY <1>3 DEF WriteCandidate
  <2>2. \A m \in Models : NoSchemas[m] = NULL
    BY DEF NoSchemas
  <2> QED BY <2>1, <2>2
<1>4. CASE BuildReturns \/ Timeout
  BY <1>4 DEF BuildReturns, Timeout, BuildEnds, TypeOK
<1> QED
  BY <1>1, <1>2, <1>3, <1>4 DEF ValidateStep

LEMMA DbtSchemas ==
    ASSUME ValidationAssumption, IInv, DbtStep
    PROVE  SchemasInHand'
<1> USE DEF IInv
<1>1. UNCHANGED <<at, verdict, scratch>> /\ at = "build"
  BY WhoChangesWhat, DbtStaysOn DEF BuildIsOn
<1>2. dbt'.at # "parse"
  BY DEF DbtStep, Parse, CreateSchemas, CreateView, CommitView, ReadView, ReadLanding,
         CommitMart, DbtAt, AfterStaging, TypeOK
<1>3. CASE UNCHANGED relations
  BY <1>1, <1>2, <1>3 DEF SchemasInHand, Dropped, OutputIsThePipelines
<1>4. CASE CreateSchemas \/ CommitView \/ CommitMart
  <2>1. Side = "agent" /\ dbt.copy = scratch
    BY <1>4, SideIsTheAgents DEF CreateSchemas, CommitView, CommitMart, CopyInHand
  <2>2. relations'.pipeline = relations.pipeline
    BY <1>4, <2>1 DEF CreateSchemas, CommitView, CommitMart, TypeOK
  <2>3. ASSUME NEW m \in Models
        PROVE  relations'.agent[m]
                 \in {relations.agent[m], Empty, Relation(scratch[m], "agent")}
    BY <1>4, <2>1 DEF CreateSchemas, CommitView, CommitMart, TypeOK, Models, Copies
  <2> QED
    BY <1>1, <1>2, <2>2, <2>3 DEF SchemasInHand, Dropped, OutputIsThePipelines
<1> QED
  BY <1>3, <1>4 DEF DbtStep, Parse, CreateView, ReadView, ReadLanding

LEMMA PipelineSchemas ==
    ASSUME ValidationAssumption, IInv, ExtractStep \/ Transform
    PROVE  SchemasInHand'
<1> USE DEF IInv
<1>1. UNCHANGED <<at, verdict, scratch, dbt>>
  BY WhoChangesWhat
<1>2. CASE UNCHANGED relations
  BY <1>1, <1>2 DEF SchemasInHand, Dropped, OutputIsThePipelines
<1>3. CASE CommitExtract
  <2>1. /\ relations'.agent = WithoutViews(relations.agent)
        /\ relations'.pipeline = WithoutViews(relations.pipeline)
    BY <1>3 DEF CommitExtract, TypeOK
  <2>2. relations.agent = NoSchemas => relations'.agent = NoSchemas
    BY <2>1 DEF WithoutViews, NoSchemas, Models
  <2>3. ASSUME NEW m \in Models
        PROVE  /\ relations'.agent[m] \in {relations.agent[m], Empty}
               /\ relations'.pipeline[m] \in {relations.pipeline[m], Empty}
    BY <2>1 DEF WithoutViews, TypeOK, Models
  <2> QED
    BY <1>1, <2>2, <2>3 DEF SchemasInHand, Dropped, OutputIsThePipelines, Empty
<1>4. CASE Transform
  <2>1. relations'.agent = relations.agent
    BY <1>4 DEF Transform, TypeOK
  <2>2. ASSUME NEW m \in Models
        PROVE  relations'.pipeline[m]
                 \in {relations.pipeline[m], Relation(project[m], "pipeline")}
    BY <1>4 DEF Transform, TypeOK, Models
  <2>3. OutputIsThePipelines'
    BY <2>2 DEF SchemasInHand, Dropped, OutputIsThePipelines, Relation
  <2> QED
    BY <1>1, <2>1, <2>3 DEF SchemasInHand, Dropped
<1> QED
  BY <1>2, <1>3, <1>4
     DEF ExtractStep, RebuildLandingTable, LockLanding, DropCascade, BeginExtract,
         ExtractFails

LEMMA NextSchemasInHand ==
    ASSUME ValidationAssumption, IInv, [Next]_vars
    PROVE  SchemasInHand'
<1>1. CASE (\E c \in Candidates : Validate(c)) \/ Raise \/ Crash \/ ApplyFix
  <2>1. UNCHANGED relations
    BY <1>1 DEF Validate, Raise, Crash, ApplyFix
  <2>2. dbt'.at = "off" /\ at' \in {"idle", "drop_before", "drop_after"}
    BY <1>1 DEF Validate, Raise, Crash, ApplyFix, BuildEnds, NoBuild, BuildIsOn, TypeOK, IInv
  <2>3. at' = "idle" => verdict' \notin {"built", "refused"}
    BY <1>1 DEF Validate, Raise, Crash, ApplyFix, BuildEnds, ValidationAssumption
  <2> QED
    BY <2>1, <2>2, <2>3 DEF IInv, SchemasInHand, Dropped, OutputIsThePipelines
<1>2. CASE BreakDeadlock
  BY <1>2 DEF BreakDeadlock, DbtAt, TypeOK, IInv, SchemasInHand, Dropped, OutputIsThePipelines
<1>3. CASE UNCHANGED vars
  BY <1>3 DEF vars, IInv, SchemasInHand, Dropped, OutputIsThePipelines
<1> QED
  BY <1>1, <1>2, <1>3, ValidateSchemas, DbtSchemas, PipelineSchemas DEF Next

\* What a verdict is about changes by an approval alone, which takes it back.
LEMMA VerdictKept ==
    ASSUME TypeOK, VerdictInHand, UNCHANGED <<verdict, candidate, project>>,
           dbt'.landing = dbt.landing
    PROVE  BuiltMeansTheWholeProject'
BY DEF VerdictInHand, BuiltMeansTheWholeProject, Builds

LEMMA ValidateVerdict ==
    ASSUME ValidationAssumption, IInv, ValidateStep
    PROVE  VerdictInHand'
<1> USE DEF IInv
<1>1. UNCHANGED <<project, landing>>
  BY WhoChangesWhat
<1>2. CASE DropSchemas \/ RemoveCopy \/ CopyFile \/ WriteMacro \/ WriteCandidate
  <2>1. UNCHANGED <<verdict, candidate>> /\ dbt'.landing = dbt.landing
    BY <1>2 DEF DropSchemas, RemoveCopy, CopyFile, WriteMacro, WriteCandidate, TypeOK
  <2>2. dbt'.at \in {"off", "parse"}
    BY <1>2 DEF DropSchemas, RemoveCopy, CopyFile, WriteMacro, WriteCandidate, TypeOK,
                BuildIsOn
  <2>3. at' = "build" => relations'.agent["staging"] = NULL
    <3>1. at' = "build" => relations' = relations /\ relations.agent = NoSchemas
      BY <1>2 DEF DropSchemas, RemoveCopy, CopyFile, WriteMacro, WriteCandidate,
                  SchemasInHand, Dropped
    <3>2. NoSchemas["staging"] = NULL
      BY DEF NoSchemas, Models
    <3> QED BY <3>1, <3>2
  <2>4. at' \notin {"idle", "drop_after"} => verdict # "built"
    BY <1>2 DEF DropSchemas, RemoveCopy, CopyFile, WriteMacro, WriteCandidate,
                VerdictInHand
  <2>5. BuiltMeansTheWholeProject'
    BY <1>1, <2>1, VerdictKept
  <2> QED
    BY <2>1, <2>2, <2>3, <2>4, <2>5 DEF VerdictInHand
<1>3. CASE BuildReturns \/ Timeout
  <2>1. at' = "drop_after" /\ dbt'.at = "off" /\ dbt'.landing = dbt.landing
        /\ candidate' = candidate
    BY <1>3 DEF BuildReturns, Timeout, BuildEnds, TypeOK
  <2>2. verdict' = "built" => dbt.at = "succeeded" /\ at = "build"
    BY <1>3 DEF BuildReturns, Timeout, BuildEnds, TypeOK
  <2>3. ASSUME verdict' = "built"
        PROVE  Builds(WithCandidate, dbt.landing)
    <3>1. scratch.staging = WithCandidate.staging /\ scratch.marts = WithCandidate.marts
      BY <2>2, <2>3 DEF CopyInHand, Models, TypeOK, Copies, WithCandidate, Project
    <3>2. dbt.landing \in Fits[scratch.staging] /\ scratch.staging \in Feeds[scratch.marts]
      BY <2>2, <2>3 DEF VerdictInHand
    <3> QED BY <3>1, <3>2 DEF Builds
  <2>4. BuiltMeansTheWholeProject'
    BY <1>1, <2>1, <2>3 DEF BuiltMeansTheWholeProject, Builds, WithCandidate
  <2> QED
    BY <2>1, <2>4 DEF VerdictInHand
<1> QED
  BY <1>2, <1>3 DEF ValidateStep

LEMMA DbtVerdict ==
    ASSUME ValidationAssumption, IInv, DbtStep
    PROVE  VerdictInHand'
<1> USE DEF IInv
<1>1. UNCHANGED <<at, candidate, verdict, scratch, project, landing>> /\ at = "build"
  BY WhoChangesWhat, DbtStaysOn DEF BuildIsOn
<1>2. verdict # "built" /\ BuiltMeansTheWholeProject'
  BY <1>1 DEF VerdictInHand, BuiltMeansTheWholeProject
<1>3. CASE Parse \/ CreateSchemas
  <2>1. dbt'.at \in {"failed", "schemas", "staging"}
    BY <1>3 DEF Parse, CreateSchemas, DbtAt, TypeOK
  <2>2. relations'.agent["staging"] \in {relations.agent["staging"], Empty}
    <3>1. CASE Parse
      BY <3>1 DEF Parse
    <3>2. CASE CreateSchemas
      <4>1. Side = "agent"
        BY <3>2, SideIsTheAgents DEF CreateSchemas
      <4> QED BY <3>2, <4>1 DEF CreateSchemas, TypeOK, Models
    <3> QED BY <1>3, <3>1, <3>2
  <2> QED
    BY <1>1, <1>2, <2>1, <2>2 DEF VerdictInHand
<1>4. CASE CreateView \/ ReadView \/ ReadLanding
  <2>1. dbt.copy = scratch /\ Side = "agent" /\ relations' = relations
    BY <1>4, SideIsTheAgents DEF CreateView, ReadView, ReadLanding, CopyInHand
  <2>2. CASE CreateView
    BY <1>1, <1>2, <2>1, <2>2 DEF CreateView, VerdictInHand, TypeOK
  <2>3. CASE ReadView
    <3>1. relations.agent["staging"] \in {NULL, Empty, Relation(scratch["staging"], "agent")}
      BY <1>1 DEF SchemasInHand, Models
    <3>2. scratch["staging"] = scratch.staging
      BY DEF TypeOK, Copies
    <3>3. dbt'.at = "view_read" =>
             /\ relations.agent["staging"] \notin {NULL, Empty}
             /\ relations.agent["staging"].text \in Feeds[scratch.marts]
      BY <2>1, <2>3 DEF ReadView, DbtAt, TypeOK
    <3>4. dbt'.at = "view_read" => scratch.staging \in Feeds[scratch.marts]
      BY <3>1, <3>2, <3>3 DEF Relation
    <3>5. dbt'.at \in {"failed", "view_read"}
      BY <2>3 DEF ReadView, DbtAt, TypeOK
    <3> QED
      BY <1>1, <1>2, <2>1, <3>3, <3>4, <3>5 DEF VerdictInHand
  <2>4. CASE ReadLanding
    BY <1>1, <1>2, <2>1, <2>4 DEF ReadLanding, VerdictInHand, TypeOK
  <2> QED BY <1>4, <2>2, <2>3, <2>4
<1>5. CASE CommitView \/ CommitMart
  <2>1. Side = "agent"
    BY <1>5, SideIsTheAgents DEF CommitView, CommitMart
  <2>2. CASE CommitView
    BY <1>1, <1>2, <2>2 DEF CommitView, AfterStaging, DbtAt, VerdictInHand, TypeOK
  <2>3. CASE CommitMart
    <3>1. relations'.agent["staging"] = relations.agent["staging"]
      BY <2>1, <2>3 DEF CommitMart, TypeOK, Models
    <3> QED
      BY <1>1, <1>2, <2>3, <3>1 DEF CommitMart, DbtAt, VerdictInHand, TypeOK
  <2> QED BY <1>5, <2>2, <2>3
<1> QED
  BY <1>3, <1>4, <1>5 DEF DbtStep

LEMMA PipelineVerdict ==
    ASSUME ValidationAssumption, IInv, ExtractStep \/ Transform
    PROVE  VerdictInHand'
<1> USE DEF IInv
<1>1. UNCHANGED <<at, candidate, verdict, scratch, dbt, project>>
  BY WhoChangesWhat
<1>2. BuiltMeansTheWholeProject'
  BY <1>1, VerdictKept
<1>3. CASE CommitExtract
  <2>1. relations'.agent["staging"] \in {NULL, Empty}
    BY <1>3 DEF CommitExtract, WithoutViews, TypeOK, Models
  <2>2. dbt.at \notin {"staging_built", "view_read"}
    BY <1>3 DEF CommitExtract, LocksHeld, HoldsLanding, HoldsView
  <2> QED
    BY <1>1, <1>2, <2>1, <2>2 DEF VerdictInHand
<1>4. CASE ~CommitExtract
  <2>1. landing' = landing /\ relations'.agent = relations.agent
    BY <1>4 DEF ExtractStep, RebuildLandingTable, LockLanding, DropCascade, BeginExtract,
                ExtractFails, Transform, pipelineVars, TypeOK
  <2> QED
    BY <1>1, <1>2, <2>1 DEF VerdictInHand
<1> QED
  BY <1>3, <1>4

LEMMA NextVerdictInHand ==
    ASSUME ValidationAssumption, IInv, [Next]_vars
    PROVE  VerdictInHand'
<1> USE DEF IInv
<1>1. CASE (\E c \in Candidates : Validate(c)) \/ Raise \/ Crash \/ ApplyFix
  <2>1. dbt'.at = "off" /\ at' \in {"idle", "drop_before", "drop_after"}
    BY <1>1 DEF Validate, Raise, Crash, ApplyFix, BuildEnds, NoBuild, BuildIsOn, TypeOK
  <2>2. \/ verdict' # "built"
        \/ UNCHANGED <<verdict, candidate, project, dbt>>
    BY <1>1 DEF Validate, Raise, Crash, ApplyFix, BuildEnds, ValidationAssumption,
                pipelineVars
  <2>3. BuiltMeansTheWholeProject'
    BY <2>2, VerdictKept DEF BuiltMeansTheWholeProject
  <2>4. at' = "drop_before" => verdict' # "built"
    BY <1>1 DEF Validate, Raise, Crash, ApplyFix, BuildEnds, ValidationAssumption,
                VerdictInHand
  <2> QED
    BY <2>1, <2>3, <2>4 DEF VerdictInHand
<1>2. CASE BreakDeadlock
  <2>1. UNCHANGED <<at, candidate, verdict, scratch, relations, project, landing>>
    BY <1>2, WhoChangesWhat
  <2>2. dbt'.at \in {dbt.at, "failed"} /\ dbt'.landing = dbt.landing
    BY <1>2 DEF BreakDeadlock, DbtAt, TypeOK
  <2>3. BuiltMeansTheWholeProject'
    BY <2>1, <2>2, VerdictKept
  <2> QED
    BY <2>1, <2>2, <2>3 DEF VerdictInHand
<1>3. CASE UNCHANGED vars
  BY <1>3, VerdictKept DEF vars, pipelineVars, VerdictInHand
<1> QED
  BY <1>1, <1>2, <1>3, ValidateVerdict, DbtVerdict, PipelineVerdict DEF Next

-----------------------------------------------------------------------------
(* The theorems *)

LEMMA NextIInv ==
    ASSUME ValidationAssumption, IInv, [Next]_vars
    PROVE  IInv'
BY NextTypes, NextBuildIsOn, NextCopyInHand, NextSchemasInHand, NextLocksHeld,
   NextVerdictInHand DEF IInv

LEMMA Invariance == Spec => []IInv
<1>1. Init => IInv
  BY InitIInv, ValidationAssumption
<1>2. IInv /\ [Next]_vars => IInv'
  BY NextIInv, ValidationAssumption
<1> QED BY <1>1, <1>2, PTL DEF Spec

\* Every file, schema, build and table holds a value of its kind, for any texts.
THEOREM TypeCorrect == Spec => []TypeOK
<1>1. IInv => TypeOK
  BY DEF IInv
<1> QED BY <1>1, Invariance, PTL

\* A validation that returned a verdict left none of the agent's schemas, however
\* many were cut short before it.
THEOREM NothingLeft == Spec => []LeavesNothingBehind
<1>1. IInv => LeavesNothingBehind
  BY DEF IInv, SchemasInHand, Dropped, LeavesNothingBehind
<1> QED BY <1>1, Invariance, PTL

\* What dbt builds is the project with the candidate, and the agent's schemas
\* hold what was built from it, whatever crashes and fixes came before.
THEOREM NothingCarried == Spec => []NothingCarriesOver
<1>1. IInv => NothingCarriesOver
  <2> SUFFICES ASSUME IInv, at = "build", dbt.at \notin {"off", "parse"}
               PROVE  /\ [m \in Models |-> dbt.copy[m]] = WithCandidate
                      /\ \A m \in Models :
                            relations.agent[m] \in
                               {NULL, Empty, Relation(dbt.copy[m], "agent")}
    BY DEF NothingCarriesOver, WithCandidate
  <2>1. dbt.copy = scratch
    BY DEF IInv, CopyInHand
  <2>2. \A m \in Models : scratch[m] = WithCandidate[m]
    BY DEF IInv, CopyInHand
  <2>3. WithCandidate = [m \in Models |-> WithCandidate[m]]
    BY DEF IInv, TypeOK, WithCandidate, Project, Models
  <2>4. [m \in Models |-> dbt.copy[m]] = WithCandidate
    BY <2>1, <2>2, <2>3
  <2> QED
    BY <2>1, <2>4 DEF IInv, SchemasInHand
<1> QED BY <1>1, Invariance, PTL

\* No build of a candidate writes where the pipeline writes.
THEOREM OutputUntouched == Spec => []OutputIsThePipelines
<1>1. IInv => OutputIsThePipelines
  BY DEF IInv, SchemasInHand
<1> QED BY <1>1, Invariance, PTL

\* A candidate is said to build only if the whole project builds with it on one
\* shape of the landing table, for any texts and any number of extracts.
THEOREM WholeProjectBuilt == Spec => []BuiltMeansTheWholeProject
<1>1. IInv => BuiltMeansTheWholeProject
  BY DEF IInv, VerdictInHand
<1> QED BY <1>1, Invariance, PTL
=============================================================================
