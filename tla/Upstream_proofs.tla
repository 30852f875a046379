---------------------------- MODULE Upstream_proofs ----------------------------
(***************************************************************************)
(* Proofs about the simulated upstream, for every seed, batch size, number *)
(* of batches and crashes, and every set of drift triggers.                *)
(***************************************************************************)
EXTENDS Upstream, TLAPS

\* How many identifiers there are after k batches.
Count(k) == SeedRows + k * BatchSize

\* The seeder copies into an empty table; what follows it finds rows.
SeededOnce ==
    /\ seeder = "copy" => rows = {}
    /\ seeder \in {"check", "done"} \/ arrivals.at # "stopped" => rows # {}

\* A batch under way is not beyond the last, and once it has selected from the
\* table it holds it and carries on where the identifiers end.
BatchInHand ==
    /\ arrivals.at \in {"max", "columns", "copy"} => MoreToCome
    /\ arrivals.at \in {"columns", "copy"} =>
         /\ "arrivals" \in holders
         /\ \A k \in 0..MaxBatches :
               rows = 1..Count(k) => arrivals.first = Count(k) + 1

\* A trigger that has renamed left the new name behind.
RenamedMeansDrifted ==
    \A t \in Triggers : trigger[t] \in {"report", "applied"} => column = "cust_id"

IInv ==
    /\ TypeOK /\ SeedAndBatches /\ BatchMatchesTheTable /\ OneTriggerRenames
    /\ SeededOnce /\ BatchInHand /\ RenamedMeansDrifted

-----------------------------------------------------------------------------
\* max_identifier of the first n identifiers is n.
LEMMA MaxOfFirst ==
    ASSUME NEW n \in Nat
    PROVE  Max(1..n \cup {0}) = n
<1> DEFINE S == 1..n \cup {0}
           IsMax(x) == x \in S /\ \A y \in S : x >= y
<1>1. IsMax(n)
  OBVIOUS
<1>2. \A x : IsMax(x) => x = n
  OBVIOUS
<1>3. Max(S) = CHOOSE x : IsMax(x)
  BY DEF Max
<1>4. IsMax(CHOOSE x : IsMax(x))
  <2> HIDE DEF IsMax
  <2> QED BY <1>1
<1> QED
  BY <1>2, <1>3, <1>4

\* One batch more is the next count.
LEMMA CountStep ==
    ASSUME NEW k \in Nat, UpstreamAssumption
    PROVE  /\ Count(k) \in Nat /\ Count(k) >= 1
           /\ Count(k + 1) = Count(k) + BatchSize
<1>1. k * BatchSize \in Nat /\ (k + 1) * BatchSize = k * BatchSize + BatchSize
  BY DEF UpstreamAssumption
<1> QED
  BY <1>1 DEF Count, UpstreamAssumption

LEMMA InitIInv == UpstreamAssumption /\ Init => IInv
<1> SUFFICES ASSUME UpstreamAssumption, Init
             PROVE  IInv
  OBVIOUS
<1>1. TypeOK
  <2>1. /\ rows \in SUBSET Nat /\ holders \in SUBSET {"seeder", "arrivals"}
        /\ crashes \in 0..MaxCrashes /\ stale \in Nat
    BY DEF Init, UpstreamAssumption
  <2>2. /\ arrivals \in [at : {"stopped", "sleep"}, name : {NULL}, first : {0}]
        /\ extract \in [at : {"idle"}, name : {NULL}]
    BY DEF Init
  <2>3. /\ landing \in [name : Names \cup {NULL}, rows : SUBSET Nat]
        /\ trigger \in [Triggers -> {"look_for_drifted"}]
    BY DEF Init
  <2> QED BY <2>1, <2>2, <2>3 DEF Init, TypeOK, Names
<1>2. SeedAndBatches /\ BatchMatchesTheTable /\ SeededOnce /\ BatchInHand
  BY DEF Init, SeedAndBatches, BatchMatchesTheTable, SeededOnce, BatchInHand
<1>3. OneTriggerRenames /\ RenamedMeansDrifted
  BY DEF Init, OneTriggerRenames, RenamedMeansDrifted
<1> QED
  BY <1>1, <1>2, <1>3 DEF IInv

-----------------------------------------------------------------------------
\* Each process in turn keeps the invariant.

LEMMA SeederKeeps ==
    ASSUME UpstreamAssumption, IInv, SeederStep
    PROVE  IInv'
<1> USE DEF IInv
<1>1. TypeOK'
  <2>1. UNCHANGED <<column, arrivals, crashes, failures, trigger, extract, landing, stale>>
    BY DEF SeederStep, arrivalsVars, extractVars
  <2>2. /\ rows' \in SUBSET Nat /\ holders' \in SUBSET {"seeder", "arrivals"}
        /\ seeder' \in {"count", "copy", "check", "done", "dead"}
    <3>1. 1..SeedRows \in SUBSET Nat
      BY DEF UpstreamAssumption
    <3> QED
      BY <3>1 DEF TypeOK, SeederStep, CountRows, Seed, CheckSeed, SeederDies,
                  SeedAgain
  <2> QED BY <2>1, <2>2 DEF TypeOK
<1>2. /\ rows' = rows \/ (rows = {} /\ rows' = 1..SeedRows)
      /\ "arrivals" \in holders => "arrivals" \in holders'
      /\ UNCHANGED <<column, arrivals, trigger>>
  BY DEF SeederStep, CountRows, Seed, CheckSeed, SeederDies, SeedAgain,
         SeededOnce, arrivalsVars
<1>3. SeedAndBatches'
  <2>1. SeedRows + 0 * BatchSize = SeedRows /\ 0 \in 0..MaxBatches
    BY DEF UpstreamAssumption
  <2> QED BY <1>2, <2>1 DEF SeedAndBatches
<1>4. SeededOnce'
  BY DEF SeederStep, CountRows, Seed, CheckSeed, SeederDies, SeedAgain,
         SeededOnce, arrivalsVars, UpstreamAssumption
<1>5. BatchInHand'
  BY <1>2 DEF BatchInHand, SeededOnce, MoreToCome
<1>6. BatchMatchesTheTable' /\ OneTriggerRenames' /\ RenamedMeansDrifted'
  BY <1>2 DEF BatchMatchesTheTable, OneTriggerRenames, RenamedMeansDrifted
<1> QED
  BY <1>1, <1>3, <1>4, <1>5, <1>6

LEMMA TriggerKeeps ==
    ASSUME UpstreamAssumption, IInv, NEW t \in Triggers, TriggerStep(t)
    PROVE  IInv'
<1> USE DEF IInv
<1>0. UNCHANGED <<rows, holders, seeder, arrivals, crashes, failures, extract, landing, stale>>
  BY DEF TriggerStep, arrivalsVars, extractVars
<1> DEFINE Step(old, new) ==
             /\ trigger[t] = old
             /\ trigger' = [trigger EXCEPT ![t] = new]
<1>1. \/ /\ column' = column
         /\ \E new \in {"look_for_original", "nothing_to_do", "rename", "raised"} :
               Step(trigger[t], new)
      \/ /\ column' = "cust_id" /\ column = "customer_id" /\ holders = {}
         /\ Step("rename", "report")
      \/ /\ column' = column
         /\ \E new \in {"applied", "raised"} : Step("report", new)
  BY DEF TriggerStep, LookForDrifted, LookForOriginal, Rename, Renames, Report
<1>2. TypeOK'
  BY <1>0, <1>1 DEF TypeOK, Names
<1>3. OneTriggerRenames' /\ RenamedMeansDrifted'
  BY <1>1 DEF OneTriggerRenames, RenamedMeansDrifted, TypeOK
<1>4. BatchMatchesTheTable'
  BY <1>0, <1>1 DEF BatchMatchesTheTable, BatchInHand
<1>5. SeedAndBatches' /\ SeededOnce' /\ BatchInHand'
  BY <1>0 DEF SeedAndBatches, SeededOnce, BatchInHand, MoreToCome
<1> QED
  BY <1>2, <1>3, <1>4, <1>5

LEMMA ExtractKeeps ==
    ASSUME IInv, ExtractStep
    PROVE  IInv'
<1> USE DEF IInv
<1>1. UNCHANGED <<column, rows, holders, seeder, arrivals, crashes, failures, trigger>>
  BY DEF ExtractStep, arrivalsVars
<1>2. TypeOK'
  <2>1. /\ extract' \in [at : {"idle"}, name : {NULL}]
                         \cup [at : {"rebuild", "land"}, name : Names]
        /\ landing' \in [name : Names \cup {NULL}, rows : SUBSET Nat]
        /\ stale' \in Nat
    BY DEF TypeOK, ExtractStep, ReadSourceColumns, SourceColumns, RebuildLanding,
           LandCopy, ExtractFails
  <2> QED BY <1>1, <2>1 DEF TypeOK
<1> QED
  BY <1>1, <1>2 DEF SeedAndBatches, BatchMatchesTheTable, OneTriggerRenames,
     SeededOnce, BatchInHand, RenamedMeansDrifted, MoreToCome

\* The only step that adds a batch adds it after the last identifier.
LEMMA ArrivalsKeepsRows ==
    ASSUME UpstreamAssumption, IInv, ArrivalsStep
    PROVE  SeedAndBatches'
<1> USE DEF IInv
<1>1. CASE rows' = rows
  BY <1>1 DEF SeedAndBatches
<1>2. CASE arrivals.at = "copy" /\ rows' = rows \cup Batch
  <2>1. rows # {} /\ MoreToCome
    BY <1>2 DEF SeededOnce, BatchInHand
  <2>2. PICK k \in 0..MaxBatches : rows = 1..Count(k)
    BY <2>1 DEF SeedAndBatches, Count
  <2>3. MaxBatches \in Nat /\ k \in Nat
    BY DEF UpstreamAssumption
  <2>4. Count(k) \in Nat /\ Count(k) >= 1 /\ Count(k + 1) = Count(k) + BatchSize
    BY <2>3, CountStep
  <2>5. k # MaxBatches
    BY <2>1, <2>2, <2>4 DEF MoreToCome, Count
  <2>6. arrivals.first = Count(k) + 1
    BY <1>2, <2>2 DEF BatchInHand
  <2>7. rows' = 1..Count(k + 1)
    BY <1>2, <2>2, <2>4, <2>6 DEF Batch, UpstreamAssumption
  <2>8. k + 1 \in 0..MaxBatches
    BY <2>3, <2>5
  <2> QED BY <2>7, <2>8 DEF SeedAndBatches, Count
<1> QED
  BY <1>1, <1>2 DEF ArrivalsStep, StartArrivals, ReadIdentifier, SelectMax,
                    ReadColumns, CopyBatch

\* What the process holds in hand after a step of its own.
LEMMA ArrivalsKeepsBatch ==
    ASSUME UpstreamAssumption, IInv, ArrivalsStep
    PROVE  BatchInHand' /\ BatchMatchesTheTable' /\ SeededOnce'
<1> USE DEF IInv
<1>0. UNCHANGED <<column, seeder>>
  BY DEF ArrivalsStep
<1>1. CASE StartArrivals \/ CopyBatch
  <2>1. arrivals'.at = "sleep" /\ rows # {} /\ rows \subseteq rows'
    BY <1>1 DEF StartArrivals, CopyBatch, BatchFails, Sleep, SeededOnce
  <2> QED
    BY <1>0, <2>1 DEF BatchInHand, BatchMatchesTheTable, SeededOnce
<1>2. CASE ReadIdentifier
  BY <1>0, <1>2 DEF ReadIdentifier, BatchInHand, BatchMatchesTheTable, SeededOnce,
                    TypeOK, MoreToCome
<1>3. CASE SelectMax
  <2>1. rows # {} /\ rows' = rows /\ MoreToCome
    BY <1>3 DEF SelectMax, SeededOnce, BatchInHand
  <2>2. CASE BatchFails
    BY <1>0, <2>1, <2>2 DEF BatchFails, Sleep, BatchInHand, BatchMatchesTheTable,
                            SeededOnce
  <2>3. CASE /\ arrivals' = [arrivals EXCEPT !.at = "columns",
                                             !.first = Max(rows \cup {0}) + 1]
             /\ holders' = LockFrom
    <3>1. arrivals'.at = "columns" /\ arrivals'.first = Max(rows \cup {0}) + 1
      BY <2>3 DEF TypeOK
    <3>2. ASSUME NEW k \in 0..MaxBatches, rows = 1..Count(k)
          PROVE  Max(rows \cup {0}) = Count(k)
      <4>1. Count(k) \in Nat
        BY CountStep
      <4> QED BY <3>2, <4>1, MaxOfFirst
    <3> QED
      BY <1>0, <2>1, <2>3, <3>1, <3>2
      DEF LockFrom, BatchInHand, BatchMatchesTheTable, SeededOnce, MoreToCome, Count
  <2> QED BY <1>3, <2>2, <2>3 DEF SelectMax
<1>4. CASE ReadColumns
  <2>1. /\ arrivals'.at = "copy" /\ arrivals'.name = column
        /\ arrivals'.first = arrivals.first
        /\ arrivals.at = "columns" /\ rows' = rows /\ holders' = holders
    BY <1>4 DEF ReadColumns, TypeOK
  <2> QED
    BY <1>0, <2>1 DEF BatchInHand, BatchMatchesTheTable, SeededOnce, MoreToCome, Count
<1> QED
  BY <1>1, <1>2, <1>3, <1>4 DEF ArrivalsStep

LEMMA ArrivalsKeepsType ==
    ASSUME UpstreamAssumption, IInv, ArrivalsStep
    PROVE  TypeOK'
<1> USE DEF IInv
<1>0. UNCHANGED <<column, seeder, trigger, extract, landing, stale, crashes>>
  BY DEF ArrivalsStep, extractVars, StartArrivals, ReadIdentifier, SelectMax,
         ReadColumns, CopyBatch
<1>1. holders' \in SUBSET {"seeder", "arrivals"} /\ failures' \in 0..2
  BY DEF ArrivalsStep, StartArrivals, ReadIdentifier, SelectMax, ReadColumns,
         CopyBatch, BatchFails, LockFrom, TypeOK
<1>2. rows' \in SUBSET Nat
  <2>1. SeedAndBatches'
    BY ArrivalsKeepsRows
  <2>2. \A k \in 0..MaxBatches : 1..Count(k) \in SUBSET Nat
    OBVIOUS
  <2> QED BY <2>1, <2>2 DEF SeedAndBatches, Count
<1>3. arrivals' \in [at : {"stopped", "sleep"}, name : {NULL}, first : {0}]
                  \cup [at : {"max", "columns", "copy"}, name : Names, first : Nat]
  <2>1. CASE Sleep
    BY <2>1 DEF Sleep
  <2>2. CASE ReadIdentifier
    <3>1. arrivals \in [at : {"stopped", "sleep"}, name : {NULL}, first : {0}]
      BY <2>2 DEF ReadIdentifier, TypeOK
    <3>2. arrivals' = [arrivals EXCEPT !.at = "max", !.name = column] /\ column \in Names
      BY <2>2 DEF ReadIdentifier, IdentifierColumn, TypeOK
    <3>3. arrivals' = [at |-> "max", name |-> column, first |-> 0]
      BY <3>1, <3>2
    <3> QED BY <3>2, <3>3
  <2>3. CASE SelectMax /\ ~Sleep
    <3>1. rows # {} /\ arrivals.at = "max"
      BY <2>3 DEF SelectMax, SeededOnce
    <3>2. PICK k \in 0..MaxBatches : rows = 1..Count(k)
      BY <3>1 DEF SeedAndBatches, Count
    <3>3. Count(k) \in Nat /\ Max(rows \cup {0}) = Count(k)
      <4>1. Count(k) \in Nat
        BY CountStep
      <4> QED BY <3>2, <4>1, MaxOfFirst
    <3>4. arrivals' = [arrivals EXCEPT !.at = "columns",
                                       !.first = Max(rows \cup {0}) + 1]
      BY <2>3 DEF SelectMax, BatchFails
    <3>5. arrivals \in [at : {"max", "columns", "copy"}, name : Names, first : Nat]
      BY <3>1 DEF TypeOK
    <3>6. arrivals' = [at |-> "columns", name |-> arrivals.name, first |-> Count(k) + 1]
      BY <3>3, <3>4, <3>5
    <3>7. arrivals.name \in Names /\ Count(k) + 1 \in Nat
      BY <3>3, <3>5
    <3> QED BY <3>6, <3>7
  <2>4. CASE ReadColumns
    BY <2>4 DEF ReadColumns, TypeOK
  <2> QED
    BY <2>1, <2>2, <2>3, <2>4
    DEF ArrivalsStep, StartArrivals, CopyBatch, BatchFails
<1> QED
  BY <1>0, <1>1, <1>2, <1>3 DEF TypeOK

LEMMA ArrivalsKeep ==
    ASSUME UpstreamAssumption, IInv, ArrivalsStep
    PROVE  IInv'
<1>1. UNCHANGED <<column, trigger>>
  BY DEF ArrivalsStep
<1>2. OneTriggerRenames' /\ RenamedMeansDrifted'
  BY <1>1 DEF IInv, OneTriggerRenames, RenamedMeansDrifted
<1> QED
  BY <1>2, ArrivalsKeepsType, ArrivalsKeepsRows, ArrivalsKeepsBatch DEF IInv

LEMMA FaultKeeps ==
    ASSUME UpstreamAssumption, IInv, ArrivalsFault
    PROVE  IInv'
<1> USE DEF IInv
<1>1. /\ UNCHANGED <<column, rows, seeder, trigger, extract, landing, stale, failures>>
      /\ arrivals.at # "stopped"
      /\ crashes' = crashes + 1 /\ crashes < MaxCrashes
      /\ holders' = holders \ {"arrivals"}
      /\ arrivals' = [at |-> "sleep", name |-> NULL, first |-> 0]
  BY DEF ArrivalsFault, ArrivalsDie, Sleep, extractVars
<1>2. TypeOK'
  <2>1. crashes' \in 0..MaxCrashes
    BY <1>1 DEF TypeOK, UpstreamAssumption
  <2>2. arrivals' \in [at : {"stopped", "sleep"}, name : {NULL}, first : {0}]
    BY <1>1
  <2> QED BY <1>1, <2>1, <2>2 DEF TypeOK
<1>3. arrivals'.at = "sleep"
  BY <1>1
<1> QED
  BY <1>1, <1>2, <1>3 DEF SeedAndBatches, BatchMatchesTheTable, OneTriggerRenames,
     SeededOnce, BatchInHand, RenamedMeansDrifted

LEMMA StutterKeeps == IInv /\ UNCHANGED vars => IInv'
BY DEF IInv, vars, arrivalsVars, extractVars, TypeOK, SeedAndBatches,
       BatchMatchesTheTable, OneTriggerRenames, SeededOnce, BatchInHand,
       RenamedMeansDrifted, MoreToCome

LEMMA NextIInv == UpstreamAssumption /\ IInv /\ [Next]_vars => IInv'
BY SeederKeeps, ArrivalsKeep, FaultKeeps, TriggerKeeps, ExtractKeeps, StutterKeeps
DEF Next

-----------------------------------------------------------------------------
\* What a batch may fail on: only a name read before the rename, so it was read
\* before anything failed.
NameInHand ==
    /\ failures <= 1
    /\ failures > 0 => column = "cust_id"
    /\ arrivals.at = "max" =>
         /\ arrivals.name = "cust_id" => column = "cust_id"
         /\ failures > 0 => arrivals.name = "cust_id"

\* A batch that holds the table is not refused.
LEMMA CopyIsTaken ==
    ASSUME UpstreamAssumption, IInv, arrivals.at = "copy"
    PROVE  arrivals.name = column /\ Batch \cap rows = {}
<1>1. arrivals.name = column /\ rows # {}
  BY DEF IInv, BatchMatchesTheTable, SeededOnce
<1>2. PICK k \in 0..MaxBatches : rows = 1..Count(k)
  BY <1>1 DEF IInv, SeedAndBatches, Count
<1>3. Count(k) \in Nat
  BY CountStep
<1>4. arrivals.first = Count(k) + 1
  BY <1>2 DEF IInv, BatchInHand
<1> QED
  BY <1>1, <1>2, <1>3, <1>4 DEF Batch, UpstreamAssumption

LEMMA NextNameInHand ==
    ASSUME UpstreamAssumption, IInv, NameInHand, [Next]_vars
    PROVE  NameInHand'
<1> USE DEF NameInHand
<1>1. CASE ArrivalsStep
  <2>0. column' = column /\ column \in Names /\ failures \in 0..2
    BY <1>1 DEF ArrivalsStep, IInv, TypeOK
  <2>1. CASE StartArrivals \/ ReadColumns
    <3>1. CASE StartArrivals
      BY <2>0, <3>1 DEF StartArrivals, Sleep
    <3>2. CASE ReadColumns
      BY <2>0, <3>2 DEF ReadColumns, IInv, TypeOK
    <3> QED BY <2>1, <3>1, <3>2
  <2>2. CASE ReadIdentifier
    <3>1. arrivals'.at = "max" /\ arrivals'.name = column /\ failures' = failures
      BY <2>2 DEF ReadIdentifier, IdentifierColumn, IInv, TypeOK
    <3> QED BY <2>0, <3>1
  <2>3. CASE SelectMax
    <3>1. arrivals.at = "max" /\ arrivals.name \in Names
      BY <2>3 DEF SelectMax, IInv, TypeOK
    <3>2. CASE arrivals.name = column
      <4>1. arrivals'.at = "columns" /\ failures' = failures
        BY <2>3, <3>1, <3>2 DEF SelectMax, IInv, TypeOK
      <4> QED BY <2>0, <4>1
    <3>3. CASE arrivals.name # column
      <4>1. arrivals'.at = "sleep" /\ failures' = IF failures = 0 THEN 1 ELSE 2
        BY <2>3, <3>3 DEF SelectMax, BatchFails, Sleep
      <4>2. failures = 0 /\ column = "cust_id"
        BY <2>0, <3>1, <3>3 DEF Names
      <4> QED BY <2>0, <4>1, <4>2
    <3> QED BY <3>2, <3>3
  <2>4. CASE CopyBatch
    <3>1. arrivals'.at = "sleep" /\ failures' = failures
      BY <2>4, CopyIsTaken DEF CopyBatch, Sleep
    <3> QED BY <2>0, <3>1
  <2> QED BY <1>1, <2>1, <2>2, <2>3, <2>4 DEF ArrivalsStep
<1>2. CASE ArrivalsFault
  <2>1. /\ UNCHANGED <<column, failures>>
        /\ arrivals'.at = "sleep"
    BY <1>2 DEF ArrivalsFault, ArrivalsDie, Sleep, extractVars
  <2> QED BY <2>1
<1>3. ASSUME NEW t \in Triggers, TriggerStep(t)
      PROVE  NameInHand'
  <2>1. UNCHANGED <<arrivals, failures>> /\ column' \in {column, "cust_id"}
    BY <1>3 DEF TriggerStep, LookForDrifted, LookForOriginal, Rename, Report,
                arrivalsVars
  <2> QED BY <2>1
<1>4. CASE SeederStep \/ ExtractStep \/ UNCHANGED vars
  BY <1>4 DEF SeederStep, ExtractStep, vars, arrivalsVars
<1> QED
  BY <1>1, <1>2, <1>3, <1>4 DEF Next

-----------------------------------------------------------------------------
\* What an extract may land under a past name: only what it was on its way with
\* when the rename came, and there is one rename.
ExtractInHand ==
    /\ stale <= 1
    /\ stale > 0 => column = "cust_id"
    /\ extract.at # "idle" =>
         /\ extract.name = "cust_id" => column = "cust_id"
         /\ stale > 0 => extract.name = "cust_id"

LEMMA NextExtractInHand ==
    ASSUME IInv, ExtractInHand, [Next]_vars
    PROVE  ExtractInHand'
<1> USE DEF ExtractInHand
<1>1. CASE ExtractStep
  <2>0. /\ column' = column /\ column \in Names /\ stale \in Nat
        /\ extract.at # "idle" => extract.name \in Names
    BY <1>1 DEF ExtractStep, IInv, TypeOK
  <2>1. CASE ReadSourceColumns
    <3>1. extract'.name = column /\ stale' = stale
      BY <2>1 DEF ReadSourceColumns, SourceColumns
    <3> QED BY <2>0, <3>1
  <2>2. CASE RebuildLanding
    <3>1. extract.at # "idle" /\ extract'.name = extract.name /\ stale' = stale
      BY <2>2 DEF RebuildLanding, IInv, TypeOK
    <3> QED BY <2>0, <3>1
  <2>3. CASE LandCopy
    <3>1. /\ extract.at # "idle" /\ extract'.at = "idle"
          /\ stale' = IF extract.name = column THEN stale ELSE stale + 1
      BY <2>3 DEF LandCopy
    <3>2. extract.name # column => column = "cust_id" /\ stale = 0
      BY <2>0, <3>1 DEF Names
    <3> QED BY <2>0, <3>1, <3>2
  <2>4. CASE ExtractFails
    BY <2>0, <2>4 DEF ExtractFails
  <2> QED BY <1>1, <2>1, <2>2, <2>3, <2>4 DEF ExtractStep
<1>2. ASSUME NEW t \in Triggers, TriggerStep(t)
      PROVE  ExtractInHand'
  <2>1. UNCHANGED <<extract, stale>> /\ column' \in {column, "cust_id"}
    BY <1>2 DEF TriggerStep, LookForDrifted, LookForOriginal, Rename, Report,
                extractVars
  <2> QED BY <2>1
<1>3. CASE SeederStep \/ ArrivalsStep \/ ArrivalsFault \/ UNCHANGED vars
  BY <1>3 DEF SeederStep, ArrivalsStep, ArrivalsFault, vars, extractVars
<1> QED
  BY <1>1, <1>2, <1>3 DEF Next

-----------------------------------------------------------------------------
\* The invariant the theorems below read their part from.
LEMMA Invariance == Spec => []IInv
BY InitIInv, NextIInv, UpstreamAssumption, PTL DEF Spec

\* Every variable holds a value of its kind, however long the upstream runs
\* (postgres/seed, scripts/drift.py).
THEOREM TypeCorrect == Spec => []TypeOK
<1>1. IInv => TypeOK
  BY DEF IInv
<1> QED BY <1>1, Invariance, PTL

\* Whatever dies, is started again or is renamed, the source holds the seed and
\* a whole number of batches (append_batch, generate_customers.py).
THEOREM CountsAreLegitimate == Spec => []SeedAndBatches
<1>1. IInv => SeedAndBatches
  BY DEF IInv
<1> QED BY <1>1, Invariance, PTL

\* A rename never comes between the columns a batch has read and its COPY
\* (copy_rows of db.py, rename of drift.py).
THEOREM RenameWaitsForTheBatch == Spec => []BatchMatchesTheTable
<1>1. IInv => BatchMatchesTheTable
  BY DEF IInv
<1> QED BY <1>1, Invariance, PTL

\* However many triggers race, one renames and reports (main of drift.py).
THEOREM OneRename == Spec => []OneTriggerRenames
<1>1. IInv => OneTriggerRenames
  BY DEF IInv
<1> QED BY <1>1, Invariance, PTL

\* A rename makes one batch fail at most (append_batch, db.py).
THEOREM FailsOnce == Spec => []OneBatchFails
<1>1. Init => NameInHand
  BY DEF Init, NameInHand
<1>2. IInv /\ NameInHand /\ [Next]_vars => NameInHand'
  BY NextNameInHand, UpstreamAssumption
<1>3. NameInHand => OneBatchFails
  BY DEF NameInHand, OneBatchFails
<1> QED BY <1>1, <1>2, <1>3, Invariance, PTL DEF Spec

\* One extract lands rows under a past name at most: the one that was on its
\* way when the rename came (extract_customers of elt_extract.py).
THEOREM LandsStaleOnce == Spec => []StaleNamesLandOnce
<1>1. Init => ExtractInHand
  BY DEF Init, ExtractInHand
<1>2. IInv /\ ExtractInHand /\ [Next]_vars => ExtractInHand'
  BY NextExtractInHand
<1>3. ExtractInHand => StaleNamesLandOnce
  BY DEF ExtractInHand, StaleNamesLandOnce
<1> QED BY <1>1, <1>2, <1>3, Invariance, PTL DEF Spec
=============================================================================
