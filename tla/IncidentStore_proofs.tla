------------------------ MODULE IncidentStore_proofs ------------------------
(***************************************************************************)
(* Proofs about the incident record under any writer, for every set of     *)
(* models, contents, reviews and texts and every number of incidents.      *)
(***************************************************************************)
EXTENDS IncidentStore, TLAPS

\* The states an incident has been in are determined by the one it is in.
Road ==
    [open |-> {"open"},
     proposed |-> {"open", "proposed"},
     approved |-> {"open", "proposed", "approved"},
     resolved |-> {"open", "proposed", "approved", "resolved"},
     rejected |-> {"open", "proposed", "rejected"},
     unfixable |-> {"open", "unfixable"},
     verification_failed |->
        {"open", "proposed", "approved", "verification_failed"}]

OnItsRoad == \A i \in DOMAIN incidents : seen[i] = Road[incidents[i].state]

\* Concluded rows, and no others, carry a conclusion time.
Timed ==
    \A i \in DOMAIN incidents :
       (incidents[i].state \in Terminal) = incidents[i].concluded

\* The inductive invariant: typing, one row in flight at most and that row the
\* newest, each row's history the road of its state, conclusion times set.
IInv == TypeOK /\ OnlyTheNewestIsInFlight /\ OnItsRoad /\ Timed

-----------------------------------------------------------------------------
\* What a row looks like after the triggers and checks let a statement by: it
\* is well typed and in the state the statement asked for.
LEMMA StampedRow ==
    ASSUME NEW old, NEW new \in Attempt, ChecksHold(Stamped(old, new)),
           StoreAssumption
    PROVE  /\ Stamped(old, new) \in Row
           /\ Stamped(old, new).state = new.state
           /\ new.state \in States
BY DEF Stamped, ChecksHold, Attempt, Row, Columns, StoreAssumption

\* An accepted move follows the road one step, or stays where it is; a row
\* that was not in flight stays out of flight.
LEMMA MoveFollowsRoad ==
    ASSUME NEW old \in Row, NEW new \in Attempt, new.state \in States,
           LifecycleAllows(old, new)
    PROVE  /\ Road[new.state] = Road[old.state] \cup {new.state}
           /\ old.state \in Terminal => new.state = old.state
<1>1. old.state \in States
  BY DEF Row, Columns
<1>2. CASE new.state = old.state
  BY <1>1, <1>2 DEF Road, States
<1>3. CASE old.state \notin Terminal /\ <<old.state, new.state>> \in LegalMoves
  BY <1>1, <1>3 DEF LegalMoves, Road, States, Terminal
<1> QED
  BY <1>2, <1>3 DEF LifecycleAllows

LEMMA InitIInv == Init => IInv
BY DEF Init, IInv, TypeOK, OnlyTheNewestIsInFlight, OnItsRoad, Timed,
       InFlight

\* Inserting a row keeps the invariant: the index refuses it while another row
\* is in flight, and the new row is the newest.
LEMMA InsertIInv ==
    ASSUME StoreAssumption, IInv, Insert
    PROVE  IInv'
<1>1. PICK row \in Attempt : /\ Inserted(incidents, row, incidents')
                             /\ seen' = Append(seen, {row.state})
  BY DEF Insert
<1>2. row.state = "open" /\ row \in Row
  BY <1>1 DEF Inserted, ChecksHold, Attempt, Row, Columns
<1>3. /\ incidents' = Append(incidents, row)
      /\ OneInFlight(incidents')
  BY <1>1 DEF Inserted
<1>4. TypeOK'
  BY <1>1, <1>2, <1>3 DEF IInv, TypeOK, States
<1>5. /\ Len(incidents') = Len(incidents) + 1
      /\ DOMAIN incidents' = 1..(Len(incidents) + 1)
      /\ incidents'[Len(incidents')] = row
      /\ \A i \in DOMAIN incidents : incidents'[i] = incidents[i]
  BY <1>2, <1>3 DEF IInv, TypeOK
<1>6. OnlyTheNewestIsInFlight'
  <2>1. Len(incidents') \in InFlight(incidents')
    BY <1>2, <1>5, <1>3 DEF InFlight, Terminal, IInv, TypeOK
  <2> QED
    BY <2>1, <1>3 DEF OneInFlight, OnlyTheNewestIsInFlight
<1>7. OnItsRoad'
  <2>1. seen'[Len(incidents')] = {row.state}
    BY <1>1, <1>5 DEF IInv, TypeOK
  <2>2. \A i \in DOMAIN incidents : seen'[i] = seen[i]
    BY <1>1 DEF IInv, TypeOK
  <2>3. Road[row.state] = {row.state}
    BY <1>2 DEF Road
  <2>4. \A i \in DOMAIN incidents' :
           i \in DOMAIN incidents \/ i = Len(incidents')
    BY <1>5 DEF IInv, TypeOK
  <2> QED
    BY <2>1, <2>2, <2>3, <2>4, <1>5 DEF IInv, OnItsRoad
<1>8. Timed'
  <2>1. (row.state \in Terminal) = row.concluded
    BY <1>1 DEF Inserted, ChecksHold
  <2> QED
    BY <2>1, <1>5 DEF IInv, TypeOK, Timed
<1> QED
  BY <1>4, <1>6, <1>7, <1>8 DEF IInv

\* Updating a row keeps the invariant: a terminal row cannot come back into
\* flight, and a legal move is one step along the road.
LEMMA UpdateIInv ==
    ASSUME StoreAssumption, IInv, NEW i \in DOMAIN incidents, Update(i)
    PROVE  IInv'
<1>1. PICK new \in Attempt : /\ Updated(incidents, i, new, incidents')
                             /\ seen' = [seen EXCEPT ![i] = @ \cup {new.state}]
  BY DEF Update
<1> DEFINE row == Stamped(incidents[i], new)
<1>2. /\ LifecycleAllows(incidents[i], new)
      /\ ChecksHold(row)
      /\ incidents' = [incidents EXCEPT ![i] = row]
  BY <1>1 DEF Updated
<1>3. row \in Row /\ row.state = new.state /\ new.state \in States
  BY <1>2, StampedRow
<1>4. incidents[i] \in Row
  BY DEF IInv, TypeOK
<1>5. /\ Road[new.state] = Road[incidents[i].state] \cup {new.state}
      /\ incidents[i].state \in Terminal => new.state = incidents[i].state
  BY <1>2, <1>3, <1>4, MoveFollowsRoad
<1> HIDE DEF row
<1>6. TypeOK'
  BY <1>1, <1>2, <1>3 DEF IInv, TypeOK
<1>7. /\ DOMAIN incidents' = DOMAIN incidents
      /\ Len(incidents') = Len(incidents)
      /\ incidents'[i] = row
      /\ \A j \in DOMAIN incidents : j # i => incidents'[j] = incidents[j]
  BY <1>2, <1>3 DEF IInv, TypeOK
<1>8. OnlyTheNewestIsInFlight'
  BY <1>3, <1>5, <1>7 DEF IInv, OnlyTheNewestIsInFlight, InFlight
<1>9. OnItsRoad'
  <2>1. /\ seen'[i] = seen[i] \cup {new.state}
        /\ \A j \in DOMAIN incidents : j # i => seen'[j] = seen[j]
    BY <1>1 DEF IInv, TypeOK
  <2>2. seen'[i] = Road[row.state]
    BY <2>1, <1>3, <1>5 DEF IInv, OnItsRoad
  <2> QED
    BY <2>1, <2>2, <1>7 DEF IInv, OnItsRoad
<1>10. Timed'
  <2>1. (row.state \in Terminal) = row.concluded
    BY <1>2 DEF ChecksHold
  <2> QED
    BY <2>1, <1>7 DEF IInv, Timed
<1> QED
  BY <1>6, <1>8, <1>9, <1>10 DEF IInv

LEMMA NextIInv ==
    ASSUME StoreAssumption, IInv, [Next]_vars
    PROVE  IInv'
<1>1. CASE Insert
  BY <1>1, InsertIInv
<1>2. CASE \E i \in DOMAIN incidents : Update(i)
  BY <1>2, UpdateIInv
<1>3. CASE UNCHANGED vars
  BY <1>3 DEF vars, IInv, TypeOK, OnlyTheNewestIsInFlight, OnItsRoad, Timed,
            InFlight
<1> QED
  BY <1>1, <1>2, <1>3 DEF Next

\* The inductive invariant holds in every reachable state of the record.
THEOREM Invariance == Spec => []IInv
<1>1. IInv /\ [Next]_vars => IInv'
  BY NextIInv, StoreAssumption
<1> QED
  BY <1>1, InitIInv, PTL DEF Spec

\* Whatever texts writers attempt, the stored rows are well typed.
THEOREM TypeCorrect == Spec => []TypeOK
<1>1. IInv => TypeOK
  BY DEF IInv
<1> QED
  BY <1>1, Invariance, PTL

\* Whoever writes the record, only its newest row can be in flight.
THEOREM NewestInFlight == Spec => []OnlyTheNewestIsInFlight
<1>1. IInv => OnlyTheNewestIsInFlight
  BY DEF IInv
<1> QED
  BY <1>1, Invariance, PTL

\* Whoever writes the record, no incident reaches an ending except along the
\* road of that ending: the approval gate cannot be walked round.
THEOREM RoadsFollowed == Spec => []EndingsFollowTheirRoad
<1>1. IInv => EndingsFollowTheirRoad
  BY DEF IInv, OnItsRoad, Road, EndingsFollowTheirRoad
<1> QED
  BY <1>1, Invariance, PTL

\* Whoever writes the record, a concluded incident is never moved again and its
\* conclusion time is never cleared.
THEOREM ConclusionsFinal == Spec => ConcludedStaysConcluded
<1> DEFINE Kept(i) == incidents[i].state \in Terminal =>
                        /\ i \in DOMAIN incidents'
                        /\ incidents'[i].state = incidents[i].state
                        /\ incidents'[i].concluded
<1>1. ASSUME StoreAssumption, IInv, [Next]_vars, NEW i \in DOMAIN incidents
      PROVE  Kept(i)
  <2>1. IInv'
    BY <1>1, NextIInv
  <2>2. i \in DOMAIN incidents'
        /\ (incidents[i].state \in Terminal =>
              incidents'[i].state = incidents[i].state)
    <3>1. CASE Insert
      <4>1. PICK row \in Attempt : incidents' = Append(incidents, row)
        BY <3>1 DEF Insert, Inserted
      <4> QED
        BY <4>1, <1>1 DEF IInv, TypeOK, Row, Attempt, Columns
    <3>2. CASE \E j \in DOMAIN incidents : Update(j)
      <4>1. PICK j \in DOMAIN incidents : Update(j)
        BY <3>2
      <4>2. PICK new \in Attempt : Updated(incidents, j, new, incidents')
        BY <4>1 DEF Update
      <4> DEFINE row == Stamped(incidents[j], new)
      <4>3. /\ incidents' = [incidents EXCEPT ![j] = row]
            /\ row.state = new.state /\ new.state \in States
            /\ LifecycleAllows(incidents[j], new)
        BY <4>2, <1>1, StampedRow DEF Updated
      <4>4. incidents[j].state \in Terminal => new.state = incidents[j].state
        BY <4>3, <1>1, MoveFollowsRoad DEF IInv, TypeOK
      <4> HIDE DEF row
      <4> QED
        BY <4>3, <4>4, <1>1 DEF IInv, TypeOK
    <3>3. CASE UNCHANGED vars
      BY <3>3, <1>1 DEF vars
    <3> QED
      BY <3>1, <3>2, <3>3, <1>1 DEF Next
  <2> QED
    BY <2>1, <2>2 DEF IInv, Timed
<1>2. StoreAssumption /\ IInv /\ [Next]_vars
        => [\A i \in DOMAIN incidents : Kept(i)]_vars
  BY <1>1
<1> QED
  BY <1>2, Invariance, StoreAssumption, PTL
     DEF Spec, ConcludedStaysConcluded
=============================================================================
