--------------------------- MODULE IncidentSchema ---------------------------
(***************************************************************************)
(* What the warehouse enforces about a row of ops.incidents, whoever       *)
(* writes it: the CHECK constraints, the two lifecycle triggers, the judge *)
(* feedback trigger and the partial unique index of                        *)
(* postgres/init/03-incident-store.sql and postgres/init/05-judge-review.sh*)
(*                                                                         *)
(* The operators read a row only through the columns a constraint reads,   *)
(* so they apply as well to rows that carry more columns.                  *)
(***************************************************************************)
EXTENDS Naturals, Sequences, SqlNull

States == {"open", "proposed", "approved", "resolved", "rejected",
           "unfixable", "verification_failed"}

Terminal == {"resolved", "rejected", "unfixable", "verification_failed"}

Feedbacks == {"agree", "partly_agree", "disagree"}

\* Mutated: an approval straight from the diagnosis.
LegalMoves_SkipsTheGate ==
    ({"open"} \X {"proposed", "unfixable", "approved"})
        \cup ({"proposed"} \X {"approved", "rejected"})
        \cup ({"approved"} \X {"resolved", "verification_failed"})

\* The transitions between two different states the lifecycle trigger lets by.
LegalMoves ==
    ({"open"} \X {"proposed", "unfixable"})
        \cup ({"proposed"} \X {"approved", "rejected"})
        \cup ({"approved"} \X {"resolved", "verification_failed"})

\* Mutated: a failed verification may be tried again.
LifecycleAllows_Retries(old, new) ==
    \/ new.state = old.state
    \/ <<old.state, new.state>> \in
          LegalMoves \cup {<<"verification_failed", "approved">>}

LifecycleAllows(old, new) ==
    \/ new.state = old.state
    \/ old.state \notin Terminal /\ <<old.state, new.state>> \in LegalMoves

\* The judge feedback trigger compares the row as it was with the row as the
\* statement would leave it.
FeedbackAllows(old, new) ==
    (/\ old.state = "proposed"
     /\ new.state \in {"approved", "rejected"}
     /\ new.judge_review = "completed") => new.judge_feedback # NULL

\* A move to a terminal state stamps the row unless the statement already did.
\* concluded says whether concluded_at is not null.
Stamped(old, new) ==
    IF new.state # old.state /\ new.state \in Terminal
      THEN [new EXCEPT !.concluded = TRUE]
      ELSE new

\* Mutated: judge_feedback is a column without a check.
ChecksHold_AnyFeedback(row) ==
    /\ row.state \in States
    /\ row.state \in {"open", "unfixable"}
          \/ (row.target_model_path # NULL /\ row.model_contents_after # NULL)
    /\ (row.state \in Terminal) = row.concluded

\* The CHECK constraints of the table, judge_feedback's included.
ChecksHold(row) ==
    /\ row.state \in States
    /\ row.state \in {"open", "unfixable"}
          \/ (row.target_model_path # NULL /\ row.model_contents_after # NULL)
    /\ (row.state \in Terminal) = row.concluded
    /\ row.judge_feedback = NULL \/ row.judge_feedback \in Feedbacks

InFlight(table) == {i \in DOMAIN table : table[i].state \notin Terminal}

\* Mutated: the index covers what awaits a decision and nothing else.
OneInFlight_ProposedOnly(table) ==
    \A i, j \in InFlight(table) :
       table[i].state = "proposed" /\ table[j].state = "proposed" => i = j

\* incidents_only_one_in_flight, as a predicate on the table.
OneInFlight(table) == \A i, j \in InFlight(table) : i = j

\* An INSERT the store accepts: incidents_start_open, the checks, the index.
Inserted(table, row, after) ==
    /\ row.state = "open"
    /\ ChecksHold(row)
    /\ after = Append(table, row)
    /\ OneInFlight(after)

\* An UPDATE of row i the store accepts: the BEFORE UPDATE triggers, then the
\* checks on the row as stored, then the index.
Updated(table, i, new, after) ==
    /\ FeedbackAllows(table[i], new)
    /\ LifecycleAllows(table[i], new)
    /\ ChecksHold(Stamped(table[i], new))
    /\ after = [table EXCEPT ![i] = Stamped(table[i], new)]
    /\ OneInFlight(after)
=============================================================================
