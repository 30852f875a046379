------------------------------ MODULE SmokeTest ------------------------------
(***************************************************************************)
(* smoke-tests.sh as a writer of the incident record: while the agent is   *)
(* running it closes an approved incident, puts a known-good fix on        *)
(* whatever is in flight and approves that.  Each psql call commits on its *)
(* own.                                                                    *)
(***************************************************************************)
EXTENDS IncidentClients

CONSTANTS
    Corrected,  \* the known-good text the script prepares
    SmokeRuns   \* how many times the script is run, 0 or 1

VARIABLE smoke  \* the next statement of the script

SmokeInit == smoke = IF SmokeRuns = 0 THEN "done" ELSE "close_approved"

Approved == {i \in DOMAIN incidents : incidents[i].state = "approved"}

CloseApproved ==
    /\ smoke = "close_approved"
    /\ \/ \E i \in Approved : Conclude(i, "verification_failed")
       \/ Approved = {} /\ UNCHANGED incidents
    /\ smoke' = "count"

\* The count decides whether a row is inserted, two statements later.
CountInFlight ==
    /\ smoke = "count"
    /\ smoke' = IF At(Current, "open") \/ At(Current, "proposed")
                  THEN "overwrite" ELSE "insert"
    /\ UNCHANGED incidents

\* The index refuses the row when the agent opened an incident meanwhile.
InsertIncident(run) ==
    /\ smoke = "insert"
    /\ \/ Len(incidents) < MaxIncidents /\ OpenIncident(run, "other")
       \/ Current # 0 /\ UNCHANGED incidents
    /\ smoke' = "overwrite"

Overwrite(before) ==
    /\ smoke = "overwrite"
    /\ \/ Current # 0 /\ OverwriteProposal(Current, before, Corrected)
       \/ /\ ~At(Current, "open") /\ ~At(Current, "proposed")
          /\ UNCHANGED incidents
    /\ smoke' = "approve"

\* Refused when the agent proposed meanwhile and its review was completed.
Approve ==
    LET granted == [incidents[Current] EXCEPT !.state = "approved"]
    IN /\ smoke = "approve"
       /\ \/ At(Current, "proposed") /\ Updated(incidents, Current, granted, incidents')
          \/ ~At(Current, "proposed") /\ UNCHANGED incidents
          \/ /\ At(Current, "proposed")
             /\ ~FeedbackAllows(incidents[Current], granted)
             /\ UNCHANGED incidents
       /\ smoke' = "done"
=============================================================================
