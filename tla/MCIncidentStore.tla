--------------------------- MODULE MCIncidentStore ---------------------------
(* IncidentStore on a small instance: one model, one content, texts outside *)
(* the known ones included among what writers attempt.                      *)
EXTENDS IncidentStore

MCStateTexts == States \cup {"escalated"}
MCFeedbackTexts == Feedbacks \cup {"shrug"}
=============================================================================
