------------------------------- MODULE SqlNull -------------------------------
(* The null that stands for a column, an answer or a field without a value. *)
CONSTANT NULL
=============================================================================
