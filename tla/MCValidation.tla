----------------------------- MODULE MCValidation -----------------------------
(* Validation for TLC.  A corrected staging text reads the drifted landing   *)
(* table; a narrowed one does too, but no longer feeds the shipped mart.     *)
EXTENDS Validation

CONSTANTS shipped, corrected, narrowed, dim, widened

MCStaging == {shipped, corrected, narrowed}
MCMarts == {dim, widened}
MCShipped == [staging |-> shipped, marts |-> dim]
MCFits ==
    [t \in MCStaging |-> IF t = shipped THEN {"original"} ELSE {"drifted"}]
MCFeeds ==
    [t \in MCMarts |-> IF t = dim THEN {shipped, corrected} ELSE MCStaging]
=============================================================================
