---------------------------- MODULE MCSelfHealing ----------------------------
(* The demo's situation: the shipped text reads the original column, one    *)
(* candidate reads the renamed one, and another does so in other words.     *)
EXTENDS SelfHealing

CONSTANTS original, fixed, reworded

TwoTexts == {original, fixed}
ThreeTexts == {original, fixed, reworded}

MCBuildable ==
    [text \in ThreeTexts |->
        CASE text = original -> {"original"}
          [] text = fixed -> {"drifted"}
          [] text = reworded -> {"drifted"}]
BuildableOfTwo == [text \in TwoTexts |-> MCBuildable[text]]
=============================================================================
