---------------------------- MODULE MCReactLoop ----------------------------
(* ReactLoop with two look-ups of one skill and one write.                 *)
EXTENDS ReactLoop, TLC

CONSTANTS look1, look2, write

MCSkillOf == look1 :> "lookup" @@ look2 :> "lookup" @@ write :> "files"
MCRisk == look1 :> "low" @@ look2 :> "low" @@ write :> "high"
=============================================================================
