------------------------------ MODULE MCEpochs ------------------------------
(* A mint epoch and a stride epoch, started at different times; blocks one  *)
(* or two units apart, or after a halt of more than an epoch.               *)
EXTENDS Mint

MCIds == {"mint", "stride"}
MCStartTime == [id \in MCIds |-> IF id = "mint" THEN 0 ELSE 1]
MCDuration == [id \in MCIds |-> IF id = "mint" THEN 5 ELSE 7]
MCProportions == <<28, 19, 42, 11>>
=============================================================================
