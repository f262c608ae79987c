--------------------------- MODULE MCWalkingAgent ---------------------------
(***************************************************************************)
(* WalkingAgent with a light and a heavy executor model.                   *)
(***************************************************************************)
EXTENDS WalkingAgent

TwoModels == {"light", "heavy"}

=============================================================================
