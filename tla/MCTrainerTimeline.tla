-------------------------- MODULE MCTrainerTimeline --------------------------
(***************************************************************************)
(* A tickle block, whose roles alternate, and a dwell block; and one block *)
(* of static targets.                                                      *)
(***************************************************************************)
EXTENDS TrainerTimeline

TickleThenDwell == <<5, 14>>
OneStaticBlock  == <<0>>
=============================================================================
