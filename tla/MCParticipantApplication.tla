---------------------- MODULE MCParticipantApplication ----------------------
(***************************************************************************)
(* A run of one target over a helper that may be lost at any time.         *)
(***************************************************************************)
EXTENDS ParticipantApplication
=============================================================================
