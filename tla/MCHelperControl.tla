--------------------------- MODULE MCHelperControl ---------------------------
(***************************************************************************)
(* One reason of the worker's own beside the reasons the helper adds.      *)
(***************************************************************************)
EXTENDS HelperControl

MCReasons == {"queue_or_byte_loss"}
=============================================================================
