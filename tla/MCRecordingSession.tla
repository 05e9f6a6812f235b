------------------------- MODULE MCRecordingSession -------------------------
(***************************************************************************)
(* One block or two of a few events. An overflow, which the session reads   *)
(* off a counter, and a write failure of the helper, which is no capture    *)
(* loss of its own, stand for the issues a helper can report.               *)
(***************************************************************************)
EXTENDS RecordingSession

MCFaults == {"native_queue_overflow", "storage_write_failed"}
=============================================================================
