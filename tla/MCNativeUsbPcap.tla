--------------------------- MODULE MCNativeUsbPcap ---------------------------
(***************************************************************************)
(* The capture object on its own, against any client: four bytes of        *)
(* traffic, reads of two bytes and a queue of three, so that a chunk can   *)
(* fill the queue, fit it exactly or overflow it.                          *)
(***************************************************************************)
EXTENDS NativeUsbPcap
=============================================================================
