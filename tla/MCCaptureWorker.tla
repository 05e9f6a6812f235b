--------------------------- MODULE MCCaptureWorker ---------------------------
(***************************************************************************)
(* The capture worker over short streams: two records with reports, and    *)
(* ways a stream can be refused: by its record, by the length of one and   *)
(* by its header. Units have two bytes and reads take up to three, so      *)
(* chunks cut records anywhere.                                            *)
(***************************************************************************)
EXTENDS CaptureWorker

MCStreams == {<<"header", "mouse", "noted">>,
              <<"header", "foreign">>,
              <<"header", "badLength">>,
              <<"badHeader">>}

\* Streams without a fault, and with one right after whole records.
CleanStreams == {<<"header", "mouse">>}
FaultStreams == {<<"header", "mouse", "badLength">>}
=============================================================================
