--------------------------- MODULE CaptureControl ---------------------------
(***************************************************************************)
(* The capture side as the recording session sees it: what the snapshots   *)
(* of an IRecordingCaptureControl say over time, and the files the capture *)
(* helper leaves. The helper runs on its own: its steps fall between any   *)
(* two calls of the session.                                               *)
(***************************************************************************)
EXTENDS Naturals

CONSTANT CaptureFaults  \* the fatal issues the helper may report

(***************************************************************************)
(* FailurePolicy: the issues and what each one asks for.                   *)
(***************************************************************************)
CaptureLossIssues == {"capture_helper_lost", "selected_device_changed",
                      "native_queue_overflow", "capture_bytes_discarded",
                      "pcap_framing_lost"}
DestructiveIssues == CaptureLossIssues \cup {"storage_write_failed", "integrity_failed"}

\* The issues that pause the trainer, other than the two that report focus.
InterruptionIssues == {"display_changed", "graphics_device_lost", "system_suspend",
                       "gameplay_input_unavailable"}

ASSUME CaptureAssumption == CaptureFaults \subseteq DestructiveIssues

\* What the helper itself found wrong, as opposed to how it ended: it then keeps
\* its authoritative file partial.
ObservedFaults == DestructiveIssues \ {"capture_helper_lost", "storage_write_failed"}

VARIABLE capture

Capture ==
  [ready        : BOOLEAN,
   running      : BOOLEAN,
   stopAsked    : BOOLEAN,
   stopComplete : BOOLEAN,   \* the helper finished all publication work
   clean        : BOOLEAN,   \* clean_stop
   fatal        : CaptureFaults \cup {"capture_helper_lost", "none"},
   pcap         : {"partial", "published", "recovered", "unverified"},
   records      : BOOLEAN,   \* the device PCAP holds at least one record
   derivative   : {"open", "given_up", "published", "set_aside"}]

CaptureInit ==
  capture = [ready |-> FALSE, running |-> TRUE, stopAsked |-> FALSE,
             stopComplete |-> FALSE, clean |-> FALSE, fatal |-> "none",
             pcap |-> "partial", records |-> FALSE, derivative |-> "open"]

\* The first snapshot that says ready: the certified device is open and raw capture
\* is writable. What happened since it was opened comes with it.
CaptureBecomesReady ==
  /\ capture.running /\ ~capture.ready /\ capture.fatal = "none"
  /\ \E issue \in CaptureFaults \cup {"capture_helper_lost", "none"}, some \in BOOLEAN,
        kept \in {"open", "given_up"} :
       capture' = [capture EXCEPT !.ready = TRUE, !.fatal = issue, !.records = some,
                                  !.derivative = kept]

CaptureRecords ==
  /\ capture.running /\ capture.ready /\ ~capture.records
  /\ capture' = [capture EXCEPT !.records = TRUE]

\* DisableReportStream, DisableAnomalyJournal: the helper gives a derivative up and
\* goes on; its partial file stays where it is.
DerivativeGivenUp ==
  /\ capture.running /\ capture.ready /\ capture.derivative = "open"
  /\ capture' = [capture EXCEPT !.derivative = "given_up"]

\* The helper names a fatal reason while it still runs; a later one may replace it.
\* One that could not be proven exited by its stop deadline (shutdown_failed) counts
\* as lost, and as running.
CaptureFaultReported ==
  /\ capture.running /\ capture.ready
  /\ \E issue \in CaptureFaults \cup {"capture_helper_lost"} :
       capture' = [capture EXCEPT !.fatal = issue]

\* The helper ends after a fault, or is lost without having named one; what is not
\* published yet stays partial. Only then may its publication remain unfinished.
CaptureFails ==
  /\ capture.running
  /\ \E issue \in CaptureFaults \cup {"capture_helper_lost"},
        finished \in BOOLEAN, file \in {"partial", "published"},
        rest \in {capture.derivative, "published"} :
       /\ file = "published" => issue \notin ObservedFaults
       /\ rest = "published" => file = "published" /\ capture.derivative = "open"
       /\ capture' = [capture EXCEPT !.running = FALSE, !.stopComplete = finished,
                                     !.fatal = issue, !.pcap = file,
                                     !.derivative = rest]

\* A stop that was asked for ends clean and published, unless a fault was seen.
\* The last health status may be stale, and the stop then does not count as clean.
CaptureStops ==
  /\ capture.running /\ capture.stopAsked /\ capture.fatal = "none"
  /\ \E fresh \in BOOLEAN, kept \in {capture.derivative, "given_up"} :
       capture' = [capture EXCEPT
         !.running = FALSE, !.stopComplete = TRUE, !.clean = fresh,
         !.pcap = "published",
         !.derivative = IF kept = "open" THEN "published" ELSE kept]

CaptureEnds == CaptureFails \/ CaptureStops

CaptureStep ==
  \/ CaptureBecomesReady \/ CaptureRecords \/ DerivativeGivenUp
  \/ CaptureFaultReported \/ CaptureEnds

(***************************************************************************)
(* RequestStop, and what the session may do to the files once the helper   *)
(* is gone.                                                                *)
(***************************************************************************)
Stopped(c) == [c EXCEPT !.stopAsked = TRUE]

CaptureAsked == capture' = Stopped(capture)

\* The contract that an IRecordingCaptureControl keeps.
CaptureSpec == CaptureInit /\ [][CaptureStep \/ CaptureAsked]_capture

\* RecoverCapturePrefix: a published file is kept; a partial one is published up
\* to its last whole record, or set aside when nothing of it can be verified. No
\* partial file remains.
RecoverCapturePrefix ==
  \E file \in IF capture.pcap = "partial" THEN {"recovered", "unverified"}
                                            ELSE {capture.pcap},
     some \in IF capture.pcap = "partial" THEN {FALSE, capture.records}
                                            ELSE {capture.records},
     rest \in IF capture.derivative \in {"open", "given_up"}
                 THEN {"published", "set_aside"} ELSE {capture.derivative} :
    capture' = [capture EXCEPT !.pcap = file, !.records = some, !.derivative = rest]

\* ValidateDevicePcap counts the records again; there are none without a file.
HasRecords(c) == c.pcap \in {"published", "recovered"} /\ c.records

\* InventoryArtifacts refuses a directory with an unfinished artifact.
NoPartialArtifact(c) == c.pcap # "partial" /\ c.derivative \notin {"open", "given_up"}
=============================================================================
