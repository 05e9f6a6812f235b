----------------------------- MODULE ProbeControl -----------------------------
(***************************************************************************)
(* The probe helper and what controls it: the elevated process that runs   *)
(* the probe and watches its parent, the files the two processes talk      *)
(* through (each made once, in a directory of the launch), and             *)
(* CertificationProbeClient, which the application calls.                  *)
(***************************************************************************)
EXTENDS CertificationProbe, Sequences

VARIABLES
  parent, \* the application's process runs
  files,  \* the control directory
  helper, \* the helper process
  client  \* CertificationProbeClient, "none" without one

controlVars == <<parent, files, helper, client>>

\* The ready file is written in place: it is "none", "partial" and then "whole". The
\* result is renamed from a temporary file.
NoFiles ==
  [made |-> FALSE, ready |-> "none", cancel |-> FALSE, temporary |-> FALSE,
   result |-> NoResult]

\* Where the helper is, if its exit code is 0, and what its loop has seen: a cancel, the
\* end of its parent, a failure of its own.
NoHelper ==
  [at |-> "none", zero |-> FALSE, cancelled |-> FALSE, orphan |-> FALSE, failed |-> FALSE]

\* The client's state, process_, ready_, result_, cancel_pending_ and cancel_written_.
NoClient ==
  [state |-> "none", handle |-> FALSE, ready |-> FALSE, result |-> NoResult,
   cancel |-> FALSE, written |-> FALSE]

HelperLives == helper.at \notin {"none", "exited"}

(***************************************************************************)
(* The helper: ProbeMain, with the probe on a thread of its own.           *)
(***************************************************************************)
HelperExits(zero) == helper' = [helper EXCEPT !.at = "exited", !.zero = zero]

\* It ends without a result: what its probe knew goes with the process.
HelperGivesUp(zero) == HelperExits(zero) /\ source' = NoSource /\ work' = NoWork

\* ValidatePaths, the parent and the digest of the configuration.
HelperBoots ==
  /\ helper.at = "boot" /\ UNCHANGED <<parent, files, client>>
  /\ \/ /\ parent /\ helper' = [helper EXCEPT !.at = "loop"]
        /\ work' = [NoWork EXCEPT !.at = "start"] /\ UNCHANGED source
     \/ HelperGivesUp(FALSE)

Probing == helper.at = "loop" /\ UNCHANGED controlVars

WorkerTurn     == Probing /\ WorkerMoves
WorkerProgress == Probing /\ WorkerSteps
ProbeMoves     == WorkerTurn \/ (Probing /\ (ReaderDelivers \/ ReaderEnds))

\* RequestStop of the source, past the worker.
StopsSource == source' = [source EXCEPT !.stop = TRUE]

InLoop == helper.at = "loop" /\ UNCHANGED <<parent, client>>

\* The source has started: the parent is told, once. An exception stops the probe.
HelperTellsReady ==
  /\ InLoop /\ UNCHANGED work /\ work.at # "start" /\ source.state # "idle"
  /\ work.reason # "source_start_failed"
  /\ \/ files.ready = "none" /\ files' = [files EXCEPT !.ready = "partial"]
           /\ UNCHANGED <<helper, source>>
     \/ files.ready = "partial" /\ ~helper.failed
           /\ files' = [files EXCEPT !.ready = "whole"] /\ UNCHANGED <<helper, source>>
     \/ files.ready = "partial" /\ ~helper.failed
           /\ helper' = [helper EXCEPT !.failed = TRUE] /\ StopsSource /\ UNCHANGED files

HelperSeesParentGone ==
  /\ InLoop /\ UNCHANGED work /\ ~parent /\ ~helper.orphan
  /\ helper' = [helper EXCEPT !.orphan = TRUE] /\ StopsSource /\ UNCHANGED files

HelperSeesCancel ==
  /\ InLoop /\ UNCHANGED work /\ files.cancel /\ ~helper.cancelled
  /\ helper' = [helper EXCEPT !.cancelled = TRUE] /\ StopsSource /\ UNCHANGED files

\* The probe is over: only a probe that was announced has a result to publish.
HelperLeavesLoop ==
  /\ InLoop /\ work.at = "done" /\ (files.ready = "partial" => helper.failed)
  /\ IF helper.orphan \/ helper.failed \/ files.ready # "whole"
       THEN HelperGivesUp(helper.orphan) /\ UNCHANGED files
       ELSE /\ helper' = [helper EXCEPT !.at = "result"]
            /\ files' = [files EXCEPT !.temporary = TRUE] /\ UNCHANGED probeVars

HelperPublishes ==
  /\ helper.at = "result" /\ UNCHANGED <<parent, client>>
  /\ \/ HelperGivesUp(FALSE) /\ files' = [files EXCEPT !.temporary = FALSE]
     \/ /\ HelperExits(TRUE) /\ UNCHANGED probeVars
        /\ files' = [files EXCEPT !.temporary = FALSE,
                       !.result = [ResultOf(work.taken, work.reason) EXCEPT !.told =
                                     IF helper.cancelled THEN "cancelled" ELSE "complete"]]

\* Someone ends it; the capture goes with the process.
HelperDies ==
  HelperLives /\ HelperGivesUp(FALSE) /\ UNCHANGED <<parent, files, client>>

HelperMoves ==
  HelperBoots \/ HelperTellsReady \/ HelperSeesParentGone \/ HelperSeesCancel
    \/ HelperLeavesLoop \/ HelperPublishes

(***************************************************************************)
(* The client.                                                             *)
(***************************************************************************)
\* ObserveFiles of a client c: a ready file that is not whole yet ends the look.
Cut(c) == ~c.ready /\ files.ready = "partial"

Observing(c) ==
  LET ready == c.ready \/ files.ready = "whole"
  IN IF ~files.made \/ Cut(c) THEN c
     ELSE [c EXCEPT !.ready = ready,
                    !.state = IF ready /\ @ = "starting" THEN "running" ELSE @,
                    !.written = @ \/ (ready /\ c.cancel),
                    !.result = IF ready /\ @ = NoResult THEN files.result ELSE @]

Cancelling(c) == [files EXCEPT !.cancel = @ \/ (files.made /\ Observing(c).written)]

\* Mutant: it is called before the process is closed, and returns.
CleanedControlsEarly == files

\* CleanupControls: a directory that holds a stranger's file stays.
CleanedControls == [NoFiles EXCEPT !.temporary = files.temporary]

\* FinishExited: a result counts with an exit code of 0.
FinishExited(c) ==
  [c EXCEPT !.handle = FALSE,
            !.state = IF c.result = NoResult \/ ~helper.zero THEN "failed"
                      ELSE IF c.result.told = "cancelled" THEN "cancelled" ELSE "completed"]

\* Start, which returns once Windows has asked for permission and the participant
\* has answered.
StartsProbe ==
  /\ client' = [NoClient EXCEPT !.state = "starting", !.handle = TRUE]
  /\ files' = [NoFiles EXCEPT !.made = TRUE]
  /\ helper' = [NoHelper EXCEPT !.at = "boot"]
  /\ source' = NoSource /\ work' = NoWork

\* RequestCancel; a client whose process has ended keeps what it says.
RequestsCancel ==
  LET asked == [client EXCEPT !.cancel = TRUE, !.state = "cancel_requested"]
  IN IF ~client.handle THEN UNCHANGED <<client, files>>
     ELSE client' = Observing(asked) /\ files' = Cancelling(asked)
=============================================================================
