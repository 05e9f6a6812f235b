-------------------------- MODULE RecordingSession --------------------------
(***************************************************************************)
(* The recording session: the one owner of the trainer, the journals and   *)
(* the capture control from the start of a run to its sealed result. The   *)
(* participant application calls it from one thread, in any order; the     *)
(* capture helper's steps and disk faults fall between the calls.          *)
(***************************************************************************)
EXTENDS TrainerEngine, CaptureControl

VARIABLES
  state,            \* state_
  trainer,          \* trainer_
  focused, minimized,
  requestedStatus,  \* requested_status_
  recover,          \* recover_capture_prefix_
  stopReason,       \* stop_reason_, "none" while there is none
  stopForwarded,    \* stop_forwarded_
  storageFailed,    \* storage_failed_
  fatalObserved,    \* capture_fatal_observed_
  warned,           \* warning_count_ is not zero
  drained,          \* the finalized events and blocks handed to the journal
  broken,           \* a journal's stream failed: it never writes again
  disk,             \* environment: "ok", or "failing" when any write may fail
  result            \* what was sealed

stopVars    == <<requestedStatus, recover, stopReason, stopForwarded, storageFailed, broken>>
focusVars   == <<focused, minimized>>
sessionVars == <<state, trainer, focusVars, stopVars, fatalObserved, warned,
                 drained, disk, result, capture>>

Open   == {"awaiting_capture_ready", "recording", "paused"}
Closed == {"finalized", "finalization_failed"}
Requests    == {"complete", "interrupted", "capture_lost"}
Statuses    == Requests \cup {"complete_with_warnings"}
StopReasons == {"none", "participant_completed", "participant_stopped", "issue",
                "storage_write_failed", "runtime_integrity_failed",
                "capture_stop_request_failed", "capture_stop_not_clean",
                "authoritative_capture_not_published"}
Counts == [events : 0..MaxEvents, blocks : 0..Blocks]
Sealed == [status : Statuses, recovered : BOOLEAN, verified : BOOLEAN]
None   == [status |-> "none", recovered |-> FALSE, verified |-> FALSE]

Focused == focused /\ ~minimized

(***************************************************************************)
(* The journal. Draining hands over what the trainer has finalized since   *)
(* the last time; a record that fails validation is left out with a        *)
(* warning, a write fault leaves any part of the rest undrained.           *)
(***************************************************************************)
Finalized(t) == [events |-> t.events, blocks |-> t.blocks]

Between(a, b) == {c \in Counts : /\ a.events <= c.events /\ c.events <= b.events
                                 /\ a.blocks <= c.blocks /\ c.blocks <= b.blocks}

\* DrainFinalizedTrainerRecords, with the warnings there were before it.
Drain(t, before) ==
  /\ drained' = Finalized(t)
  /\ warned' \in IF drained = Finalized(t) THEN {before} ELSE {before, TRUE}

(***************************************************************************)
(* Stopping.                                                               *)
(***************************************************************************)
\* The stop reaches the capture once.
ForwardStop ==
  /\ stopForwarded' = TRUE
  /\ capture' = IF stopForwarded THEN capture ELSE Stopped(capture)

\* RequestStop may throw after the helper was asked.
StopThrows == IF stopForwarded THEN {FALSE} ELSE BOOLEAN

\* HandleStorageFailure: a write failed when the trainer was t and the journal had
\* reached a point between drained and upto. The trainer is paused without a
\* drain, and an exception of the stop request is swallowed.
HandleStorageFailure(t, upto) ==
  /\ disk = "failing" /\ ~storageFailed
  /\ storageFailed' = TRUE /\ warned' = TRUE /\ recover' = TRUE
  /\ requestedStatus' = "interrupted" /\ stopReason' = "storage_write_failed"
  /\ trainer' = PauseInternal(t, "manual_pause")
  /\ drained' \in Between(drained, upto)
  /\ broken' \in {broken, TRUE}
  /\ state' = "stop_requested" /\ ForwardStop

\* HandleIntegrityFailure: a logic error came out of the trainer.
HandleIntegrityFailure(t) ==
  \/ /\ warned' = TRUE /\ recover' = TRUE
     /\ \E throws \in StopThrows :
          /\ requestedStatus' = IF throws THEN "capture_lost" ELSE "interrupted"
          /\ stopReason' = IF throws THEN "capture_stop_request_failed"
                                     ELSE "runtime_integrity_failed"
     /\ state' = "stop_requested" /\ ForwardStop /\ trainer' = t
     /\ UNCHANGED <<drained, storageFailed, broken>>
  \/ HandleStorageFailure(t, drained)

\* Mutant: the stop never reaches the capture.
BeginStopSilently(status, reason, recovery, t, upto, before) ==
  /\ requestedStatus' = status /\ recover' = recovery /\ stopReason' = reason
  /\ LET u == PauseInternal(t, "manual_pause")
     IN /\ trainer' = u /\ drained' = IF t.state \in Running THEN Finalized(u) ELSE upto
  /\ warned' = before /\ state' = "stop_requested"
  /\ UNCHANGED <<storageFailed, broken, stopForwarded, capture>>

\* BeginStop, with the journal at upto. A running trainer is paused and its
\* interrupted event drained. A session that is already stopping only lets capture
\* loss take over, and adds the need for recovery.
BeginStop(status, reason, recovery, t, upto, before) ==
  LET stopping == state = "stop_requested"
      lost     == status = "capture_lost"
      u        == IF stopping THEN t ELSE PauseInternal(t, "manual_pause")
      journal  == IF t.state \in Running /\ ~stopping THEN Finalized(u) ELSE upto
  IN /\ \E throws \in StopThrows, excluded \in BOOLEAN :
          /\ excluded => journal # drained
          /\ requestedStatus' = IF throws THEN "capture_lost"
                                ELSE IF stopping /\ ~lost THEN requestedStatus ELSE status
          /\ recover' = (throws \/ recovery \/ (stopping /\ recover))
          /\ stopReason' = IF throws THEN "capture_stop_request_failed"
                           ELSE IF stopping /\ ~lost THEN stopReason ELSE reason
          /\ warned' = (before \/ throws \/ excluded)
     /\ trainer' = u /\ drained' = journal
     /\ state' = "stop_requested" /\ ForwardStop
     /\ UNCHANGED <<storageFailed, broken>>

\* BeginDestructiveStop: annotate, then stop with recovery.
BeginDestructiveStop(issue) ==
  LET status == IF issue \in CaptureLossIssues THEN "capture_lost" ELSE "interrupted"
  IN \E t \in AdvanceTo(trainer) :
       \/ BeginStop(status, "issue", TRUE, t, drained, TRUE)
       \/ HandleStorageFailure(t, Finalized(PauseInternal(t, "manual_pause")))

\* What ObserveCapture would act on. A session that is stopping and will recover
\* the prefix anyway does not look any more. A reported overflow is looked at
\* through its counter, every other fatal issue once.
CaptureProblem ==
  LET looks == state \notin Closed /\ ~(state = "stop_requested" /\ recover)
      named == /\ capture.fatal # "none"
               /\ capture.fatal = "native_queue_overflow" \/ ~fatalObserved
      gone  == /\ state \in {"recording", "paused"} /\ ~stopForwarded
               /\ ~capture.running /\ ~capture.stopComplete
  IN IF looks /\ named THEN capture.fatal
     ELSE IF looks /\ gone THEN "capture_helper_lost" ELSE "none"

\* Every call but ReportIssue, AddClockAnchor and RequestParticipantStop begins
\* with this, and does nothing else when it finds a problem: it is a step of its
\* own here, and those calls are guarded by its finding none.
ObserveCapture ==
  /\ CaptureProblem # "none" /\ BeginDestructiveStop(CaptureProblem)
  /\ fatalObserved' = (fatalObserved \/ CaptureProblem # "native_queue_overflow")
  /\ UNCHANGED <<focusVars, disk, result>>

(***************************************************************************)
(* Calls of a running session.                                             *)
(***************************************************************************)
\* A call that stops nothing leaves the trainer at t, drained, in state next.
Goes(t, next, before) ==
  /\ trainer' = t /\ state' = next /\ Drain(t, before)
  /\ UNCHANGED <<stopVars, capture>>

\* A call that may have completed the run.
GoesOrCompletes(t, next) ==
  IF t.state = "complete"
    THEN BeginStop("complete", "participant_completed", FALSE, t, Finalized(t), warned)
    ELSE Goes(t, next, warned)

PausedOr(t) == IF t.state = "paused" THEN "paused" ELSE "recording"

\* The journal, its checkpoint or the manifest failed during a call.
StorageFails(t) == HandleStorageFailure(t, Finalized(t))

Call == /\ CaptureProblem = "none" /\ UNCHANGED <<fatalObserved, disk, result>>

TryStart ==
  /\ Call /\ state = "awaiting_capture_ready"
  /\ capture.ready /\ capture.running /\ capture.fatal = "none" /\ Focused
  /\ LET t == StartTrainer(trainer)
     IN Goes(t, "recording", warned) \/ StorageFails(t)
  /\ UNCHANGED focusVars

AdvanceSession ==
  /\ Call /\ state \in {"recording", "paused"}
  /\ \E t \in AdvanceTo(trainer) : GoesOrCompletes(t, PausedOr(t)) \/ StorageFails(t)
  /\ UNCHANGED focusVars

\* A packet of the selected mouse; a paused session does not pass it on.
SubmitPacket ==
  /\ Call /\ state = "recording"
  /\ \E t \in SubmitRawInput(trainer) : GoesOrCompletes(t, state) \/ StorageFails(t)
  /\ UNCHANGED focusVars

PresentTarget ==
  /\ Call /\ state = "recording"
  /\ trainer.state \in {"awaiting_presentation", "event_active"}
  /\ \E t \in AcknowledgeTargetPresented(trainer) : Goes(t, state, warned) \/ StorageFails(t)
  /\ UNCHANGED focusVars

\* Mutant: the trainer is told the raw focus, whether minimized or not.
SetRawFocus(focus, mini) ==
  /\ Call /\ state \in Open /\ <<focus, mini>> # focusVars
  /\ focused' = focus /\ minimized' = mini
  /\ IF trainer.state = "idle" \/ focused = focus
       THEN UNCHANGED <<trainer, state, drained, warned, stopVars, capture>>
       ELSE \E t \in SetFocused(trainer, focus) : Goes(t, PausedOr(t), warned)

\* A trainer that has started is told when the effective focus changes.
SetFocus(focus, mini) ==
  LET is == focus /\ ~mini
  IN /\ Call /\ state \in Open /\ <<focus, mini>> # focusVars
     /\ \/ /\ focused' = focus /\ minimized' = mini
           /\ IF trainer.state = "idle" \/ Focused = is
                THEN \/ UNCHANGED <<trainer, state, drained, warned, stopVars, capture>>
                     \/ \E t \in AdvanceTo(trainer) : HandleStorageFailure(t, drained)
                ELSE \E t \in SetFocused(trainer, is) :
                       Goes(t, PausedOr(t), warned) \/ StorageFails(t)
        \/ /\ \E t \in AdvanceTo(trainer) : HandleStorageFailure(t, drained)
           /\ UNCHANGED focusVars

ManualPause ==
  /\ Call /\ state = "recording"
  /\ \E t \in PauseForTechnicalInterruption(trainer, "manual_pause") :
       Goes(t, "paused", warned) \/ StorageFails(t)
  /\ UNCHANGED focusVars

\* ManualResume and every automatic resume. The trainer throws when it is not paused;
\* otherwise there is nothing to drain.
ResumeAfterRecoverableIssue ==
  /\ Call /\ state = "paused" /\ Focused
  /\ \E t \in AdvanceTo(trainer) :
       IF CanResume(t)
         THEN LET u == StartResumeCountdown(t)
              IN Goes(u, "recording", warned) \/ HandleStorageFailure(u, drained)
         ELSE HandleIntegrityFailure(t)
  /\ UNCHANGED focusVars

(***************************************************************************)
(* Calls that do not look at the capture first.                            *)
(***************************************************************************)
NoLook == UNCHANGED <<focusVars, fatalObserved, disk, result>>

\* ReportIssue of an interruption: pauses a recording session, and is only
\* annotated in any other.
ReportInterruption(issue) ==
  /\ NoLook /\ state \notin Closed
  /\ IF state = "recording"
       THEN \E t \in PauseForTechnicalInterruption(trainer, issue) :
              Goes(t, "paused", TRUE) \/ StorageFails(t)
       ELSE \/ /\ warned' = TRUE
               /\ UNCHANGED <<trainer, state, drained, stopVars, capture>>
            \/ \E t \in AdvanceTo(trainer) : HandleStorageFailure(t, drained)

\* ReportIssue of a diagnostic: an annotation.
ReportDiagnostic ==
  /\ NoLook /\ state \in Open
  /\ \/ warned' = TRUE /\ UNCHANGED <<trainer, state, drained, stopVars, capture>>
     \/ \E t \in AdvanceTo(trainer) : HandleStorageFailure(t, drained)

\* The one destructive issue the application itself reports: too little free space.
ReportStorageLow ==
  /\ NoLook /\ state \in Open
  /\ BeginDestructiveStop("storage_write_failed")

\* AddClockAnchor changes the session only when the append fails, also when the
\* session is already stopping.
ClockAnchorFails ==
  /\ NoLook /\ state \notin Closed
  /\ \E t \in AdvanceTo(trainer) : HandleStorageFailure(t, drained)

RequestParticipantStop ==
  /\ NoLook /\ state \in Open
  /\ \E t \in AdvanceTo(trainer) :
       \/ BeginStop("interrupted", "participant_stopped", FALSE, t, drained, warned)
       \/ HandleStorageFailure(t, Finalized(PauseInternal(t, "manual_pause")))

(***************************************************************************)
(* Finalization.                                                           *)
(***************************************************************************)
CaptureCanFinalize ==
  /\ ~capture.running
  /\ \/ capture.stopComplete
     \/ recover /\ (\/ requestedStatus = "capture_lost" \/ storageFailed
                    \/ capture.fatal # "none" \/ fatalObserved)

\* Mutant: a run that was played to its end is complete.
NotCleanIgnored == FALSE

\* A run can only be complete over a capture that ended clean.
NotClean ==
  /\ requestedStatus = "complete"
  /\ ~capture.stopComplete \/ ~capture.clean \/ capture.fatal # "none"

\* Mutant: nobody looks for the published file.
NotPublishedIgnored == FALSE

\* Whatever else was requested, without the published PCAP the capture is lost.
NotPublished ==
  /\ requestedStatus # "capture_lost" /\ ~NotClean
  /\ capture.pcap # "published"

\* Mutant: a recovered PCAP counts as source evidence whatever it holds.
VerifiedByFile(c) == c.pcap \in {"published", "recovered"}

\* The claim of authoritative evidence, made of the records counted on disk.
VerifiedSource(c) == HasRecords(c)

\* Mutant: what the trainer finalized after the last drain stays out.
FinalDrainSkipped(before) == drained' = drained /\ warned' = before

FinalDrain(before) == Drain(trainer, before)

\* TryFinalize: settle the status, recover or validate the capture files, finish the
\* journals, seal. A journal whose stream failed cannot be finished, and a directory
\* with an unfinished artifact is not sealed. An anomaly, a derivative that does not
\* validate and other counts than the helper's each add a warning.
TryFinalize ==
  LET lost == NotClean \/ NotPublished
      fix  == recover \/ lost
      last == IF lost THEN "capture_lost" ELSE requestedStatus
  IN
  /\ CaptureProblem = "none" /\ state = "stop_requested" /\ CaptureCanFinalize
  /\ requestedStatus' = last /\ recover' = fix
  /\ stopReason' = IF NotClean THEN "capture_stop_not_clean"
                   ELSE IF NotPublished THEN "authoritative_capture_not_published"
                   ELSE stopReason
  /\ IF fix THEN RecoverCapturePrefix ELSE UNCHANGED capture
  /\ \/ /\ ~broken /\ NoPartialArtifact(capture')
        /\ \E noted \in BOOLEAN :
             FinalDrain(warned \/ lost \/ noted \/ ~VerifiedSource(capture'))
        /\ state' = "finalized"
        /\ result' = [status    |-> IF last = "complete" /\ warned'
                                    THEN "complete_with_warnings" ELSE last,
                      recovered |-> fix, verified |-> VerifiedSource(capture')]
     \/ /\ broken \/ disk = "failing" \/ ~NoPartialArtifact(capture')
        /\ drained' \in Between(drained, Finalized(trainer))
        /\ warned' = TRUE
        /\ state' = "finalization_failed" /\ UNCHANGED result
  /\ UNCHANGED <<trainer, focusVars, stopForwarded, storageFailed, broken,
                 fatalObserved, disk>>

(***************************************************************************)
(* The system.                                                             *)
(***************************************************************************)
notCapture == <<state, trainer, focusVars, stopVars, fatalObserved, warned, drained,
                disk, result>>

CaptureMoves == CaptureStep /\ UNCHANGED notCapture

HelperEnds == capture.stopAsked /\ CaptureEnds /\ UNCHANGED notCapture

DiskFails ==
  /\ disk = "ok" /\ disk' = "failing"
  /\ UNCHANGED <<state, trainer, focusVars, stopVars, fatalObserved, warned, drained,
                 result, capture>>

SessionOver == state \in Closed /\ UNCHANGED sessionVars

SessionInit ==
  /\ CaptureInit
  /\ state = "awaiting_capture_ready" /\ trainer = NewTrainer
  /\ focused = TRUE /\ minimized = FALSE
  /\ requestedStatus = "interrupted" /\ recover = FALSE /\ stopReason = "none"
  /\ stopForwarded = FALSE /\ storageFailed = FALSE /\ fatalObserved = FALSE
  /\ warned = FALSE /\ drained = Finalized(NewTrainer)
  /\ broken = FALSE /\ disk = "ok" /\ result = None

SessionCall ==
  \/ TryStart \/ AdvanceSession \/ SubmitPacket \/ PresentTarget
  \/ \E focus, mini \in BOOLEAN : SetFocus(focus, mini)
  \/ ManualPause \/ ResumeAfterRecoverableIssue
  \/ \E issue \in InterruptionIssues : ReportInterruption(issue)
  \/ ReportDiagnostic \/ ReportStorageLow \/ ClockAnchorFails
  \/ RequestParticipantStop

SessionNext ==
  ObserveCapture \/ SessionCall \/ TryFinalize \/ CaptureMoves \/ DiskFails \/ SessionOver

\* The application drives the session on every tick, and the client of the helper
\* waits for its end, terminating it if need be, once a stop was requested.
SessionSpec ==
  /\ SessionInit /\ [][SessionNext]_sessionVars
  /\ WF_sessionVars(ObserveCapture) /\ WF_sessionVars(AdvanceSession)
  /\ WF_sessionVars(TryFinalize)
  /\ WF_sessionVars(HelperEnds)

(***************************************************************************)
(* What the session promises.                                              *)
(***************************************************************************)
\* Type invariant of the session, its trainer and its view of the capture.
SessionTypeOK ==
  /\ state \in Open \cup Closed \cup {"stop_requested"}
  /\ trainer \in Trainer /\ capture \in Capture
  /\ focused \in BOOLEAN /\ minimized \in BOOLEAN
  /\ requestedStatus \in Requests /\ stopReason \in StopReasons
  /\ recover \in BOOLEAN /\ stopForwarded \in BOOLEAN
  /\ storageFailed \in BOOLEAN /\ fatalObserved \in BOOLEAN
  /\ warned \in BOOLEAN /\ broken \in BOOLEAN
  /\ drained \in Counts /\ disk \in {"ok", "failing"}
  /\ result \in Sealed \cup {None}

\* A session sealed as complete, with or without warnings, was played to its end over
\* a capture that ended clean and published itself, and needed no recovery, whatever
\* faults fell between the calls.
CompleteIsEarned ==
  result.status \in {"complete", "complete_with_warnings"} =>
    /\ trainer.state = "complete" /\ ~result.recovered
    /\ capture.clean /\ capture.fatal = "none" /\ capture.pcap = "published"

\* Every event and block the trainer ever finalized is in the journal of a sealed
\* session, also those that the stop itself interrupted.
SealedJournalIsWhole ==
  result # None => drained = Finalized(trainer)

\* Only a capture that published its own PCAP is called anything but lost.
UnpublishedIsCaptureLost ==
  result # None /\ capture.pcap # "published" => result.status = "capture_lost"

\* An archive claims authoritative evidence only if a record of the selected device
\* is in a PCAP that was published or recovered.
VerifiedMeansRecords ==
  result.verified => capture.records /\ capture.pcap \in {"published", "recovered"}

\* What the sealed session says of itself is no better than what happened.
SealTellsTheTruth == CompleteIsEarned /\ UnpublishedIsCaptureLost /\ VerifiedMeansRecords

\* Nothing is played while the window has no focus: in a recording session the
\* trainer's view of the focus is the window's, and it runs only with it.
PlayNeedsFocus ==
  state \in {"recording", "paused"} =>
    /\ trainer.focused = Focused
    /\ trainer.state \in Running => Focused /\ state = "recording"

\* A session that is not recording does not play: the trainer stands still from the
\* step that stops the session on, so its clock freezes and no target stays live.
StoppedMeansStill ==
  state \in Closed \cup {"stop_requested"} => trainer.state \notin Running

\* Play is guarded by the window and by the session, in every well-typed state.
PlayIsGuarded == SessionTypeOK /\ PlayNeedsFocus /\ StoppedMeansStill

\* A pause that was not made by losing the focus does not end by regaining it.
PauseOutlivesFocus ==
  [][trainer.state = "paused" /\ trainer.reason # "focus_lost" /\ trainer'.state # "paused"
       => UNCHANGED focusVars]_sessionVars

\* A stop, for whatever reason, ends in a sealed or a failed finalization once the
\* helper is gone, and a fatal issue the helper names ends the session in the same way
\* without anybody asking.
SessionEnds == state = "stop_requested" \/ capture.fatal # "none" ~> state \in Closed

(***************************************************************************)
(* What documents of the repository say, and the runs refute.              *)
(***************************************************************************)
\* Interruptions are recoverable: pausing for them, and resuming, never ends the
\* session with an integrity failure.
InterruptionsKeepSession == stopReason # "runtime_integrity_failed"

\* A derivative that failed does not keep a clean raw capture from being sealed.
DerivativesKeepSession ==
  state = "finalization_failed" => disk = "failing"
=============================================================================
