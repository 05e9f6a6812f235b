-------------------- MODULE ParticipantApplicationProofs --------------------
(***************************************************************************)
(* Proofs about the recording session, first on its own and then under the *)
(* participant application, for every plan of blocks, bound on events and  *)
(* interruptions, and set of faults the helper may report.                 *)
(***************************************************************************)
EXTENDS ParticipantApplication, SequenceTheorems, TLAPS

(***************************************************************************)
(* The trainer. A block is left to complete until the trainer is complete, *)
(* and a target is prepared only while there is room for its event, so the *)
(* counters of a live trainer can still be increased.                      *)
(***************************************************************************)
Unfinished(t) == t \in Trainer /\ t.blocks < Blocks

SoundTrainer(t) ==
  /\ t \in Trainer
  /\ t.state \in Live => t.events < MaxEvents
  /\ t.state # "complete" => t.blocks < Blocks

\* What the passing of deadlines makes of an unfinished trainer.
Moved(t, u) ==
  SoundTrainer(u) /\ u.focused = t.focused /\ u.state \in Running \cup {"complete"}

LEMMA CompleteBlockEffect ==
  ASSUME NEW t, Unfinished(t)
  PROVE  Moved(t, CompleteBlock(t)) /\ CompleteBlock(t).state \in {"countdown", "complete"}
<1> DEFINE u == [t EXCEPT !.blocks = @ + 1]
<1>1. u \in Trainer /\ u.blocks = t.blocks + 1 /\ u.focused = t.focused /\ u.state = t.state
  BY TrainerAssumption DEF Unfinished, Trainer
<1>2. CASE u.blocks = Blocks
  <2>1. CompleteBlock(t) = [u EXCEPT !.state = "complete"]
    BY <1>2 DEF CompleteBlock
  <2>2. [u EXCEPT !.state = "complete"] \in Trainer
    BY <1>1 DEF Trainer
  <2>3. [u EXCEPT !.state = "complete"].state = "complete"
    BY <1>1 DEF Trainer
  <2>4. [u EXCEPT !.state = "complete"].focused = u.focused
    BY <1>1 DEF Trainer
  <2> QED
    BY <1>1, <2>1, <2>2, <2>3, <2>4 DEF Moved, SoundTrainer, Live
<1>3. CASE u.blocks # Blocks
  <2> DEFINE v == [u EXCEPT !.state = "countdown", !.fresh = TRUE]
  <2>1. CompleteBlock(t) = v
    BY <1>3 DEF CompleteBlock, StartBlockCountdown
  <2>2. /\ v \in Trainer /\ v.state = "countdown" /\ v.focused = u.focused
        /\ v.blocks = u.blocks
    BY <1>1 DEF Trainer, Running
  <2>3. v.blocks < Blocks
    BY <1>1, <1>3, <2>2, TrainerAssumption DEF Unfinished, Trainer
  <2> HIDE DEF v
  <2> QED
    BY <1>1, <2>1, <2>2, <2>3 DEF Moved, SoundTrainer, Live, Running
<1> QED
  BY <1>2, <1>3

LEMMA PrepareTargetEffect ==
  ASSUME NEW t, Unfinished(t), NEW u \in PrepareTarget(t)
  PROVE  Moved(t, u)
<1>1. t.events < MaxEvents /\ u = [t EXCEPT !.state = "awaiting_presentation"]
  BY DEF PrepareTarget
<1>2. /\ u \in Trainer /\ u.state = "awaiting_presentation" /\ u.focused = t.focused
      /\ u.blocks = t.blocks /\ u.events = t.events
  BY <1>1 DEF Unfinished, Trainer, Running, Live
<1> QED
  BY <1>1, <1>2 DEF Moved, SoundTrainer, Unfinished, Running, Live

LEMMA FromBlockEndEffect ==
  ASSUME NEW t, Unfinished(t), NEW u \in FromBlockEnd(t)
  PROVE  Moved(t, u)
<1> DEFINE c == CompleteBlock(t)
<1>1. Moved(t, c)
  BY CompleteBlockEffect
<1>2. CASE u = c
  BY <1>1, <1>2
<1>3. CASE c.state = "countdown" /\ u \in PrepareTarget(c)
  <2>1. Unfinished(c)
    BY <1>1, <1>3 DEF Moved, SoundTrainer, Unfinished
  <2>2. Moved(c, u)
    BY <1>3, <2>1, PrepareTargetEffect
  <2> QED
    BY <1>1, <2>2 DEF Moved
<1> QED
  BY <1>2, <1>3 DEF FromBlockEnd

LEMMA FromDelayEffect ==
  ASSUME NEW t, Unfinished(t), NEW u \in FromDelay(t)
  PROVE  Moved(t, u)
<1> DEFINE d == [t EXCEPT !.state = "inter_target_delay"]
<1>1. d \in Trainer /\ d.state = "inter_target_delay" /\ d.focused = t.focused /\ d.blocks = t.blocks
  BY DEF Unfinished, Trainer, Running
<1>2. Unfinished(d)
  BY <1>1 DEF Unfinished
<1>3. Moved(t, d)
  BY <1>1 DEF Moved, SoundTrainer, Unfinished, Running, Live
<1>4. u = d \/ u \in PrepareTarget(d) \/ u \in FromBlockEnd(d)
  BY DEF FromDelay
<1> HIDE DEF d
<1>5. Moved(t, u) \/ Moved(d, u)
  BY <1>2, <1>3, <1>4, PrepareTargetEffect, FromBlockEndEffect
<1> QED
  BY <1>1, <1>5 DEF Moved

LEMMA StoreEffect ==
  ASSUME NEW t \in Trainer, t.events < MaxEvents
  PROVE  LET u == StoreFinalizedEvent(t)
         IN /\ u \in Trainer /\ u.state = t.state /\ u.focused = t.focused
            /\ u.blocks = t.blocks /\ u.reason = t.reason
BY TrainerAssumption DEF StoreFinalizedEvent, Trainer

LEMMA FromTailEffect ==
  ASSUME NEW t, Unfinished(t), t.events < MaxEvents, NEW u \in FromTail(t)
  PROVE  Moved(t, u)
<1> DEFINE s == StoreFinalizedEvent(t)
           d == [t EXCEPT !.state = "event_tail"]
<1>1. Unfinished(s) /\ s.focused = t.focused
  BY StoreEffect DEF Unfinished
<1>2. /\ d \in Trainer /\ d.state = "event_tail" /\ d.focused = t.focused
      /\ d.blocks = t.blocks /\ d.events = t.events
  BY DEF Unfinished, Trainer, Running, Live
<1>3. Moved(t, d)
  BY <1>2 DEF Moved, SoundTrainer, Unfinished, Running, Live
<1>4. u = d \/ u \in FromDelay(s) \/ u \in FromBlockEnd(s)
  BY DEF FromTail
<1> HIDE DEF s, d
<1>5. Moved(t, u) \/ Moved(s, u)
  BY <1>1, <1>3, <1>4, FromDelayEffect, FromBlockEndEffect
<1> QED
  BY <1>1, <1>5 DEF Moved

LEMMA FromCountdownEffect ==
  ASSUME NEW t, Unfinished(t), t.state = "countdown", NEW u \in FromCountdown(t)
  PROVE  Moved(t, u)
<1>1. Moved(t, t)
  BY DEF Moved, SoundTrainer, Unfinished, Running, Live
<1>2. u = t \/ u \in PrepareTarget(t) \/ u \in FromDelay(t) \/ u \in FromBlockEnd(t)
  BY DEF FromCountdown
<1> QED
  BY <1>1, <1>2, PrepareTargetEffect, FromDelayEffect, FromBlockEndEffect

\* The clock of a trainer that does not run does not move, and one that runs goes on
\* running or completes.
LEMMA AdvanceEffect ==
  ASSUME NEW t, SoundTrainer(t), NEW u \in AdvanceTo(t)
  PROVE  /\ t.state \in Running => Moved(t, u)
         /\ t.state \notin Running => u = t
<1>1. CASE t.state \in Running
  <2>1. Unfinished(t)
    BY <1>1 DEF SoundTrainer, Unfinished, Running, Live
  <2>2. CASE t.state = "countdown"
    BY <2>1, <2>2, FromCountdownEffect DEF AdvanceTo, Running, Live
  <2>3. CASE t.state \in {"event_active", "event_tail"}
    <3>1. Moved(t, t) /\ t.events < MaxEvents
      BY <2>3 DEF Moved, SoundTrainer, Running, Live
    <3>2. u = t \/ u \in FromTail(t)
      BY <2>3 DEF AdvanceTo
    <3> QED
      BY <1>1, <2>1, <3>1, <3>2, FromTailEffect
  <2>4. CASE t.state = "inter_target_delay"
    BY <2>1, <2>4, FromDelayEffect DEF AdvanceTo, Running, Live
  <2>5. CASE t.state = "awaiting_presentation"
    <3>1. u = t
      BY <2>5 DEF AdvanceTo
    <3> QED
      BY <1>1, <3>1 DEF Moved
  <2> QED
    BY <1>1, <2>2, <2>3, <2>4, <2>5 DEF Running, Live
<1>2. CASE t.state \notin Running
  BY <1>2 DEF AdvanceTo, Running, Live
<1> QED
  BY <1>1, <1>2

\* A pause stops a running trainer and leaves any other alone.
LEMMA PauseEffect ==
  ASSUME NEW t, SoundTrainer(t), NEW outcome \in TechnicalOutcomes
  PROVE  LET p == PauseInternal(t, outcome)
         IN /\ SoundTrainer(p) /\ p.focused = t.focused
            /\ t.state \in Running => p.state = "paused"
            /\ t.state \notin Running => p = t
            /\ p.state \notin Running
<1> DEFINE p == PauseInternal(t, outcome)
           s == IF t.state \in Live THEN StoreFinalizedEvent(t) ELSE t
<1>1. CASE t.state \notin Running
  BY <1>1 DEF PauseInternal
<1>2. CASE t.state \in Running
  <2>1. s \in Trainer /\ s.focused = t.focused /\ s.blocks = t.blocks
    BY StoreEffect DEF SoundTrainer
  <2>2. p = [s EXCEPT !.state = "paused", !.reason = outcome]
    BY <1>2 DEF PauseInternal
  <2> HIDE DEF s
  <2>3. p \in Trainer /\ p.state = "paused" /\ p.focused = s.focused /\ p.blocks = s.blocks
    BY <2>1, <2>2 DEF Trainer
  <2>4. t.blocks < Blocks
    BY <1>2 DEF SoundTrainer, Running, Live
  <2> HIDE DEF p
  <2>5. SoundTrainer(p) /\ p.state \notin Running
    BY <2>1, <2>3, <2>4 DEF SoundTrainer, Running, Live
  <2> QED
    BY <1>2, <2>1, <2>3, <2>5 DEF p
<1> QED
  BY <1>1, <1>2

\* Telling a trainer that the focus changed.
LEMMA FocusEffect ==
  ASSUME NEW t, SoundTrainer(t), NEW focus \in BOOLEAN, t.focused # focus
  PROVE  LET u == FocusTrainer(t, focus)
         IN /\ SoundTrainer(u) /\ u.focused = focus
            /\ u.state \in Running => focus
            /\ u.state = "idle" => t.state = "idle"
            /\ t.state = "paused" /\ t.reason # "focus_lost" => u.state = "paused"
<1> DEFINE s == [t EXCEPT !.focused = focus]
           u == FocusTrainer(t, focus)
           r == [s EXCEPT !.state = "countdown", !.reason = "none"]
<1>1. /\ s \in Trainer /\ s.state = t.state /\ s.focused = focus /\ s.blocks = t.blocks
      /\ s.events = t.events /\ s.reason = t.reason
  BY DEF SoundTrainer, Trainer
<1> HIDE DEF s
<1>2. SoundTrainer(s)
  BY <1>1 DEF SoundTrainer
<1>3. CASE ~focus
  <2>1. u = PauseInternal(s, "focus_lost")
    BY <1>3 DEF FocusTrainer, s
  <2>2. "focus_lost" \in TechnicalOutcomes
    BY DEF TechnicalOutcomes
  <2> HIDE DEF u
  <2>3. /\ SoundTrainer(u) /\ u.focused = focus /\ u.state \notin Running
        /\ u.state = "paused" \/ u = s
    BY <1>1, <1>2, <2>1, <2>2, PauseEffect
  <2> QED
    BY <1>1, <2>3 DEF u
<1>4. CASE focus /\ s.state = "paused" /\ s.reason = "focus_lost"
  <2>1. u = r
    BY <1>4 DEF FocusTrainer, StartResumeCountdown, s
  <2>2. r \in Trainer /\ r.state = "countdown" /\ r.focused = s.focused /\ r.blocks = s.blocks
    BY <1>1 DEF Trainer, Running
  <2> HIDE DEF u, r
  <2>3. s.blocks < Blocks
    BY <1>2, <1>4 DEF SoundTrainer
  <2>4. SoundTrainer(u)
    BY <2>1, <2>2, <2>3 DEF SoundTrainer, Live
  <2> QED
    BY <1>1, <1>4, <2>1, <2>2, <2>4 DEF u
<1>5. CASE focus /\ ~(s.state = "paused" /\ s.reason = "focus_lost")
  <2>1. u = s
    BY <1>5 DEF FocusTrainer, s
  <2> QED
    BY <1>1, <1>2, <1>5, <2>1
<1> QED
  BY <1>3, <1>4, <1>5

\* What any call that moves the clock, plays or presents a target makes of a trainer.
Played(t, u) ==
  /\ SoundTrainer(u) /\ u.focused = t.focused
  /\ u.state \in Running => t.state \in Running
  /\ t.state \notin Running => u = t
  /\ t.state # "idle" => u.state # "idle"

LEMMA AdvancePlays ==
  ASSUME NEW t, SoundTrainer(t), NEW u \in AdvanceTo(t)
  PROVE  Played(t, u)
BY AdvanceEffect DEF Played, Moved, Running, Live

LEMMA SubmitPlays ==
  ASSUME NEW t, SoundTrainer(t), NEW u \in SubmitRawInput(t)
  PROVE  Played(t, u)
<1>1. CASE u \in AdvanceTo(t)
  BY <1>1, AdvancePlays
<1>2. ASSUME NEW v \in AdvanceTo(t), v.state = "event_active",
             u = [v EXCEPT !.state = "event_tail"]
      PROVE  Played(t, u)
  <2>1. Played(t, v)
    BY AdvancePlays
  <2>2. /\ u \in Trainer /\ u.state = "event_tail" /\ u.focused = v.focused
        /\ u.blocks = v.blocks /\ u.events = v.events
    BY <1>2, <2>1 DEF Played, SoundTrainer, Trainer, Running, Live
  <2>3. t.state \in Running
    BY <1>2, <2>1 DEF Played, Running, Live
  <2> QED
    BY <1>2, <2>1, <2>2, <2>3 DEF Played, SoundTrainer, Live
<1> QED
  BY <1>1, <1>2 DEF SubmitRawInput

LEMMA AcknowledgePlays ==
  ASSUME NEW t, SoundTrainer(t), NEW u \in AcknowledgeTargetPresented(t)
  PROVE  Played(t, u)
<1>1. PICK v \in AdvanceTo(t) :
        u = IF v.state = "awaiting_presentation"
              THEN [v EXCEPT !.state = "event_active", !.fresh = FALSE] ELSE v
  BY DEF AcknowledgeTargetPresented
<1>2. Played(t, v)
  BY AdvancePlays
<1>3. CASE v.state = "awaiting_presentation"
  <2>1. u = [v EXCEPT !.state = "event_active", !.fresh = FALSE]
    BY <1>1, <1>3
  <2>2. /\ u \in Trainer /\ u.state = "event_active" /\ u.focused = v.focused
        /\ u.blocks = v.blocks /\ u.events = v.events
    BY <1>2, <2>1 DEF Played, SoundTrainer, Trainer, Running, Live
  <2>3. t.state \in Running
    BY <1>2, <1>3 DEF Played, Running, Live
  <2> QED
    BY <1>2, <1>3, <2>2, <2>3 DEF Played, SoundTrainer, Live
<1>4. CASE v.state # "awaiting_presentation"
  BY <1>1, <1>2, <1>4
<1> QED
  BY <1>3, <1>4

LEMMA InterruptionPlays ==
  ASSUME NEW t, SoundTrainer(t), NEW outcome \in TechnicalOutcomes,
         NEW u \in PauseForTechnicalInterruption(t, outcome)
  PROVE  Played(t, u) /\ u.state \notin Running
<1>1. PICK v \in AdvanceTo(t) : u = PauseInternal(v, outcome)
  BY DEF PauseForTechnicalInterruption
<1>2. Played(t, v)
  BY AdvancePlays
<1>3. /\ SoundTrainer(u) /\ u.focused = v.focused /\ u.state \notin Running
      /\ v.state \in Running => u.state = "paused"
      /\ v.state \notin Running => u = v
  BY <1>1, <1>2, PauseEffect DEF Played
<1> QED
  BY <1>2, <1>3 DEF Played

(***************************************************************************)
(* The capture: fatal issues are sticky, and a helper that ended is still. *)
(***************************************************************************)
LEMMA CaptureStepEffect ==
  ASSUME capture \in Capture, CaptureStep
  PROVE  /\ capture' \in Capture /\ capture.running
         /\ capture.fatal # "none" => capture'.fatal # "none"
<1> USE DEF Capture
<1>0. "none" \notin CaptureFaults
  BY CaptureAssumption DEF DestructiveIssues, CaptureLossIssues
<1>1. CASE CaptureBecomesReady \/ CaptureRecords
  <2>1. CASE CaptureBecomesReady
    BY <2>1, ZenonT(60) DEF CaptureBecomesReady
  <2>2. CASE CaptureRecords
    BY <2>2, ZenonT(60) DEF CaptureRecords
  <2> QED
    BY <1>1, <2>1, <2>2
<1>2. CASE DerivativeGivenUp
  BY <1>2, ZenonT(60) DEF DerivativeGivenUp
<1>3. CASE CaptureFaultReported
  BY <1>0, <1>3, ZenonT(60) DEF CaptureFaultReported
<1>4. CASE CaptureFails
  <2>1. PICK issue \in CaptureFaults \cup {"capture_helper_lost"},
             finished \in BOOLEAN, file \in {"partial", "published"},
             rest \in {capture.derivative, "published"} :
          /\ capture.running
          /\ capture' = [capture EXCEPT !.running = FALSE, !.stopComplete = finished,
                                        !.fatal = issue, !.pcap = file,
                                        !.derivative = rest]
    BY <1>4 DEF CaptureFails
  <2>2. issue # "none" /\ issue \in CaptureFaults \cup {"capture_helper_lost", "none"}
    BY <1>0
  <2>3. capture.derivative \in {"open", "given_up", "published", "set_aside"}
    OBVIOUS
  <2>4. rest \in {"open", "given_up", "published", "set_aside"}
    BY <2>3
  <2>5. capture' \in Capture
    BY <2>1, <2>2, <2>4, ZenonT(60)
  <2>6. capture'.fatal = issue
    BY <2>1
  <2> QED
    BY <2>1, <2>2, <2>5, <2>6
<1>5. CASE CaptureStops
  <2>1. PICK fresh \in BOOLEAN, kept \in {capture.derivative, "given_up"} :
          capture' = [capture EXCEPT
            !.running = FALSE, !.stopComplete = TRUE, !.clean = fresh,
            !.pcap = "published",
            !.derivative = IF kept = "open" THEN "published" ELSE kept]
    BY <1>5 DEF CaptureStops
  <2>2. capture.running /\ capture.fatal = "none"
    BY <1>5 DEF CaptureStops
  <2>3. PICK rest \in {"open", "given_up", "published", "set_aside"} :
          rest = IF kept = "open" THEN "published" ELSE kept
    BY <2>1
  <2>4. capture' = [capture EXCEPT !.running = FALSE, !.stopComplete = TRUE,
                      !.clean = fresh, !.pcap = "published", !.derivative = rest]
    BY <2>1, <2>3
  <2> QED
    BY <2>2, <2>4
<1> QED
  BY <1>1, <1>2, <1>3, <1>4, <1>5 DEF CaptureStep, CaptureEnds

LEMMA StoppedEffect ==
  ASSUME NEW c \in Capture
  PROVE  /\ Stopped(c) \in Capture /\ Stopped(c).fatal = c.fatal
         /\ Stopped(c).running = c.running
BY DEF Stopped, Capture

LEMMA RecoveryEffect ==
  ASSUME capture \in Capture, RecoverCapturePrefix
  PROVE  /\ capture' \in Capture /\ capture'.fatal = capture.fatal
         /\ capture'.running = capture.running
         /\ capture.pcap # "partial" => capture'.pcap = capture.pcap
<1>1. PICK file \in {"recovered", "unverified", capture.pcap}, some \in BOOLEAN,
           rest \in {"published", "set_aside", capture.derivative} :
        /\ capture' = [capture EXCEPT !.pcap = file, !.records = some, !.derivative = rest]
        /\ capture.pcap # "partial" => file = capture.pcap
  <2>1. capture.records \in BOOLEAN
    BY DEF Capture
  <2> QED
    BY <2>1 DEF RecoverCapturePrefix
<1> QED
  BY <1>1 DEF Capture

(***************************************************************************)
(* The inductive invariant. A session that waits has an idle trainer; only *)
(* a completed trainer makes a session ask for the status complete, and it *)
(* then needs recovery only over a fatal issue, which takes that status    *)
(* away again; and nothing moves any more under a sealed result.           *)
(***************************************************************************)
StartInv ==
  /\ state = "awaiting_capture_ready" => trainer.state = "idle" /\ trainer.focused
  /\ state \in {"recording", "paused"} => trainer.state # "idle"

CompletionInv ==
  requestedStatus = "complete" =>
    /\ trainer.state = "complete" /\ state \notin Open
    /\ recover => capture.fatal # "none"

ResultInv ==
  result # None =>
    /\ state = "finalized" /\ ~capture.running
    /\ SealedJournalIsWhole /\ CompleteIsEarned
    /\ UnpublishedIsCaptureLost /\ VerifiedMeansRecords

SessionInv ==
  /\ SessionTypeOK /\ SoundTrainer(trainer)
  /\ StartInv /\ PlayNeedsFocus /\ StoppedMeansStill
  /\ CompletionInv /\ ResultInv

\* What a call leaves of the variables that no stop touches.
RestTyped ==
  /\ focused' \in BOOLEAN /\ minimized' \in BOOLEAN /\ fatalObserved' \in BOOLEAN
  /\ disk' \in {"ok", "failing"} /\ result' = result

\* There is no result before the session is over.
LEMMA NoResultYet ==
  ASSUME SessionInv, state \notin Closed
  PROVE  result = None
BY DEF SessionInv, ResultInv, Closed

LEMMA NoneHolds ==
  ASSUME SessionInv, state \notin Closed, result' = result
  PROVE  ResultInv'
BY NoResultYet DEF ResultInv

LEMMA FinalizedTyped ==
  ASSUME NEW t, SoundTrainer(t)
  PROVE  Finalized(t) \in Counts
BY DEF SoundTrainer, Trainer, Finalized, Counts

(***************************************************************************)
(* The ways a call ends.                                                   *)
(***************************************************************************)
LEMMA StorageFailureStep ==
  ASSUME SessionInv, state \notin Closed, RestTyped,
         NEW t, SoundTrainer(t), NEW upto, HandleStorageFailure(t, upto)
  PROVE  SessionInv'
<1>1. /\ SoundTrainer(trainer') /\ trainer'.state \notin Running
      /\ trainer' \in Trainer
  BY PauseEffect DEF HandleStorageFailure, TechnicalOutcomes, SoundTrainer
<1>2. capture' \in Capture
  BY StoppedEffect DEF HandleStorageFailure, ForwardStop, SessionInv, SessionTypeOK
<1>3. drained' \in Counts /\ broken' \in BOOLEAN
  BY DEF HandleStorageFailure, Between, SessionInv, SessionTypeOK
<1>4. SessionTypeOK'
  BY <1>1, <1>2, <1>3, NoResultYet
     DEF HandleStorageFailure, ForwardStop, RestTyped, SessionTypeOK, Requests, StopReasons
<1>5. state' = "stop_requested" /\ requestedStatus' = "interrupted"
  BY DEF HandleStorageFailure
<1> QED
  BY <1>1, <1>4, <1>5, NoneHolds
     DEF SessionInv, StartInv, PlayNeedsFocus, StoppedMeansStill, CompletionInv, RestTyped

\* A stop may be asked to end as complete only over a complete trainer, and asks
\* for recovery of a session that is already stopping only over a fatal issue.
LEMMA StopStep ==
  ASSUME SessionInv, state \notin Closed, RestTyped,
         NEW t, SoundTrainer(t), trainer.state \notin Running => t = trainer,
         NEW status \in Requests, NEW reason \in StopReasons, NEW recovery \in BOOLEAN,
         NEW upto \in Counts, NEW before \in BOOLEAN,
         status = "complete" =>
           t.state = "complete" /\ ~recovery /\ state # "stop_requested",
         state = "stop_requested" /\ recovery => capture.fatal # "none",
         BeginStop(status, reason, recovery, t, upto, before)
  PROVE  SessionInv'
<1> DEFINE stopping == state = "stop_requested"
           lost     == status = "capture_lost"
           u        == IF stopping THEN t ELSE PauseInternal(t, "manual_pause")
           journal  == IF t.state \in Running /\ ~stopping THEN Finalized(u) ELSE upto
<1>1. PICK throws \in BOOLEAN, excluded \in BOOLEAN :
        /\ requestedStatus' = IF throws THEN "capture_lost"
                              ELSE IF stopping /\ ~lost THEN requestedStatus ELSE status
        /\ recover' = (throws \/ recovery \/ (stopping /\ recover))
        /\ stopReason' = IF throws THEN "capture_stop_request_failed"
                         ELSE IF stopping /\ ~lost THEN stopReason ELSE reason
        /\ warned' = (before \/ throws \/ excluded)
  BY DEF BeginStop, StopThrows
<1>2. trainer' = u /\ drained' = journal /\ state' = "stop_requested" /\ ForwardStop
      /\ UNCHANGED <<storageFailed, broken>>
  BY DEF BeginStop
<1>3. /\ SoundTrainer(u) /\ u.state \notin Running
      /\ t.state = "complete" => u.state = "complete"
      /\ stopping => u = trainer
  <2>1. CASE stopping
    <3>1. trainer.state \notin Running
      BY <2>1 DEF SessionInv, StoppedMeansStill
    <3> QED
      BY <2>1, <3>1
  <2>2. CASE ~stopping
    <3>1. "manual_pause" \in TechnicalOutcomes /\ "complete" \notin Running
      BY DEF TechnicalOutcomes, Running, Live
    <3> QED
      BY <2>2, <3>1, PauseEffect
  <2> QED
    BY <2>1, <2>2
<1>4. journal \in Counts
  BY <1>3, FinalizedTyped
<1>5. capture' \in Capture /\ capture'.fatal = capture.fatal
  BY <1>2, StoppedEffect DEF ForwardStop, SessionInv, SessionTypeOK
<1> HIDE DEF u, journal
<1>6. /\ requestedStatus \in Requests /\ stopReason \in StopReasons
      /\ recover \in BOOLEAN /\ storageFailed \in BOOLEAN /\ broken \in BOOLEAN
  BY DEF SessionInv, SessionTypeOK
<1>7. requestedStatus' \in Requests
  BY <1>1, <1>6 DEF Requests
<1>8. stopReason' \in StopReasons
  BY <1>1, <1>6 DEF StopReasons
<1>9. recover' \in BOOLEAN /\ warned' \in BOOLEAN
  BY <1>1, <1>6
<1>10. SessionTypeOK'
  BY <1>2, <1>3, <1>4, <1>5, <1>6, <1>7, <1>8, <1>9, NoResultYet
     DEF SessionTypeOK, RestTyped, SoundTrainer, ForwardStop
<1>11. CompletionInv'
  <2> SUFFICES ASSUME requestedStatus' = "complete"
               PROVE  /\ trainer'.state = "complete" /\ state' \notin Open
                      /\ recover' => capture'.fatal # "none"
    BY DEF CompletionInv
  <2>1. state' \notin Open
    BY <1>2 DEF Open
  <2>2. CASE stopping /\ ~lost
    <3>1. requestedStatus = "complete" /\ ~throws
      BY <1>1, <2>2
    <3>2. trainer.state = "complete" /\ (recover => capture.fatal # "none")
      BY <3>1 DEF SessionInv, CompletionInv
    <3>3. recover' = (recovery \/ recover)
      BY <1>1, <2>2, <3>1
    <3> QED
      BY <1>2, <1>3, <1>5, <2>1, <2>2, <3>2, <3>3
  <2>3. CASE ~(stopping /\ ~lost)
    <3>1. status = "complete" /\ ~throws
      BY <1>1, <2>3
    <3>2. ~stopping /\ ~recovery /\ t.state = "complete"
      BY <3>1
    <3>3. ~recover'
      BY <1>1, <3>1, <3>2
    <3> QED
      BY <1>2, <1>3, <2>1, <3>2, <3>3
  <2> QED
    BY <2>2, <2>3
<1> QED
  BY <1>2, <1>3, <1>10, <1>11, NoneHolds
     DEF SessionInv, StartInv, PlayNeedsFocus, StoppedMeansStill, RestTyped

\* A call that stops nothing leaves a trainer that runs only while the session
\* records with the focus.
LEMMA GoesStep ==
  ASSUME SessionInv, state \in Open, RestTyped,
         NEW t, SoundTrainer(t), t.state # "idle", t.focused = Focused',
         NEW next \in {"recording", "paused"}, NEW before \in BOOLEAN,
         t.state \in Running => Focused' /\ next = "recording",
         Goes(t, next, before)
  PROVE  SessionInv'
<1>1. trainer' = t /\ state' = next /\ drained' \in Counts
  BY FinalizedTyped DEF Goes, Drain
<1>2. warned' \in BOOLEAN /\ UNCHANGED <<stopVars, capture>>
  BY DEF Goes, Drain
<1>3. SessionTypeOK'
  BY <1>1, <1>2 DEF SessionInv, SessionTypeOK, RestTyped, SoundTrainer, stopVars, Open
<1>4. CompletionInv'
  BY <1>2 DEF SessionInv, CompletionInv, stopVars
<1>5. state \notin Closed /\ result' = result /\ state' \notin Closed \cup {"stop_requested"}
  BY <1>1 DEF Open, Closed, RestTyped
<1>6. PlayNeedsFocus'
  BY <1>1 DEF PlayNeedsFocus
<1> QED
  BY <1>1, <1>3, <1>4, <1>5, <1>6, NoneHolds DEF SessionInv, StartInv, StoppedMeansStill

\* An annotation changes nothing but the count of warnings.
LEMMA AnnotationStep ==
  ASSUME SessionInv, state \notin Closed, RestTyped, warned' \in BOOLEAN,
         UNCHANGED <<trainer, state, drained, stopVars, capture>>,
         state \in {"recording", "paused"} => Focused' = Focused
  PROVE  SessionInv'
<1>1. SessionTypeOK'
  BY DEF SessionInv, SessionTypeOK, RestTyped, stopVars
<1>2. CompletionInv' /\ StartInv' /\ StoppedMeansStill'
  BY DEF SessionInv, CompletionInv, StartInv, StoppedMeansStill, stopVars
<1>3. PlayNeedsFocus'
  BY DEF SessionInv, PlayNeedsFocus
<1>4. ResultInv'
  BY NoneHolds DEF RestTyped
<1> QED
  BY <1>1, <1>2, <1>3, <1>4 DEF SessionInv

\* The trainer was moved by a call that plays, without a change of focus.
LEMMA PlayedGoes ==
  ASSUME SessionInv, state \in {"recording", "paused"}, RestTyped,
         UNCHANGED focusVars, NEW t, Played(trainer, t),
         NEW next \in {"recording", "paused"}, NEW before \in BOOLEAN,
         t.state \in Running => next = "recording",
         Goes(t, next, before)
  PROVE  SessionInv'
<1>1. Focused' = Focused
  BY DEF focusVars, Focused
<1>2. /\ trainer.focused = Focused /\ trainer.state # "idle"
      /\ trainer.state \in Running => Focused
  BY DEF SessionInv, PlayNeedsFocus, StartInv
<1>3. /\ SoundTrainer(t) /\ t.state # "idle" /\ t.focused = Focused'
      /\ t.state \in Running => Focused'
  BY <1>1, <1>2 DEF Played
<1>4. state \in Open
  BY DEF Open
<1> QED
  BY <1>3, <1>4, GoesStep

\* What a call that only the trainer's owner makes leaves of the rest.
LEMMA RestKept ==
  ASSUME SessionInv, UNCHANGED <<focusVars, fatalObserved, disk, result>>
  PROVE  RestTyped
BY DEF SessionInv, SessionTypeOK, RestTyped, focusVars

(***************************************************************************)
(* The calls.                                                              *)
(***************************************************************************)
LEMMA TryStartStep == SessionInv /\ TryStart => SessionInv'
<1> SUFFICES ASSUME SessionInv, TryStart PROVE SessionInv'
  OBVIOUS
<1> DEFINE t == StartTrainer(trainer)
<1>1. RestTyped /\ state = "awaiting_capture_ready" /\ Focused /\ Focused' = Focused
  BY RestKept DEF TryStart, Call, focusVars, Focused
<1>2. trainer \in Trainer /\ trainer.state = "idle" /\ trainer.focused /\ trainer.blocks < Blocks
  BY <1>1 DEF SessionInv, StartInv, SoundTrainer
<1>3. /\ t \in Trainer /\ t.state = "countdown" /\ t.focused = trainer.focused
      /\ t.blocks = trainer.blocks
  BY <1>2 DEF StartTrainer, StartBlockCountdown, Trainer, Running
<1>4. Goes(t, "recording", warned) \/ HandleStorageFailure(t, Finalized(t))
  BY DEF TryStart, StorageFails
<1> HIDE DEF t
<1>5. SoundTrainer(t) /\ t.state # "idle" /\ t.focused = Focused'
  BY <1>1, <1>2, <1>3 DEF SoundTrainer, Live
<1>6. state \in Open /\ state \notin Closed /\ warned \in BOOLEAN
  BY <1>1 DEF Open, Closed, SessionInv, SessionTypeOK
<1>7. ASSUME Goes(t, "recording", warned) PROVE SessionInv'
  <2>1. Focused'
    BY <1>1
  <2> QED
    BY <1>1, <1>5, <1>6, <1>7, <2>1, GoesStep
<1>8. ASSUME HandleStorageFailure(t, Finalized(t)) PROVE SessionInv'
  BY <1>1, <1>5, <1>6, <1>8, StorageFailureStep
<1> QED
  BY <1>4, <1>7, <1>8

\* A call that plays goes on, or completes the run, or fails to write.
LEMMA PlayStep ==
  ASSUME SessionInv, Call, UNCHANGED focusVars, NEW t, Played(trainer, t),
         state \in {"recording", "paused"}, NEW next \in {"recording", "paused"},
         t.state \in Running => next = "recording",
         GoesOrCompletes(t, next) \/ Goes(t, next, warned) \/ StorageFails(t)
  PROVE  SessionInv'
<1>1. RestTyped /\ warned \in BOOLEAN /\ state \notin Closed
  BY RestKept DEF Call, SessionInv, SessionTypeOK, Closed
<1>2. SoundTrainer(t) /\ (trainer.state \notin Running => t = trainer)
  BY DEF Played
<1>3. CASE Goes(t, next, warned)
  BY <1>1, <1>3, PlayedGoes
<1>4. CASE t.state = "complete"
           /\ BeginStop("complete", "participant_completed", FALSE, t, Finalized(t), warned)
  <2>1. Finalized(t) \in Counts
    BY <1>2, FinalizedTyped
  <2>2. "complete" \in Requests /\ "participant_completed" \in StopReasons
    BY DEF Requests, StopReasons
  <2> QED
    BY <1>1, <1>2, <1>4, <2>1, <2>2, StopStep
<1>5. CASE StorageFails(t)
  BY <1>1, <1>2, <1>5, StorageFailureStep DEF StorageFails
<1> QED
  BY <1>3, <1>4, <1>5 DEF GoesOrCompletes

LEMMA PlayCallsStep ==
  SessionInv /\ (AdvanceSession \/ SubmitPacket \/ PresentTarget \/ ManualPause) => SessionInv'
<1> SUFFICES ASSUME SessionInv, AdvanceSession \/ SubmitPacket \/ PresentTarget \/ ManualPause
             PROVE  SessionInv'
  OBVIOUS
<1>0. SoundTrainer(trainer)
  BY DEF SessionInv
<1>1. CASE AdvanceSession
  <2>1. PICK t \in AdvanceTo(trainer) : GoesOrCompletes(t, PausedOr(t)) \/ StorageFails(t)
    BY <1>1 DEF AdvanceSession
  <2>2. /\ PausedOr(t) \in {"recording", "paused"}
        /\ t.state \in Running => PausedOr(t) = "recording"
    BY DEF PausedOr, Running, Live
  <2>3. Call /\ state \in {"recording", "paused"} /\ UNCHANGED focusVars
    BY <1>1 DEF AdvanceSession
  <2>4. Played(trainer, t)
    BY <1>0, AdvancePlays
  <2> QED
    BY <2>1, <2>2, <2>3, <2>4, PlayStep
<1>2. CASE SubmitPacket
  <2>1. PICK t \in SubmitRawInput(trainer) : GoesOrCompletes(t, "recording") \/ StorageFails(t)
    BY <1>2 DEF SubmitPacket
  <2>2. Call /\ state \in {"recording", "paused"} /\ UNCHANGED focusVars
    BY <1>2 DEF SubmitPacket
  <2>3. Played(trainer, t)
    BY <1>0, SubmitPlays
  <2> QED
    BY <2>1, <2>2, <2>3, PlayStep
<1>3. CASE PresentTarget
  <2>1. PICK t \in AcknowledgeTargetPresented(trainer) :
          Goes(t, "recording", warned) \/ StorageFails(t)
    BY <1>3 DEF PresentTarget
  <2>2. Call /\ state \in {"recording", "paused"} /\ UNCHANGED focusVars
    BY <1>3 DEF PresentTarget
  <2>3. Played(trainer, t)
    BY <1>0, AcknowledgePlays
  <2> QED
    BY <2>1, <2>2, <2>3, PlayStep
<1>4. CASE ManualPause
  <2>1. PICK t \in PauseForTechnicalInterruption(trainer, "manual_pause") :
          Goes(t, "paused", warned) \/ StorageFails(t)
    BY <1>4 DEF ManualPause
  <2>2. Call /\ state \in {"recording", "paused"} /\ UNCHANGED focusVars
    BY <1>4 DEF ManualPause
  <2>3. Played(trainer, t) /\ t.state \notin Running
    BY <1>0, InterruptionPlays DEF TechnicalOutcomes
  <2> QED
    BY <2>1, <2>2, <2>3, PlayStep
<1> QED
  BY <1>1, <1>2, <1>3, <1>4

\* A failed write during a call that has only moved the clock.
LEMMA ClockFailureStep ==
  ASSUME SessionInv, state \notin Closed, RestTyped,
         NEW t \in AdvanceTo(trainer), NEW upto, HandleStorageFailure(t, upto)
  PROVE  SessionInv'
BY AdvancePlays, StorageFailureStep DEF SessionInv, Played

LEMMA SetFocusStep ==
  ASSUME SessionInv, NEW focus \in BOOLEAN, NEW mini \in BOOLEAN, SetFocus(focus, mini)
  PROVE  SessionInv'
<1> DEFINE is == focus /\ ~mini
<1>1. /\ Call /\ state \in Open /\ state \notin Closed
      /\ fatalObserved' = fatalObserved /\ disk' = disk /\ result' = result
  BY DEF SetFocus, Call, Open, Closed
<1>2. SoundTrainer(trainer) /\ warned \in BOOLEAN
  BY DEF SessionInv, SessionTypeOK
<1>3. ASSUME NEW t \in AdvanceTo(trainer), HandleStorageFailure(t, drained),
             focusVars' = focusVars \/ (focused' = focus /\ minimized' = mini)
      PROVE  SessionInv'
  <2>1. RestTyped
    BY <1>1, <1>3 DEF RestTyped, SessionInv, SessionTypeOK, focusVars
  <2> QED
    BY <1>1, <1>3, <2>1, ClockFailureStep
<1>4. CASE focused' = focus /\ minimized' = mini /\ (trainer.state = "idle" \/ Focused = is)
           /\ UNCHANGED <<trainer, state, drained, warned, stopVars, capture>>
  <2>1. RestTyped /\ warned' \in BOOLEAN
    BY <1>1, <1>2, <1>4 DEF RestTyped, SessionInv, SessionTypeOK
  <2>2. state \in {"recording", "paused"} => Focused' = Focused
    <3>1. state \in {"recording", "paused"} => trainer.state # "idle"
      BY DEF SessionInv, StartInv
    <3>2. Focused' = is
      BY <1>4 DEF Focused
    <3> QED
      BY <1>4, <3>1, <3>2
  <2> QED
    BY <1>1, <1>4, <2>1, <2>2, AnnotationStep
<1>5. ASSUME focused' = focus, minimized' = mini, trainer.state # "idle", Focused # is,
             NEW t \in SetFocused(trainer, is),
             Goes(t, PausedOr(t), warned) \/ StorageFails(t)
      PROVE  SessionInv'
  <2>1. RestTyped
    BY <1>1, <1>5 DEF RestTyped, SessionInv, SessionTypeOK
  <2>2. PICK u \in AdvanceTo(trainer) : t = FocusTrainer(u, is)
    BY <1>5 DEF SetFocused
  <2>3. Played(trainer, u)
    BY <1>2, AdvancePlays
  <2>4. state \in {"recording", "paused"}
    BY <1>1, <1>5 DEF SessionInv, StartInv, Open
  <2>5. u.focused = Focused
    BY <2>3, <2>4 DEF Played, SessionInv, PlayNeedsFocus
  <2>6. u.focused # is /\ is \in BOOLEAN
    BY <1>5, <2>5
  <2>7. /\ SoundTrainer(t) /\ t.focused = is /\ (t.state \in Running => is)
        /\ t.state # "idle"
    BY <1>5, <2>2, <2>3, <2>6, FocusEffect DEF Played
  <2>8. Focused' = is
    BY <1>5 DEF Focused
  <2>9. CASE Goes(t, PausedOr(t), warned)
    <3>1. /\ PausedOr(t) \in {"recording", "paused"}
          /\ t.state \in Running => PausedOr(t) = "recording"
      BY DEF PausedOr, Running, Live
    <3> QED
      BY <1>1, <1>2, <2>1, <2>7, <2>8, <2>9, <3>1, GoesStep
  <2>10. CASE StorageFails(t)
    BY <1>1, <2>1, <2>7, <2>10, StorageFailureStep DEF StorageFails
  <2> QED
    BY <1>5, <2>9, <2>10
<1> QED
  BY <1>3, <1>4, <1>5 DEF SetFocus

LEMMA ResumeStep == SessionInv /\ ResumeAfterRecoverableIssue => SessionInv'
<1> SUFFICES ASSUME SessionInv, ResumeAfterRecoverableIssue PROVE SessionInv'
  OBVIOUS
<1>1. /\ RestTyped /\ state = "paused" /\ Focused /\ UNCHANGED focusVars
      /\ state \in Open /\ state \notin Closed
  BY RestKept DEF ResumeAfterRecoverableIssue, Call, Open, Closed
<1>2. SoundTrainer(trainer) /\ trainer.state \notin Running /\ trainer.focused = Focused
  BY <1>1 DEF SessionInv, PlayNeedsFocus
<1>3. PICK t \in AdvanceTo(trainer) :
        IF CanResume(t)
          THEN LET u == StartResumeCountdown(t)
               IN Goes(u, "recording", warned) \/ HandleStorageFailure(u, drained)
          ELSE HandleIntegrityFailure(t)
  BY DEF ResumeAfterRecoverableIssue
<1>4. t = trainer
  BY <1>2, AdvanceEffect
<1>5. CASE CanResume(t)
  <2> DEFINE u == StartResumeCountdown(t)
  <2>1. /\ u \in Trainer /\ u.state = "countdown" /\ u.focused = t.focused
        /\ u.blocks = t.blocks /\ t.blocks < Blocks
    BY <1>2, <1>4, <1>5 DEF CanResume, StartResumeCountdown, SoundTrainer, Trainer, Running
  <2>2. Goes(u, "recording", warned) \/ HandleStorageFailure(u, drained)
    BY <1>3, <1>5
  <2> HIDE DEF u
  <2>3. SoundTrainer(u) /\ u.state # "idle"
    BY <2>1 DEF SoundTrainer, Live
  <2>4. Focused' = Focused /\ warned \in BOOLEAN
    BY <1>1 DEF focusVars, Focused, SessionInv, SessionTypeOK
  <2>5. CASE Goes(u, "recording", warned)
    <3>1. u.focused = Focused' /\ Focused'
      BY <1>1, <1>2, <1>4, <2>1, <2>4
    <3> QED
      BY <1>1, <2>3, <2>4, <2>5, <3>1, GoesStep
  <2>6. CASE HandleStorageFailure(u, drained)
    BY <1>1, <2>3, <2>6, StorageFailureStep
  <2> QED
    BY <2>2, <2>5, <2>6
<1>6. CASE ~CanResume(t)
  <2>1. HandleIntegrityFailure(t)
    BY <1>3, <1>6
  <2>2. CASE HandleStorageFailure(t, drained)
    BY <1>1, <1>2, <1>4, <2>2, StorageFailureStep
  <2>3. CASE ~HandleStorageFailure(t, drained)
    <3>1. /\ warned' = TRUE /\ recover' = TRUE /\ state' = "stop_requested" /\ ForwardStop
          /\ trainer' = trainer /\ UNCHANGED <<drained, storageFailed, broken>>
      BY <1>4, <2>1, <2>3 DEF HandleIntegrityFailure
    <3>2. /\ requestedStatus' \in {"capture_lost", "interrupted"}
          /\ stopReason' \in {"capture_stop_request_failed", "runtime_integrity_failed"}
      BY <2>1, <2>3 DEF HandleIntegrityFailure, StopThrows
    <3>3. capture' \in Capture
      BY <3>1, StoppedEffect DEF ForwardStop, SessionInv, SessionTypeOK
    <3>4. SessionTypeOK'
      BY <1>1, <3>1, <3>2, <3>3, NoResultYet
         DEF SessionInv, SessionTypeOK, RestTyped, ForwardStop, Requests, StopReasons
    <3> QED
      BY <1>1, <1>2, <3>1, <3>2, <3>4, NoneHolds
         DEF SessionInv, StartInv, PlayNeedsFocus, StoppedMeansStill, CompletionInv, RestTyped
  <2> QED
    BY <2>2, <2>3
<1> QED
  BY <1>5, <1>6

LEMMA ReportsStep ==
  ASSUME SessionInv,
         \/ \E issue \in InterruptionIssues : ReportInterruption(issue)
         \/ ReportDiagnostic \/ ClockAnchorFails
  PROVE  SessionInv'
<1>1. RestTyped /\ state \notin Closed /\ UNCHANGED focusVars
  BY RestKept DEF ReportInterruption, ReportDiagnostic, ClockAnchorFails, NoLook, Open, Closed
<1>2. SoundTrainer(trainer) /\ Focused' = Focused
  BY <1>1 DEF SessionInv, focusVars, Focused
<1>3. ASSUME NEW t \in AdvanceTo(trainer), HandleStorageFailure(t, drained)
      PROVE  SessionInv'
  BY <1>1, <1>3, ClockFailureStep
<1>4. ASSUME warned' = TRUE, UNCHANGED <<trainer, state, drained, stopVars, capture>>
      PROVE  SessionInv'
  BY <1>1, <1>2, <1>4, AnnotationStep
<1>5. ASSUME NEW issue \in InterruptionIssues, ReportInterruption(issue), state = "recording"
      PROVE  SessionInv'
  <2>1. PICK t \in PauseForTechnicalInterruption(trainer, issue) :
          Goes(t, "paused", TRUE) \/ StorageFails(t)
    BY <1>5 DEF ReportInterruption
  <2>2. Played(trainer, t) /\ t.state \notin Running
    BY <1>2, InterruptionPlays DEF InterruptionIssues, TechnicalOutcomes
  <2>3. CASE Goes(t, "paused", TRUE)
    BY <1>1, <1>5, <2>2, <2>3, PlayedGoes
  <2>4. CASE StorageFails(t)
    BY <1>1, <2>2, <2>4, StorageFailureStep DEF StorageFails, Played
  <2> QED
    BY <2>1, <2>3, <2>4
<1> QED
  BY <1>3, <1>4, <1>5 DEF ReportInterruption, ReportDiagnostic, ClockAnchorFails

\* A stop asked for by an issue, or by the participant.
LEMMA IssueStopStep ==
  ASSUME SessionInv, state \notin Closed, RestTyped, NEW issue,
         state = "stop_requested" => capture.fatal # "none",
         BeginDestructiveStop(issue)
  PROVE  SessionInv'
<1> DEFINE status == IF issue \in CaptureLossIssues THEN "capture_lost" ELSE "interrupted"
<1>1. PICK t \in AdvanceTo(trainer) :
        \/ BeginStop(status, "issue", TRUE, t, drained, TRUE)
        \/ HandleStorageFailure(t, Finalized(PauseInternal(t, "manual_pause")))
  BY DEF BeginDestructiveStop
<1>2. /\ status \in Requests /\ status # "complete" /\ "issue" \in StopReasons
      /\ drained \in Counts
  BY DEF Requests, StopReasons, SessionInv, SessionTypeOK
<1>3. SoundTrainer(t) /\ (trainer.state \notin Running => t = trainer)
  BY AdvancePlays DEF SessionInv, Played
<1> HIDE DEF status
<1>4. ASSUME BeginStop(status, "issue", TRUE, t, drained, TRUE) PROVE SessionInv'
  BY <1>2, <1>3, <1>4, StopStep
<1> QED
  BY <1>1, <1>4, ClockFailureStep

LEMMA StopsStep ==
  SessionInv /\ (ObserveCapture \/ ReportStorageLow \/ RequestParticipantStop) => SessionInv'
<1> SUFFICES ASSUME SessionInv, ObserveCapture \/ ReportStorageLow \/ RequestParticipantStop
             PROVE  SessionInv'
  OBVIOUS
<1>1. CASE ObserveCapture
  <2>1. RestTyped
    <3>1. fatalObserved' \in BOOLEAN /\ UNCHANGED <<focusVars, disk, result>>
      BY <1>1 DEF ObserveCapture, SessionInv, SessionTypeOK
    <3> QED
      BY <3>1 DEF RestTyped, SessionInv, SessionTypeOK, focusVars
  <2>2. state \notin Closed /\ (state = "stop_requested" => capture.fatal # "none")
    BY <1>1 DEF ObserveCapture, CaptureProblem
  <2> QED
    BY <1>1, <2>1, <2>2, IssueStopStep DEF ObserveCapture
<1>2. CASE ReportStorageLow
  <2>1. RestTyped /\ state \notin Closed /\ state # "stop_requested"
    BY <1>2, RestKept DEF ReportStorageLow, NoLook, Open, Closed
  <2> QED
    BY <1>2, <2>1, IssueStopStep DEF ReportStorageLow
<1>3. CASE RequestParticipantStop
  <2>1. RestTyped /\ state \notin Closed /\ state # "stop_requested"
    BY <1>3, RestKept DEF RequestParticipantStop, NoLook, Open, Closed
  <2>2. PICK t \in AdvanceTo(trainer) :
          \/ BeginStop("interrupted", "participant_stopped", FALSE, t, drained, warned)
          \/ HandleStorageFailure(t, Finalized(PauseInternal(t, "manual_pause")))
    BY <1>3 DEF RequestParticipantStop
  <2>3. /\ "interrupted" \in Requests /\ "participant_stopped" \in StopReasons
        /\ drained \in Counts /\ warned \in BOOLEAN
    BY DEF Requests, StopReasons, SessionInv, SessionTypeOK
  <2>4. SoundTrainer(t) /\ (trainer.state \notin Running => t = trainer)
    BY AdvancePlays DEF SessionInv, Played
  <2>5. ASSUME BeginStop("interrupted", "participant_stopped", FALSE, t, drained, warned)
        PROVE  SessionInv'
    BY <2>1, <2>3, <2>4, <2>5, StopStep
  <2> QED
    BY <2>1, <2>2, <2>5, ClockFailureStep
<1> QED
  BY <1>1, <1>2, <1>3

(***************************************************************************)
(* Finalization and the environment.                                       *)
(***************************************************************************)
LEMMA TryFinalizeStep == SessionInv /\ TryFinalize => SessionInv'
<1> SUFFICES ASSUME SessionInv, TryFinalize PROVE SessionInv'
  OBVIOUS
<1> DEFINE lost == NotClean \/ NotPublished
           fix  == recover \/ lost
           last == IF lost THEN "capture_lost" ELSE requestedStatus
<1>1. /\ state = "stop_requested" /\ ~capture.running /\ requestedStatus' = last
      /\ recover' = fix
      /\ UNCHANGED <<trainer, focusVars, stopForwarded, storageFailed, broken,
                     fatalObserved, disk>>
  BY DEF TryFinalize, CaptureCanFinalize
<1>2. IF fix THEN RecoverCapturePrefix ELSE UNCHANGED capture
  BY DEF TryFinalize
<1>3. /\ capture' \in Capture /\ capture'.fatal = capture.fatal
      /\ capture'.running = capture.running
      /\ capture.pcap # "partial" => capture'.pcap = capture.pcap
      /\ ~fix => capture' = capture
  BY <1>2, RecoveryEffect DEF SessionInv, SessionTypeOK
<1>4. last \in Requests /\ fix \in BOOLEAN
  BY DEF SessionInv, SessionTypeOK, Requests, NotClean, NotPublished
<1>5. stopReason' \in StopReasons
  BY DEF TryFinalize, SessionInv, SessionTypeOK, StopReasons
<1>6. result = None /\ trainer.state \notin Running
  BY <1>1, NoResultYet DEF SessionInv, StoppedMeansStill, Closed
<1>7. VerifiedSource(capture') \in BOOLEAN
  BY DEF VerifiedSource, HasRecords
<1>8. last = "complete" => /\ trainer.state = "complete" /\ ~fix
                           /\ capture'.clean /\ capture'.fatal = "none"
                           /\ capture'.pcap = "published"
  <2> SUFFICES ASSUME last = "complete"
               PROVE  /\ trainer.state = "complete" /\ ~fix
                      /\ capture'.clean /\ capture'.fatal = "none"
                      /\ capture'.pcap = "published"
    OBVIOUS
  <2>1. requestedStatus = "complete" /\ ~NotClean /\ ~NotPublished
    BY DEF NotClean, NotPublished
  <2>2. capture.clean /\ capture.fatal = "none" /\ capture.pcap = "published"
    BY <2>1 DEF NotClean, NotPublished
  <2>3. trainer.state = "complete" /\ ~recover
    BY <2>1, <2>2 DEF SessionInv, CompletionInv
  <2> QED
    BY <1>3, <2>1, <2>2, <2>3
<1>9. last # "capture_lost" => capture'.pcap = "published"
  <2> SUFFICES ASSUME last # "capture_lost" PROVE capture'.pcap = "published"
    OBVIOUS
  <2>1. capture.pcap = "published"
    BY DEF NotPublished
  <2> QED
    BY <1>3, <2>1
<1> HIDE DEF lost, fix, last
<1>10. /\ requestedStatus' = "complete" =>
            trainer'.state = "complete" /\ ~recover'
       /\ trainer'.state \notin Running /\ SoundTrainer(trainer')
       /\ requestedStatus' \in Requests /\ recover' \in BOOLEAN
  BY <1>1, <1>4, <1>6, <1>8 DEF SessionInv
<1>11. CASE /\ \E noted \in BOOLEAN :
                 FinalDrain(warned \/ lost \/ noted \/ ~VerifiedSource(capture'))
            /\ state' = "finalized"
            /\ result' = [status    |-> IF last = "complete" /\ warned'
                                        THEN "complete_with_warnings" ELSE last,
                          recovered |-> fix, verified |-> VerifiedSource(capture')]
  <2>1. drained' = Finalized(trainer) /\ warned' \in BOOLEAN
    BY <1>11 DEF FinalDrain, Drain
  <2>2. /\ result'.status \in {last, "complete_with_warnings"}
        /\ result'.status = "complete_with_warnings" => last = "complete"
        /\ result'.recovered = fix /\ result'.verified = VerifiedSource(capture')
    BY <1>4, <1>11 DEF Requests
  <2>3. result' \in Sealed
    BY <1>4, <1>7, <1>11 DEF Sealed, Requests, Statuses
  <2>4. SessionTypeOK'
    BY <1>1, <1>3, <1>4, <1>5, <1>10, <1>11, <2>1, <2>3, FinalizedTyped
       DEF SessionInv, SessionTypeOK, SoundTrainer, focusVars, Closed
  <2>5. SealedJournalIsWhole'
    BY <1>1, <2>1 DEF SealedJournalIsWhole, Finalized
  <2>6. CompleteIsEarned'
    BY <1>1, <1>8, <2>2 DEF CompleteIsEarned
  <2>7. UnpublishedIsCaptureLost'
    BY <1>9, <2>2 DEF UnpublishedIsCaptureLost
  <2>8. VerifiedMeansRecords'
    BY <2>2 DEF VerifiedMeansRecords, VerifiedSource, HasRecords
  <2>9. ResultInv'
    BY <1>1, <1>3, <1>11, <2>5, <2>6, <2>7, <2>8 DEF ResultInv
  <2> QED
    BY <1>10, <1>11, <2>4, <2>9
       DEF SessionInv, StartInv, PlayNeedsFocus, StoppedMeansStill, CompletionInv, Open
<1>12. CASE /\ drained' \in Between(drained, Finalized(trainer)) /\ warned' = TRUE
            /\ state' = "finalization_failed" /\ UNCHANGED result
  <2>1. drained' \in Counts
    BY <1>12 DEF Between
  <2>2. SessionTypeOK'
    BY <1>1, <1>3, <1>5, <1>6, <1>10, <1>12, <2>1
       DEF SessionInv, SessionTypeOK, SoundTrainer, focusVars, Closed
  <2>3. ResultInv'
    BY <1>6, <1>12 DEF ResultInv
  <2> QED
    BY <1>10, <1>12, <2>2, <2>3
       DEF SessionInv, StartInv, PlayNeedsFocus, StoppedMeansStill, CompletionInv, Open
<1> QED
  BY <1>11, <1>12 DEF TryFinalize, lost, fix, last

LEMMA EnvironmentStep ==
  SessionInv /\ (CaptureMoves \/ DiskFails \/ UNCHANGED sessionVars) => SessionInv'
<1> SUFFICES ASSUME SessionInv, CaptureMoves \/ DiskFails \/ UNCHANGED sessionVars
             PROVE  SessionInv'
  OBVIOUS
<1>1. CASE CaptureMoves
  <2>1. /\ capture' \in Capture /\ capture.running
        /\ capture.fatal # "none" => capture'.fatal # "none"
    BY <1>1, CaptureStepEffect DEF CaptureMoves, SessionInv, SessionTypeOK
  <2>2. UNCHANGED notCapture
    BY <1>1 DEF CaptureMoves
  <2>3. SessionTypeOK'
    BY <2>1, <2>2 DEF SessionInv, SessionTypeOK, notCapture, focusVars, stopVars
  <2>4. result = None
    BY <2>1 DEF SessionInv, ResultInv
  <2>5. ResultInv'
    BY <2>2, <2>4 DEF ResultInv, notCapture
  <2>6. CompletionInv'
    BY <2>1, <2>2 DEF SessionInv, CompletionInv, notCapture, stopVars
  <2> QED
    BY <2>2, <2>3, <2>5, <2>6 DEF SessionInv, StartInv, PlayNeedsFocus,
       StoppedMeansStill, notCapture, focusVars, Focused
<1>2. CASE DiskFails \/ UNCHANGED sessionVars
  <2>1. /\ UNCHANGED <<state, trainer, focusVars, stopVars, fatalObserved, warned, drained,
                       result, capture>>
        /\ disk' \in {disk, "failing"}
    BY <1>2 DEF DiskFails, sessionVars
  <2>2. SessionTypeOK'
    BY <2>1 DEF SessionInv, SessionTypeOK, focusVars, stopVars
  <2> QED
    BY <2>1, <2>2 DEF SessionInv, StartInv, PlayNeedsFocus, StoppedMeansStill,
       CompletionInv, ResultInv, SealedJournalIsWhole, CompleteIsEarned,
       UnpublishedIsCaptureLost, VerifiedMeansRecords, focusVars, stopVars, Focused
<1> QED
  BY <1>1, <1>2

(***************************************************************************)
(* The theorems.                                                           *)
(***************************************************************************)
LEMMA SessionInitInv == SessionInit => SessionInv
<1> SUFFICES ASSUME SessionInit PROVE SessionInv
  OBVIOUS
<1>1. capture \in Capture /\ capture.fatal = "none"
  BY DEF SessionInit, CaptureInit, Capture
<1>2. NewTrainer \in Trainer /\ NewTrainer.blocks < Blocks /\ Finalized(NewTrainer) \in Counts
  BY TrainerAssumption DEF NewTrainer, Trainer, Finalized, Counts
<1>3. /\ trainer = NewTrainer /\ trainer.state = "idle" /\ trainer.focused
      /\ state = "awaiting_capture_ready" /\ result = None
      /\ requestedStatus = "interrupted"
  BY DEF SessionInit, NewTrainer
<1>4. SessionTypeOK
  BY <1>1, <1>2 DEF SessionInit, SessionTypeOK, Open, Requests, StopReasons
<1> QED
  BY <1>2, <1>3, <1>4 DEF SessionInv, SoundTrainer, StartInv, PlayNeedsFocus,
     StoppedMeansStill, CompletionInv, ResultInv, Live, Closed

LEMMA SessionNextStep == SessionInv /\ [SessionNext]_sessionVars => SessionInv'
<1> SUFFICES ASSUME SessionInv, [SessionNext]_sessionVars PROVE SessionInv'
  OBVIOUS
<1>1. CASE SessionCall
  BY <1>1, TryStartStep, PlayCallsStep, SetFocusStep, ResumeStep, ReportsStep, StopsStep
     DEF SessionCall
<1>2. CASE ObserveCapture \/ TryFinalize
  BY <1>2, StopsStep, TryFinalizeStep
<1>3. CASE CaptureMoves \/ DiskFails \/ SessionOver \/ UNCHANGED sessionVars
  BY <1>3, EnvironmentStep DEF SessionOver
<1> QED
  BY <1>1, <1>2, <1>3 DEF SessionNext

\* The inductive invariant holds in every state a session reaches.
THEOREM SessionInvariant == SessionSpec => []SessionInv
BY SessionInitInv, SessionNextStep, PTL DEF SessionSpec

\* Every variable keeps its type, whatever the calls and faults: the counters of the
\* trainer and of the journal stay within the plan.
THEOREM SessionIsTyped == SessionSpec => []SessionTypeOK
<1>1. SessionInv => SessionTypeOK
  BY DEF SessionInv
<1> QED
  BY <1>1, SessionInvariant, PTL

\* No target is live, and no time runs, while the window has no focus.
THEOREM FocusGuardsPlay == SessionSpec => []PlayNeedsFocus
<1>1. SessionInv => PlayNeedsFocus
  BY DEF SessionInv
<1> QED
  BY <1>1, SessionInvariant, PTL

\* Whatever stops the session stops the trainer in the same step, for good.
THEOREM StopFreezesTrainer == SessionSpec => []StoppedMeansStill
<1>1. SessionInv => StoppedMeansStill
  BY DEF SessionInv
<1> QED
  BY <1>1, SessionInvariant, PTL

\* A session sealed as complete was played to its end over a capture that published
\* itself, without recovery.
THEOREM CompletionIsEarned == SessionSpec => []CompleteIsEarned
<1>1. SessionInv => CompleteIsEarned
  <2>1. None.status = "none"
    BY DEF None
  <2> QED
    BY <2>1 DEF SessionInv, ResultInv, CompleteIsEarned
<1> QED
  BY <1>1, SessionInvariant, PTL

\* A sealed journal holds all the trainer finalized.
THEOREM JournalIsWhole == SessionSpec => []SealedJournalIsWhole
<1>1. SessionInv => SealedJournalIsWhole
  BY DEF SessionInv, ResultInv, SealedJournalIsWhole
<1> QED
  BY <1>1, SessionInvariant, PTL

\* A session sealed over anything but a published PCAP is sealed as capture lost.
THEOREM UnpublishedIsLost == SessionSpec => []UnpublishedIsCaptureLost
<1>1. SessionInv => UnpublishedIsCaptureLost
  BY DEF SessionInv, ResultInv, UnpublishedIsCaptureLost
<1> QED
  BY <1>1, SessionInvariant, PTL

\* The claim of authoritative evidence rests on records of the selected device.
THEOREM EvidenceIsReal == SessionSpec => []VerifiedMeansRecords
<1>1. SessionInv => VerifiedMeansRecords
  <2>1. None.verified = FALSE
    BY DEF None
  <2> QED
    BY <2>1 DEF SessionInv, ResultInv, VerifiedMeansRecords
<1> QED
  BY <1>1, SessionInvariant, PTL

\* The three together, as the runs check them: a sealed session never claims more
\* than was played, published and recorded.
THEOREM SealAlwaysTellsTheTruth == SessionSpec => []SealTellsTheTruth
BY CompletionIsEarned, UnpublishedIsLost, EvidenceIsReal, PTL DEF SealTellsTheTruth

\* A manual or technical pause is not lifted by the window regaining its focus.
THEOREM PauseSurvivesFocus == SessionSpec => PauseOutlivesFocus
<1> DEFINE Kept == trainer.state = "paused" /\ trainer.reason # "focus_lost"
                     /\ trainer'.state # "paused" => UNCHANGED focusVars
<1>1. SessionInv /\ [SessionNext]_sessionVars => [Kept]_sessionVars
  <2> SUFFICES ASSUME SessionInv, SessionNext, trainer.state = "paused",
                      trainer.reason # "focus_lost", trainer'.state # "paused"
               PROVE  UNCHANGED focusVars
    OBVIOUS
  <2>1. ASSUME NEW focus \in BOOLEAN, NEW mini \in BOOLEAN, SetFocus(focus, mini)
        PROVE  UNCHANGED focusVars
    <3>1. trainer \in Trainer /\ AdvanceTo(trainer) = {trainer}
      BY DEF SessionInv, SoundTrainer, AdvanceTo
    <3>2. PauseInternal(trainer, "manual_pause") = trainer
      BY DEF PauseInternal, Running, Live
    <3>3. \A t \in SetFocused(trainer, focus /\ ~mini) :
            t.state = "paused" /\ PauseInternal(t, "manual_pause") = t
      <4> SUFFICES ASSUME NEW is \in BOOLEAN
                   PROVE  /\ FocusTrainer(trainer, is).state = "paused"
                          /\ PauseInternal(FocusTrainer(trainer, is), "manual_pause")
                               = FocusTrainer(trainer, is)
        BY <3>1 DEF SetFocused
      <4> QED
        BY <3>1 DEF FocusTrainer, PauseInternal, Running, Live, Trainer
    <3> QED
      BY <2>1, <3>1, <3>2, <3>3 DEF SetFocus, Goes, StorageFails, HandleStorageFailure
  <2>2. CASE TryStart \/ AdvanceSession \/ SubmitPacket \/ PresentTarget \/ ManualPause
             \/ ResumeAfterRecoverableIssue
    BY <2>2 DEF TryStart, AdvanceSession, SubmitPacket, PresentTarget, ManualPause,
       ResumeAfterRecoverableIssue
  <2>3. CASE \/ \E issue \in InterruptionIssues : ReportInterruption(issue)
             \/ ReportDiagnostic \/ ReportStorageLow \/ ClockAnchorFails
             \/ RequestParticipantStop
    BY <2>3 DEF ReportInterruption, ReportDiagnostic, ReportStorageLow,
       ClockAnchorFails, RequestParticipantStop, NoLook
  <2>4. CASE ObserveCapture \/ TryFinalize \/ CaptureMoves \/ DiskFails \/ SessionOver
    BY <2>4 DEF ObserveCapture, TryFinalize, CaptureMoves, notCapture, DiskFails,
       SessionOver, sessionVars
  <2> QED
    BY <2>1, <2>2, <2>3, <2>4 DEF SessionNext, SessionCall
<1> QED
  BY <1>1, SessionInvariant, PTL DEF SessionSpec, PauseOutlivesFocus

\* Play needs the focus and a session that is not stopped, in well-typed states only.
THEOREM PlayIsAlwaysGuarded == SessionSpec => []PlayIsGuarded
BY SessionIsTyped, FocusGuardsPlay, StopFreezesTrainer, PTL DEF PlayIsGuarded
------------------------------------------------------------------------------
(***************************************************************************)
(* The types.                                                              *)
(***************************************************************************)
Stages == PreCaptureStages \cup FailingStages \cup Ended \cup {"stopping_and_preserving"}

Flow ==
  [stage : Stages, blockers : SUBSET Blockers, manual : BOOLEAN,
   problem : Problems \cup {"none"}, sensitivity : BOOLEAN, length : BOOLEAN,
   prefix : Preserved, send : BOOLEAN]

SetFocusCalls == {<<"set_focus", focus, mini>> : focus \in BOOLEAN, mini \in BOOLEAN}
ReportCalls   == {<<"report", issue>> : issue \in InterruptionIssues}
PlainCalls    == {<<"storage_low">>, <<"advance">>}
\* Calls that no other call of their handler follows.
FinalCalls    == {<<"participant_stop">>, <<"manual_pause">>, <<"try_start">>,
                  <<"manual_resume">>, <<"resume">>, <<"drive">>}
Calls == SetFocusCalls \cup ReportCalls \cup PlainCalls \cup FinalCalls

AppTypes ==
  /\ flow \in Flow /\ app \in App /\ mouse \in Mouse
  /\ window \in [focus : BOOLEAN, iconic : BOOLEAN] /\ todo \in Seq(Calls)

(***************************************************************************)
(* What the operators of the flow do to a flow.                            *)
(***************************************************************************)
\* Same but for the stage, and what is not looked at here.
Same(f, g) ==
  g.blockers = f.blockers /\ g.manual = f.manual /\ g.prefix = f.prefix /\ g.send = f.send

LEMMA StepEffect ==
  ASSUME NEW f \in Flow,
         NEW e \in {<<"start_capture", "ready_to_start", "starting_capture">>,
                    <<"capture_started", "starting_capture", "ready">>,
                    <<"countdown_finished", "countdown", "playing">>,
                    <<"resume_countdown_finished", "resume_countdown", "playing">>}
  PROVE  /\ Step(f, e[1]) \in Flow /\ Same(f, Step(f, e[1]))
         /\ Step(f, e[1]).stage = IF f.stage = e[2] THEN e[3] ELSE f.stage
         /\ f.stage # e[2] => Step(f, e[1]) = f
<1> DEFINE found == {s \in Steps : s[1] = e[1] /\ s[2] = f.stage}
<1>1. \A s \in Steps : s[1] = e[1] => s = e
  BY DEF Steps
<1>2. e \in Steps /\ e[1] \notin Forgetting
  BY DEF Steps, Forgetting
<1>3. CASE f.stage = e[2]
  <2>1. found = {e}
    BY <1>1, <1>2, <1>3
  <2>2. (CHOOSE s \in found : TRUE) = e
    BY <2>1
  <2>3. Step(f, e[1]) = [f EXCEPT !.stage = e[3], !.problem = f.problem]
    BY <1>2, <2>1, <2>2 DEF Step
  <2>4. e[3] \in Stages
    BY DEF Stages, FailingStages, GameplayStages
  <2> QED
    BY <1>3, <2>3, <2>4 DEF Flow, Same
<1>4. CASE f.stage # e[2]
  <2>1. found = {}
    BY <1>1, <1>4
  <2> QED
    BY <1>4, <2>1 DEF Step, Same
<1> QED
  BY <1>3, <1>4

\* Steps within the game: neither the outcome nor any other stage is touched.
Plays(f, g) ==
  /\ g \in Flow /\ g.prefix = f.prefix /\ g.send = f.send
  /\ f.stage \in GameplayStages => g.stage \in GameplayStages
  /\ f.stage \notin GameplayStages => g = f

\* The blockers a flow keeps are those of one that waits.
Waits(f) == f.blockers # {} => f.stage \in {"paused", "ready"}

RunningFlow(f) == f.stage \in {"countdown", "playing", "resume_countdown"}

LEMMA PauseForEffect ==
  ASSUME NEW f \in Flow, NEW b \in Blockers
  PROVE  LET g == PauseForBlocker(f, b)
         IN /\ Plays(f, g) /\ (Waits(f) => Waits(g))
            /\ IsGameplayStage(f) => g.stage = "paused" /\ g.blockers = f.blockers \cup {b}
            /\ ~IsGameplayStage(f) => g = f
BY DEF PauseForBlocker, Plays, Waits, IsGameplayStage, Flow, Stages, FailingStages, GameplayStages

LEMMA ClearEffect ==
  ASSUME NEW f \in Flow, NEW b \in Blockers
  PROVE  LET g == ClearBlocker(f, b)
         IN /\ Plays(f, g) /\ (Waits(f) => Waits(g))
            /\ f.stage = "paused" => g.stage \in {"paused", "resume_countdown"}
                                     /\ g.blockers = f.blockers \ {b}
            /\ f.stage # "paused" => g = f
<1> DEFINE s == IF f.blockers = {b} /\ ~f.manual THEN "resume_countdown" ELSE f.stage
           h == [f EXCEPT !.blockers = f.blockers \ {b}, !.stage = s]
<1>1. CASE f.stage # "paused" \/ b \notin f.blockers
  <2>1. ClearBlocker(f, b) = f
    BY <1>1 DEF ClearBlocker
  <2>2. f.stage = "paused" => f.blockers \ {b} = f.blockers
    BY <1>1 DEF Flow
  <2> QED
    BY <2>1, <2>2 DEF Plays
<1>2. CASE f.stage = "paused" /\ b \in f.blockers
  <2>1. ClearBlocker(f, b) = h
    BY <1>2 DEF ClearBlocker
  <2>2. s \in {"paused", "resume_countdown"} /\ s \in Stages /\ "paused" \in GameplayStages
        /\ s \in GameplayStages
    BY <1>2 DEF Stages, FailingStages, GameplayStages
  <2>3. s = "resume_countdown" => f.blockers \ {b} = {}
    BY <1>2
  <2> HIDE DEF s
  <2>4. /\ h \in Flow /\ h.stage = s /\ h.blockers = f.blockers \ {b}
        /\ h.prefix = f.prefix /\ h.send = f.send
    BY <2>2 DEF Flow
  <2> HIDE DEF h
  <2> QED
    BY <1>2, <2>1, <2>2, <2>3, <2>4 DEF Plays, Waits
<1> QED
  BY <1>1, <1>2

LEMMA InputLostEffect ==
  ASSUME NEW f \in Flow
  PROVE  LET g == GameplayInputLost(f)
         IN /\ Plays(f, g) /\ (Waits(f) => Waits(g)) /\ ~RunningFlow(g)
            /\ f.blockers \subseteq g.blockers
            /\ f.stage \in GameplayStages => "input" \in g.blockers
            /\ g.stage = f.stage \/ IsGameplayStage(f)
<1>1. CASE f.stage = "ready"
  <2>1. GameplayInputLost(f) = [f EXCEPT !.blockers = f.blockers \cup {"input"}]
    BY <1>1 DEF GameplayInputLost
  <2> QED
    BY <1>1, <2>1 DEF Plays, Waits, RunningFlow, IsGameplayStage, Flow, Stages, FailingStages,
       GameplayStages, Blockers
<1>2. CASE f.stage # "ready"
  BY <1>2, PauseForEffect DEF GameplayInputLost, IsGameplayStage, RunningFlow, GameplayStages, Blockers
<1> QED
  BY <1>1, <1>2

LEMMA InputRestoredEffect ==
  ASSUME NEW f \in Flow
  PROVE  LET g == GameplayInputRestored(f)
         IN /\ Plays(f, g) /\ (Waits(f) => Waits(g))
            /\ f.blockers \ {"input"} \subseteq g.blockers
            /\ g.stage # f.stage => g.stage = "resume_countdown" /\ f.stage = "paused"
<1>1. CASE f.stage = "ready"
  <2>1. GameplayInputRestored(f) = [f EXCEPT !.blockers = f.blockers \ {"input"}]
    BY <1>1 DEF GameplayInputRestored
  <2> QED
    BY <1>1, <2>1 DEF Plays, Waits, Flow, Stages, FailingStages, GameplayStages, Blockers
<1>2. CASE f.stage # "ready"
  BY <1>2, ClearEffect DEF GameplayInputRestored, Blockers
<1> QED
  BY <1>1, <1>2

LEMMA CountedEffect ==
  ASSUME NEW f \in Flow
  PROVE  LET g == Counted(f)
         IN /\ Plays(f, g) /\ g.blockers = f.blockers /\ (Waits(f) => Waits(g))
            /\ g.stage # f.stage => RunningFlow(f) /\ g.stage = "playing"
<1> DEFINE e == <<"countdown_finished", "countdown", "playing">>
           h == Step(f, "countdown_finished")
           d == <<"resume_countdown_finished", "resume_countdown", "playing">>
           g == Step(h, "resume_countdown_finished")
<1>1. /\ h \in Flow /\ Same(f, h) /\ h.stage = IF f.stage = "countdown" THEN "playing" ELSE f.stage
      /\ f.stage # "countdown" => h = f
  <2>1. e[1] = "countdown_finished" /\ e[2] = "countdown" /\ e[3] = "playing"
    OBVIOUS
  <2> QED
    BY <2>1, StepEffect
<1> HIDE DEF h
<1>2. /\ g \in Flow /\ Same(h, g)
      /\ g.stage = IF h.stage = "resume_countdown" THEN "playing" ELSE h.stage
      /\ h.stage # "resume_countdown" => g = h
  <2>1. d[1] = "resume_countdown_finished" /\ d[2] = "resume_countdown" /\ d[3] = "playing"
    OBVIOUS
  <2> QED
    BY <1>1, <2>1, StepEffect
<1> HIDE DEF g
<1>3. Counted(f) = IF ~CountdownReachedGameplay THEN f ELSE g
  BY DEF Counted, g, h
<1> QED
  BY <1>1, <1>2, <1>3 DEF Plays, Same, Waits, RunningFlow, GameplayStages

LEMMA ManualEffect ==
  ASSUME NEW f \in Flow
  PROVE  /\ Plays(f, ManuallyPaused(f)) /\ ManuallyPaused(f).blockers = f.blockers
         /\ ~RunningFlow(ManuallyPaused(f)) /\ (Waits(f) => Waits(ManuallyPaused(f)))
         /\ IsGameplayStage(ManuallyPaused(f)) <=> IsGameplayStage(f)
BY DEF ManuallyPaused, CanManuallyPause, Plays, Waits, RunningFlow, IsGameplayStage, Flow,
   Stages, FailingStages, GameplayStages

\* What starts the trainer leaves a flow that nothing blocks.
LEMMA BeginEffect ==
  ASSUME NEW f \in Flow
  PROVE  LET g == BeginCountdown(f)
         IN /\ Plays(f, g) /\ g.blockers = f.blockers /\ (Waits(f) => Waits(g))
            /\ g # f => g.blockers = {} /\ f.stage = "ready"
BY DEF BeginCountdown, CanBeginCountdown, Plays, Waits, Flow, Stages, FailingStages, GameplayStages

LEMMA ResumedEffect ==
  ASSUME NEW f \in Flow
  PROVE  LET g == Resumed(f)
         IN /\ Plays(f, g) /\ g.blockers = f.blockers /\ (Waits(f) => Waits(g))
            /\ g # f => g.blockers = {} /\ f.stage = "paused"
BY DEF Resumed, CanResumeFlow, Plays, Waits, Flow, Stages, FailingStages, GameplayStages

(***************************************************************************)
(* The end of a flow.                                                      *)
(***************************************************************************)
LEMMA FinishEffect ==
  ASSUME NEW f \in Flow
  PROVE  LET g == Finishing(f)
         IN /\ g \in Flow /\ g.prefix = f.prefix /\ g.send = f.send
            /\ f.stage \in GameplayStages => g.stage = "stopping_and_saving" /\ g.blockers = {}
            /\ f.stage \notin GameplayStages => g = f
BY DEF Finishing, FinishSession, Stopping, Flow, Stages, FailingStages, GameplayStages

LEMMA DestructiveEffect ==
  ASSUME NEW f \in Flow
  PROVE  LET g == DestructiveFailure(f)
         IN /\ g \in Flow /\ g.send = f.send
            /\ f.stage \in FailingStages =>
                 g.stage = "stopping_and_preserving" /\ g.blockers = {} /\ g.prefix = "pending"
            /\ f.stage \notin FailingStages => g = f
BY DEF DestructiveFailure, Flow, Stages, FailingStages, GameplayStages, Preserved

LEMMA SettledEffect ==
  ASSUME NEW f \in Flow, NEW o \in {"preserved", "unverified", "failed"}
  PROVE  LET g == PrefixSettled(f, o)
         IN /\ g \in Flow
            /\ f.stage = "stopping_and_preserving" =>
                 /\ g.stage = "error" /\ g.prefix = o /\ g.send = (o # "failed")
                 /\ g.blockers = f.blockers
            /\ f.stage # "stopping_and_preserving" => g = f
<1>1. CASE f.stage = "stopping_and_preserving"
  <2> DEFINE sent == o # "failed"
             g    == [f EXCEPT !.prefix = o, !.send = sent, !.stage = "error"]
  <2>1. PrefixSettled(f, o) = g
    BY <1>1 DEF PrefixSettled
  <2>2. sent \in BOOLEAN /\ "error" \in Stages /\ o \in Preserved
    BY DEF Stages, Ended, Preserved
  <2> HIDE DEF sent
  <2>3. /\ g \in Flow /\ g.stage = "error" /\ g.prefix = o /\ g.send = sent
        /\ g.blockers = f.blockers
    BY <2>2 DEF Flow
  <2> HIDE DEF g
  <2> QED
    BY <1>1, <2>1, <2>3 DEF sent
<1>2. CASE f.stage # "stopping_and_preserving"
  BY <1>2 DEF PrefixSettled
<1> QED
  BY <1>1, <1>2

LEMMA SavedEffect ==
  ASSUME NEW f \in Flow
  PROVE  LET g == SaveCompleted(f)
         IN /\ g \in Flow
            /\ f.stage = "stopping_and_saving" =>
                 g.stage = "complete" /\ g.send /\ g.prefix = f.prefix /\ g.blockers = f.blockers
            /\ f.stage # "stopping_and_saving" => g = f
BY DEF SaveCompleted, Flow, Stages, Ended

LEMMA FollowedEffect ==
  ASSUME NEW f \in Flow
  PROVE  LET g == StopFollowed(f)
         IN /\ g \in Flow /\ g.send = f.send
            /\ g # f => /\ Stopping(g) /\ g.blockers = {} /\ ~Stopping(f)
                        /\ f.stage \in GameplayStages \cup {"starting_capture"}
                        /\ g.prefix \in {f.prefix, "pending"}
            /\ f.stage \in GameplayStages => Stopping(g)
<1>1. CASE Stopping(f)
  BY <1>1 DEF StopFollowed, Stopping, GameplayStages
<1>2. CASE ~Stopping(f) /\ capture.fatal # "none"
  <2>1. StopFollowed(f) = DestructiveFailure(f)
    BY <1>2 DEF StopFollowed
  <2> QED
    BY <1>2, <2>1, DestructiveEffect DEF Stopping, FailingStages
<1>3. CASE ~Stopping(f) /\ capture.fatal = "none"
  <2>1. StopFollowed(f) = Finishing(f)
    BY <1>3 DEF StopFollowed, Finishing
  <2> QED
    BY <1>3, <2>1, FinishEffect DEF Stopping
<1> QED
  BY <1>1, <1>2, <1>3

\* What the participant is told of a result follows from the result.
LEMMA ToldEffect ==
  ASSUME NEW f \in Flow, NEW sealed \in BOOLEAN, NEW r
  PROVE  LET g == Told(f, sealed, r)
         IN /\ g \in Flow
            /\ ~Stopping(f) => g = f
            /\ Stopping(f) =>
                 /\ g.stage \in {"complete", "error"} /\ (Waits(f) => g.blockers = {})
                 /\ g.stage = "complete" =>
                      /\ sealed /\ ~r.recovered /\ r.status # "capture_lost"
                      /\ g.prefix = f.prefix
                 /\ g.stage = "error" =>
                      /\ g.prefix = IF ~sealed THEN "failed"
                                    ELSE IF r.verified THEN "preserved" ELSE "unverified"
                      /\ g.send = sealed
<1> DEFINE o == IF ~sealed THEN "failed" ELSE IF r.verified THEN "preserved" ELSE "unverified"
           bad == ~sealed \/ r.recovered \/ r.status = "capture_lost"
           h == IF f.stage = "stopping_and_saving" /\ bad THEN DestructiveFailure(f) ELSE f
<1>1. /\ Told(f, sealed, r) = IF h.stage = "stopping_and_saving" THEN SaveCompleted(h)
                              ELSE PrefixSettled(h, o)
      /\ o \in {"preserved", "unverified", "failed"} /\ (o # "failed") = sealed
  BY DEF Told
<1>2. /\ h \in Flow
      /\ f.stage = "stopping_and_saving" /\ bad =>
           h.stage = "stopping_and_preserving" /\ h.blockers = {}
      /\ ~(f.stage = "stopping_and_saving" /\ bad) => h = f
  BY DestructiveEffect DEF FailingStages
<1>3. ~bad => sealed /\ ~r.recovered /\ r.status # "capture_lost"
  OBVIOUS
<1> HIDE DEF o, h, bad
<1>4. CASE f.stage = "stopping_and_saving" /\ ~bad
  <2>1. h = f /\ Told(f, sealed, r) = SaveCompleted(f)
    BY <1>1, <1>2, <1>4
  <2>2. Waits(f) => f.blockers = {}
    BY <1>4 DEF Waits
  <2>3. sealed /\ ~r.recovered /\ r.status # "capture_lost"
    BY <1>3, <1>4
  <2>4. /\ SaveCompleted(f) \in Flow /\ SaveCompleted(f).stage = "complete"
        /\ SaveCompleted(f).prefix = f.prefix /\ SaveCompleted(f).blockers = f.blockers
    BY <1>4, SavedEffect
  <2> QED
    BY <1>4, <2>1, <2>2, <2>3, <2>4 DEF Stopping
<1>5. CASE f.stage = "stopping_and_saving" /\ bad
  <2>1. Told(f, sealed, r) = PrefixSettled(h, o)
    BY <1>1, <1>2, <1>5
  <2> QED
    BY <1>1, <1>2, <1>5, <2>1, SettledEffect DEF Stopping, o
<1>6. CASE f.stage = "stopping_and_preserving"
  <2>1. h = f /\ Told(f, sealed, r) = PrefixSettled(f, o)
    BY <1>1, <1>2, <1>6
  <2>2. Waits(f) => f.blockers = {}
    BY <1>6 DEF Waits
  <2> QED
    BY <1>1, <1>6, <2>1, <2>2, SettledEffect DEF Stopping, o
<1>7. CASE ~Stopping(f)
  BY <1>1, <1>2, <1>7, SettledEffect DEF Stopping
<1> QED
  BY <1>4, <1>5, <1>6, <1>7 DEF Stopping

(***************************************************************************)
(* The session under the application.                                      *)
(***************************************************************************)
\* Stops and failed writes end what the session was doing.
LEMMA StopsEffect ==
  /\ \A t, upto : HandleStorageFailure(t, upto) => state' = "stop_requested"
  /\ \A s, r, y, t, u, b : BeginStop(s, r, y, t, u, b) => state' = "stop_requested"
  /\ \A i : BeginDestructiveStop(i) => state' = "stop_requested"
  /\ ObserveCapture \/ ReportStorageLow \/ RequestParticipantStop => state' = "stop_requested"
<1>1. \A t, upto : HandleStorageFailure(t, upto) => state' = "stop_requested"
  BY DEF HandleStorageFailure
<1>2. \A s, r, y, t, u, b : BeginStop(s, r, y, t, u, b) => state' = "stop_requested"
  BY DEF BeginStop
<1>3. \A i : BeginDestructiveStop(i) => state' = "stop_requested"
  BY <1>1, <1>2 DEF BeginDestructiveStop
<1> QED
  BY <1>1, <1>2, <1>3 DEF ObserveCapture, ReportStorageLow, RequestParticipantStop

\* A trainer is paused in a recording session at no time.
RecordingInv == state = "recording" => trainer.state # "paused"

\* Nothing but an interruption, a pause that was asked for or the loss of the focus
\* pauses a session; nothing changes one that is over.
LEMMA PlaysOn ==
  ASSUME SessionInv, RecordingInv,
         AdvanceSession \/ SubmitPacket \/ PresentTarget \/ TryStart
  PROVE  /\ RecordingInv' /\ (state' = "paused" => state = "paused")
         /\ state \notin Closed /\ state' \notin Closed
<1> DEFINE goal == /\ RecordingInv' /\ (state' = "paused" => state = "paused")
                   /\ state \notin Closed /\ state' \notin Closed
<1>1. SoundTrainer(trainer)
  BY DEF SessionInv
<1>2. ASSUME NEW t, NEW next \in {"recording", "paused"}, state \in {"recording", "paused"},
             next = "recording" => t.state # "paused",
             state = "recording" => next = "recording",
             GoesOrCompletes(t, next) \/ Goes(t, next, warned) \/ StorageFails(t)
      PROVE  goal
  <2>1. CASE Goes(t, next, warned)
    BY <1>2, <2>1 DEF Goes, RecordingInv, Closed
  <2>2. CASE state' = "stop_requested"
    BY <1>2, <2>2 DEF RecordingInv, Closed
  <2> QED
    BY <1>2, <2>1, <2>2, StopsEffect DEF GoesOrCompletes, StorageFails
<1>3. CASE AdvanceSession
  <2>1. PICK t \in AdvanceTo(trainer) : GoesOrCompletes(t, PausedOr(t)) \/ StorageFails(t)
    BY <1>3 DEF AdvanceSession
  <2>2. state \in {"recording", "paused"} /\ (state = "recording" => t.state # "paused")
    BY <1>1, <1>3, AdvanceEffect DEF AdvanceSession, RecordingInv, Moved, Running, Live
  <2>3. /\ PausedOr(t) \in {"recording", "paused"}
        /\ (PausedOr(t) = "recording") = (t.state # "paused")
    BY DEF PausedOr
  <2> QED
    BY <1>2, <2>1, <2>2, <2>3
<1>4. CASE SubmitPacket
  <2>1. state = "recording"
    BY <1>4 DEF SubmitPacket
  <2>2. PICK t \in SubmitRawInput(trainer) : GoesOrCompletes(t, "recording") \/ StorageFails(t)
    BY <1>4 DEF SubmitPacket
  <2>3. t.state # "paused"
    <3>1. \A u \in AdvanceTo(trainer) : u.state # "paused" /\ u \in Trainer
      BY <1>1, <2>1, AdvanceEffect
         DEF RecordingInv, Moved, SoundTrainer, Running, Live
    <3>2. CASE t \in AdvanceTo(trainer)
      BY <3>1, <3>2
    <3>3. ASSUME NEW u \in AdvanceTo(trainer), t = [u EXCEPT !.state = "event_tail"]
          PROVE  t.state # "paused"
      BY <3>1, <3>3 DEF Trainer
    <3> QED
      BY <3>2, <3>3 DEF SubmitRawInput
  <2> QED
    BY <1>2, <2>1, <2>2, <2>3
<1>5. CASE PresentTarget
  <2>1. state = "recording"
    BY <1>5 DEF PresentTarget
  <2>2. PICK t \in AcknowledgeTargetPresented(trainer) :
          Goes(t, "recording", warned) \/ StorageFails(t)
    BY <1>5 DEF PresentTarget
  <2>3. t.state # "paused"
    <3>1. PICK u \in AdvanceTo(trainer) :
            t = IF u.state = "awaiting_presentation"
                  THEN [u EXCEPT !.state = "event_active", !.fresh = FALSE] ELSE u
      BY <2>2 DEF AcknowledgeTargetPresented
    <3>2. u.state # "paused" /\ u \in Trainer
      BY <1>1, <2>1, <3>1, AdvanceEffect
         DEF RecordingInv, Moved, SoundTrainer, Running, Live
    <3> QED
      BY <3>1, <3>2 DEF Trainer
  <2> QED
    BY <1>2, <2>1, <2>2, <2>3
<1>6. CASE TryStart
  <2>1. /\ state = "awaiting_capture_ready"
        /\ Goes(StartTrainer(trainer), "recording", warned) \/ StorageFails(StartTrainer(trainer))
    BY <1>6 DEF TryStart
  <2>2. StartTrainer(trainer).state = "countdown"
    BY <1>1 DEF SoundTrainer, StartTrainer, StartBlockCountdown, Trainer
  <2>3. state \notin Closed /\ "stop_requested" \notin Closed /\ "recording" \notin Closed
    BY <2>1 DEF Closed
  <2> QED
    BY <2>1, <2>2, <2>3, StopsEffect DEF Goes, StorageFails, RecordingInv
<1> QED
  BY <1>3, <1>4, <1>5, <1>6

\* A resume that applies leaves no session paused.
LEMMA ResumeEnds ==
  ASSUME SessionInv, ResumeAfterRecoverableIssue
  PROVE  RecordingInv' /\ state' \in {"recording", "stop_requested"} /\ state = "paused"
<1>1. SoundTrainer(trainer) /\ state = "paused"
  BY DEF SessionInv, ResumeAfterRecoverableIssue
<1>2. PICK t \in AdvanceTo(trainer) :
        IF CanResume(t)
          THEN \/ Goes(StartResumeCountdown(t), "recording", warned)
               \/ HandleStorageFailure(StartResumeCountdown(t), drained)
          ELSE HandleIntegrityFailure(t)
  BY DEF ResumeAfterRecoverableIssue
<1>3. t \in Trainer
  BY <1>1, <1>2, AdvancePlays DEF Played, SoundTrainer
<1>4. StartResumeCountdown(t).state = "countdown"
  BY <1>3 DEF StartResumeCountdown, Trainer
<1>5. CASE Goes(StartResumeCountdown(t), "recording", warned)
  BY <1>1, <1>4, <1>5 DEF Goes, RecordingInv
<1>6. CASE state' = "stop_requested"
  BY <1>1, <1>6 DEF RecordingInv
<1> QED
  BY <1>2, <1>5, <1>6, StopsEffect DEF HandleIntegrityFailure

\* Telling a session where the focus is pauses it only when the window is out of use.
LEMMA FocusKeeps ==
  ASSUME SessionInv, RecordingInv, NEW focus \in BOOLEAN, NEW mini \in BOOLEAN,
         SetFocus(focus, mini)
  PROVE  /\ RecordingInv' /\ state \in Open /\ state' \notin Closed
         /\ (focus /\ ~mini) /\ state' = "paused" => state = "paused"
         /\ state' \in Open => Focused' = (focus /\ ~mini)
<1> DEFINE is == focus /\ ~mini
<1>1. state \in Open /\ SoundTrainer(trainer)
  BY DEF SetFocus, SessionInv
<1>2. CASE state' = "stop_requested"
  BY <1>1, <1>2 DEF RecordingInv, Open, Closed
<1>3. CASE focused' = focus /\ minimized' = mini /\ UNCHANGED <<trainer, state>>
  BY <1>1, <1>3 DEF RecordingInv, Focused, Open, Closed
<1>4. ASSUME focused' = focus, minimized' = mini, trainer.state # "idle", Focused # is,
             NEW t \in SetFocused(trainer, is), Goes(t, PausedOr(t), warned)
      PROVE  /\ RecordingInv' /\ state' \notin Closed
             /\ is /\ state' = "paused" => state = "paused"
             /\ Focused' = is
  <2>1. trainer' = t /\ state' = PausedOr(t) /\ Focused' = is
    BY <1>4 DEF Goes, Focused
  <2>2. RecordingInv' /\ state' \notin Closed
    BY <2>1 DEF PausedOr, RecordingInv, Closed
  <2>3. ASSUME is, state # "paused" PROVE t.state # "paused"
    <3>1. state = "recording"
      BY <1>1, <1>4, <2>3 DEF SessionInv, StartInv, Open
    <3>2. trainer.state \notin Running
      BY <1>4, <2>3, <3>1 DEF SessionInv, PlayNeedsFocus
    <3>3. PICK u \in AdvanceTo(trainer) : t = FocusTrainer(u, is)
      BY <1>4 DEF SetFocused
    <3>4. u = trainer /\ u.state # "paused" /\ u \in Trainer
      BY <1>1, <3>1, <3>2, <3>3, AdvanceEffect DEF RecordingInv, SoundTrainer
    <3>5. t = u \/ t = [u EXCEPT !.focused = is]
      BY <2>3, <3>3, <3>4 DEF FocusTrainer, Trainer
    <3> QED
      BY <3>4, <3>5 DEF Trainer
  <2> QED
    BY <2>1, <2>2, <2>3 DEF PausedOr
<1> QED
  BY <1>1, <1>2, <1>3, <1>4, StopsEffect DEF SetFocus, StorageFails, Open

\* The calls that may pause.
LEMMA PausesKeep ==
  ASSUME RecordingInv,
         ManualPause \/ \E issue \in InterruptionIssues : ReportInterruption(issue)
  PROVE  RecordingInv' /\ state \notin Closed /\ state' \notin Closed
<1>1. CASE ManualPause
  <2>1. state = "recording" /\ state' \in {"paused", "stop_requested"}
    BY <1>1, StopsEffect DEF ManualPause, Goes, StorageFails
  <2> QED
    BY <2>1 DEF RecordingInv, Closed
<1>2. ASSUME NEW issue \in InterruptionIssues, ReportInterruption(issue)
      PROVE  RecordingInv' /\ state \notin Closed /\ state' \notin Closed
  <2>1. \/ state' \in {"paused", "stop_requested"}
        \/ UNCHANGED <<trainer, state>>
    BY <1>2, StopsEffect DEF ReportInterruption, Goes, StorageFails
  <2>2. state \notin Closed
    BY <1>2 DEF ReportInterruption
  <2> QED
    BY <2>1, <2>2 DEF RecordingInv, Closed
<1> QED
  BY <1>1, <1>2

LEMMA FinalizeEffect ==
  ASSUME SessionInv, RecordingInv, TryFinalize
  PROVE  /\ RecordingInv' /\ state \notin Closed /\ state' \in Closed
         /\ state' = "finalized" => result'.status # "none"
<1> DEFINE lost == NotClean \/ NotPublished
           last == IF lost THEN "capture_lost" ELSE requestedStatus
<1>1. state = "stop_requested" /\ state' \in {"finalized", "finalization_failed"}
  BY DEF TryFinalize
<1>2. last \in Requests
  BY DEF SessionInv, SessionTypeOK, Requests
<1>3. state' = "finalized" => \E fix, found :
        result' = [status    |-> IF last = "complete" /\ warned'
                                 THEN "complete_with_warnings" ELSE last,
                   recovered |-> fix, verified |-> found]
  BY <1>1 DEF TryFinalize
<1> HIDE DEF last
<1>4. state' = "finalized" => result'.status # "none"
  BY <1>2, <1>3 DEF Requests
<1> QED
  BY <1>1, <1>4 DEF RecordingInv, Closed

\* A session that is over stays as it is, whatever is still called.
LEMMA ClosedStays ==
  ASSUME SessionInv, [SessionNext]_sessionVars, state \in Closed
  PROVE  state' = state /\ result' = result
<1>1. ~ObserveCapture
  BY DEF ObserveCapture, CaptureProblem
<1>2. ~SessionCall
  BY DEF SessionCall, TryStart, AdvanceSession, SubmitPacket, PresentTarget, SetFocus, ManualPause,
     ResumeAfterRecoverableIssue, ReportInterruption, ReportDiagnostic, ReportStorageLow,
     ClockAnchorFails, RequestParticipantStop, Open, Closed
<1>3. ~TryFinalize
  BY DEF TryFinalize, Closed
<1>4. CASE CaptureMoves \/ DiskFails \/ SessionOver \/ UNCHANGED sessionVars
  BY <1>4 DEF CaptureMoves, DiskFails, SessionOver, notCapture, sessionVars
<1> QED
  BY <1>1, <1>2, <1>3, <1>4 DEF SessionNext

(***************************************************************************)
(* The calls.                                                              *)
(***************************************************************************)
LEMMA FocusCall ==
  ASSUME NEW focus \in BOOLEAN, NEW mini \in BOOLEAN,
         Perform(<<"set_focus", focus, mini>>)
  PROVE  \/ ObserveCapture \/ SetFocus(focus, mini)
         \/ UNCHANGED sessionVars /\ ~(state \in Open /\ <<focus, mini>> # focusVars)
<1> DEFINE call == <<"set_focus", focus, mini>>
<1>1. call[1] = "set_focus" /\ call[2] = focus /\ call[3] = mini
  OBVIOUS
<1>2. Looking(state \in Open /\ <<call[2], call[3]>> # focusVars, SetFocus(call[2], call[3]))
  BY <1>1 DEF Perform
<1> QED
  BY <1>1, <1>2 DEF Looking

LEMMA ReportCall ==
  ASSUME NEW issue \in InterruptionIssues, Perform(<<"report", issue>>)
  PROVE  ReportInterruption(issue) \/ UNCHANGED sessionVars
<1> DEFINE call == <<"report", issue>>
<1>1. call[1] = "report" /\ call[2] = issue
  OBVIOUS
<1>2. If(state \notin Closed, ReportInterruption(call[2]))
  BY <1>1 DEF Perform
<1> QED
  BY <1>1, <1>2 DEF If

LEMMA PlainCall ==
  /\ Perform(<<"storage_low">>) => ReportStorageLow \/ UNCHANGED sessionVars
  /\ Perform(<<"participant_stop">>) => RequestParticipantStop \/ UNCHANGED sessionVars
  /\ Perform(<<"manual_pause">>) => ObserveCapture \/ ManualPause \/ UNCHANGED sessionVars
  /\ Perform(<<"advance">>) => ObserveCapture \/ AdvanceSession \/ UNCHANGED sessionVars
  /\ Perform(<<"try_start">>) => \/ ObserveCapture \/ TryStart
                                 \/ UNCHANGED sessionVars /\ ~CanStart
  /\ Perform(<<"manual_resume">>) \/ Perform(<<"resume">>) =>
       \/ ObserveCapture \/ ResumeAfterRecoverableIssue
       \/ UNCHANGED sessionVars /\ ~CanResumeSession
<1>1. /\ <<"storage_low">>[1] = "storage_low" /\ <<"participant_stop">>[1] = "participant_stop"
      /\ <<"manual_pause">>[1] = "manual_pause" /\ <<"advance">>[1] = "advance"
      /\ <<"try_start">>[1] = "try_start" /\ <<"manual_resume">>[1] = "manual_resume"
      /\ <<"resume">>[1] = "resume"
  OBVIOUS
<1>2. Perform(<<"storage_low">>) => ReportStorageLow \/ UNCHANGED sessionVars
  BY <1>1 DEF Perform, If
<1>3. Perform(<<"participant_stop">>) => RequestParticipantStop \/ UNCHANGED sessionVars
  BY <1>1 DEF Perform, If
<1>4. Perform(<<"manual_pause">>) => ObserveCapture \/ ManualPause \/ UNCHANGED sessionVars
  BY <1>1 DEF Perform, Looking
<1>5. Perform(<<"advance">>) => ObserveCapture \/ AdvanceSession \/ UNCHANGED sessionVars
  BY <1>1 DEF Perform, Looking
<1>6. Perform(<<"try_start">>) => \/ ObserveCapture \/ TryStart
                                  \/ UNCHANGED sessionVars /\ ~CanStart
  BY <1>1 DEF Perform, Looking
<1>7. Perform(<<"manual_resume">>) \/ Perform(<<"resume">>) =>
        \/ ObserveCapture \/ ResumeAfterRecoverableIssue
        \/ UNCHANGED sessionVars /\ ~CanResumeSession
  BY <1>1 DEF Perform, Looking
<1> QED
  BY <1>2, <1>3, <1>4, <1>5, <1>6, <1>7

\* Each call is one call of the session, or changes nothing.
LEMMA CallIsSession ==
  ASSUME NEW call \in Calls \ {<<"drive">>}, Perform(call)
  PROVE  [SessionNext]_sessionVars
<1>1. ASSUME NEW focus \in BOOLEAN, NEW mini \in BOOLEAN, call = <<"set_focus", focus, mini>>
      PROVE  [SessionNext]_sessionVars
  BY <1>1, FocusCall DEF SessionNext, SessionCall
<1>2. ASSUME NEW issue \in InterruptionIssues, call = <<"report", issue>>
      PROVE  [SessionNext]_sessionVars
  BY <1>2, ReportCall DEF SessionNext, SessionCall
<1>3. CASE call \in PlainCalls \cup FinalCalls
  BY <1>3, PlainCall DEF PlainCalls, FinalCalls, SessionNext, SessionCall
<1> QED
  BY <1>1, <1>2, <1>3 DEF Calls, SetFocusCalls, ReportCalls

\* What a tick sees of a session that is stopping, or that goes on.
LEMMA DriveEffect ==
  ASSUME SessionInv, RecordingInv, Drive
  PROVE  LET f == Counted(flow)
         IN /\ [SessionNext]_sessionVars /\ RecordingInv'
            /\ \/ flow' = f /\ UNCHANGED <<sessionVars, app>>
               \/ /\ state = "stop_requested" /\ UNCHANGED sessionVars
                  /\ flow' = PrefixSettled(IF f.stage = "stopping_and_saving"
                                             THEN DestructiveFailure(f) ELSE f, "failed")
                  /\ app' = [app EXCEPT !.allow = app.allow \/ app.close]
               \/ /\ state = "stop_requested" /\ state' \in Closed
                  /\ state' = "finalized" => result'.status # "none"
                  /\ flow' = Told(StopFollowed(f), state' = "finalized", result')
                  /\ app' = [app EXCEPT !.handled = TRUE, !.allow = app.allow \/ app.close]
               \/ /\ state = "stop_requested" /\ state' = "stop_requested"
                  /\ flow' = StopFollowed(f) /\ UNCHANGED app
<1>1. CASE UNCHANGED sessionVars
  <2>1. RecordingInv' /\ state' = state
    BY <1>1 DEF RecordingInv, sessionVars
  <2>2. state = "stop_requested" => state' \notin Closed
    BY <2>1 DEF Closed
  <2> QED
    BY <1>1, <2>1, <2>2 DEF Drive
<1>2. CASE ~UNCHANGED sessionVars
  <2>1. /\ state = "stop_requested"
        /\ ObserveCapture \/ TryFinalize
        /\ IF state' \in Closed
             THEN /\ flow' = Told(StopFollowed(Counted(flow)), state' = "finalized", result')
                  /\ app' = [app EXCEPT !.handled = TRUE, !.allow = app.allow \/ app.close]
             ELSE flow' = StopFollowed(Counted(flow)) /\ UNCHANGED app
    BY <1>2 DEF Drive
  <2>2. CASE ObserveCapture
    BY <2>1, <2>2, StopsEffect DEF SessionNext, RecordingInv, Closed
  <2>3. CASE TryFinalize
    BY <2>1, <2>3, FinalizeEffect DEF SessionNext
  <2> QED
    BY <2>1, <2>2, <2>3
<1> QED
  BY <1>1, <1>2

(***************************************************************************)
(* The inductive invariant.                                                *)
(***************************************************************************)
Shown == window.focus /\ ~window.iconic

\* What the participant is told is so of the session, and never becomes untrue.
OutcomeOf(f, s, r) ==
  /\ f.stage = "complete" =>
       s = "finalized" /\ ~r.recovered /\ r.status \notin {"none", "capture_lost"}
  /\ f.prefix = "preserved" => s = "finalized" /\ r.verified
  /\ f.send => s = "finalized"
  /\ f.prefix = "failed" => f.stage = "error"

OutcomeInv == OutcomeOf(flow, state, result)

\* How far the making of the session is.
MadeInv ==
  /\ app.made => flow.stage \notin PreCaptureStages \cup {"starting_capture", "cancelled"}
  /\ ~app.made =>
       /\ todo = <<>> /\ ~mouse.gone /\ state = "awaiting_capture_ready" /\ Focused
       /\ flow.stage \in PreCaptureStages \cup {"starting_capture"} \cup Ended
  /\ app.pending => ~app.made /\ flow.stage = "starting_capture" /\ ~app.allow

\* An end that was shown is one: the session is over or given up.
Settled == state \in Closed \/ flow.prefix = "failed"

EndInv ==
  /\ app.closed => app.allow /\ todo = <<>>
  /\ app.allow => IF app.made THEN Settled ELSE flow.stage \in Ended \/ app.closed
  /\ app.made /\ flow.stage \in Ended => Settled
  /\ app.made /\ app.close => flow.stage \in Ended \/ Stopping(flow) \/ app.closed

\* Whatever keeps the game from being played is one of the flow's blockers.
Blocked(f, w, m) ==
  /\ m.gone /\ f.stage \in GameplayStages => "input" \in f.blockers
  /\ IsGameplayStage(f) /\ ~w.focus => "focus" \in f.blockers
  /\ IsGameplayStage(f) /\ w.iconic => "minimized" \in f.blockers

BlockInv == Waits(flow) /\ Blocked(flow, window, mouse)

\* The calls of a handler that leaves the flow at f: each but the last is followed, a
\* focus that is told is the window's, and what pauses is undone when f is to run.
Pausing == ReportCalls \cup {<<"manual_pause">>}

Resumes(calls) == calls # <<>> /\ calls[Len(calls)] = <<"resume">>

CallsOf(calls, f, shown) ==
  \A i \in 1..Len(calls) :
    /\ calls[i] \in FinalCalls => i = Len(calls)
    /\ \A focus, mini \in BOOLEAN :
         calls[i] = <<"set_focus", focus, mini>> => ((focus /\ ~mini) <=> shown)
    /\ calls[i] = <<"try_start">> => shown
    /\ calls[i] \in Pausing /\ RunningFlow(f) => Resumes(calls)

Tells(calls) == \E i \in 1..Len(calls) : calls[i] \in SetFocusCalls

TodoInv ==
  /\ CallsOf(todo, flow, Shown)
  /\ RunningFlow(flow) /\ state = "paused" => Resumes(todo)
  /\ Shown /\ state \in Open => Focused \/ Tells(todo)

AppInv ==
  /\ SessionInv /\ RecordingInv /\ AppTypes
  /\ OutcomeInv /\ MadeInv /\ EndInv /\ BlockInv /\ TodoInv

(***************************************************************************)
(* Lists of calls.                                                         *)
(***************************************************************************)
LEMMA CallKinds ==
  /\ \A c \in SetFocusCalls : c \notin FinalCalls /\ c \notin Pausing
  /\ \A c \in ReportCalls : c \notin FinalCalls /\ c \notin SetFocusCalls
  /\ \A c \in FinalCalls \cup PlainCalls : c \notin SetFocusCalls /\ c \notin ReportCalls
  /\ \A c \in PlainCalls : c \notin FinalCalls
BY DEF SetFocusCalls, ReportCalls, FinalCalls, PlainCalls, Pausing

LEMMA NoCalls ==
  ASSUME NEW f, NEW shown
  PROVE  <<>> \in Seq(Calls) /\ CallsOf(<<>>, f, shown)
BY DEF CallsOf

LEMMA FocusIsCall ==
  \A focus \in BOOLEAN : \A mini \in BOOLEAN : <<"set_focus", focus, mini>> \in SetFocusCalls
BY DEF SetFocusCalls

\* A last call.
LEMMA LastCall ==
  ASSUME NEW c \in FinalCalls, NEW f, NEW shown,
         c = <<"try_start">> => shown, c = <<"manual_pause">> => ~RunningFlow(f)
  PROVE  /\ <<c>> \in Seq(Calls) /\ CallsOf(<<c>>, f, shown)
         /\ Resumes(<<c>>) <=> c = <<"resume">>
<1>1. <<c>> \in Seq(Calls) /\ Len(<<c>>) = 1 /\ <<c>>[1] = c /\ <<c>> # <<>>
  BY DEF Calls
<1>2. /\ c \notin SetFocusCalls /\ c \notin ReportCalls
      /\ \A focus, mini \in BOOLEAN : c # <<"set_focus", focus, mini>>
  BY CallKinds DEF SetFocusCalls
<1>3. c \in Pausing => c = <<"manual_pause">>
  BY <1>2 DEF Pausing
<1> QED
  BY <1>1, <1>2, <1>3 DEF CallsOf, Resumes

\* Calls that are followed by others.
Leading(calls, shown) ==
  /\ calls \in Seq(SetFocusCalls \cup ReportCalls \cup PlainCalls)
  /\ \A i \in 1..Len(calls) : \A focus, mini \in BOOLEAN :
       calls[i] = <<"set_focus", focus, mini>> => ((focus /\ ~mini) <=> shown)

LEMMA CallsJoin ==
  ASSUME NEW f, NEW shown, NEW a, Leading(a, shown),
         NEW b \in Seq(Calls), CallsOf(b, f, shown),
         RunningFlow(f) => Resumes(b) \/ \A i \in 1..Len(a) : a[i] \notin ReportCalls
  PROVE  /\ a \o b \in Seq(Calls) /\ CallsOf(a \o b, f, shown)
         /\ Resumes(b) => Resumes(a \o b)
         /\ Tells(a) => Tells(a \o b)
<1> DEFINE c == a \o b
<1>1. /\ a \in Seq(Calls) /\ Len(a) \in Nat /\ Len(b) \in Nat
      /\ \A i \in 1..Len(a) : a[i] \in SetFocusCalls \cup ReportCalls \cup PlainCalls
      /\ \A i \in 1..Len(b) : b[i] \in Calls
  <2>1. SetFocusCalls \cup ReportCalls \cup PlainCalls \subseteq Calls
    BY DEF Calls
  <2> QED
    BY <2>1 DEF Leading
<1>2. /\ c \in Seq(Calls) /\ Len(c) = Len(a) + Len(b)
      /\ \A i \in 1..Len(a) : c[i] = a[i]
      /\ \A i \in 1..Len(b) : c[Len(a) + i] = b[i]
      /\ \A i \in 1..Len(c) : i \in 1..Len(a) \/ i - Len(a) \in 1..Len(b)
  BY <1>1
<1>3. ASSUME Resumes(b) PROVE Resumes(c)
  <2>1. b # <<>> /\ Len(b) \in 1..Len(b) /\ b[Len(b)] = <<"resume">>
    BY <1>1, <1>3 DEF Resumes
  <2>2. c[Len(c)] = <<"resume">> /\ Len(c) # 0
    BY <1>1, <1>2, <2>1
  <2> HIDE DEF c
  <2> QED
    BY <2>2 DEF Resumes
<1>4. ASSUME Tells(a) PROVE Tells(c)
  <2>1. PICK i \in 1..Len(a) : a[i] \in SetFocusCalls
    BY <1>4 DEF Tells
  <2>2. i \in 1..Len(c) /\ c[i] = a[i]
    BY <1>1, <1>2
  <2> HIDE DEF c
  <2> QED
    BY <2>1, <2>2 DEF Tells
<1>5. ASSUME NEW i \in 1..Len(c)
      PROVE  /\ c[i] \in FinalCalls => i = Len(c)
             /\ \A focus, mini \in BOOLEAN :
                  c[i] = <<"set_focus", focus, mini>> => ((focus /\ ~mini) <=> shown)
             /\ c[i] = <<"try_start">> => shown
             /\ c[i] \in Pausing /\ RunningFlow(f) => Resumes(c)
  <2>1. CASE i \in 1..Len(a)
    <3>1. c[i] = a[i] /\ c[i] \in SetFocusCalls \cup ReportCalls \cup PlainCalls
      BY <1>1, <1>2, <2>1
    <3>2. c[i] \notin FinalCalls /\ (c[i] \in Pausing => c[i] \in ReportCalls)
      BY <3>1, CallKinds DEF Pausing, FinalCalls
    <3>3. c[i] # <<"try_start">>
      BY <3>2 DEF FinalCalls
    <3> HIDE DEF c
    <3> QED
      BY <1>3, <2>1, <3>1, <3>2, <3>3 DEF Leading
  <2>2. CASE i - Len(a) \in 1..Len(b)
    <3> DEFINE j == i - Len(a)
    <3>1. /\ j \in 1..Len(b) /\ c[i] = b[j] /\ (j = Len(b) => i = Len(c))
      BY <1>1, <1>2, <2>2
    <3> HIDE DEF c, j
    <3> QED
      BY <1>3, <3>1 DEF CallsOf
  <2> QED
    BY <1>2, <2>1, <2>2
<1> HIDE DEF c
<1>6. CallsOf(c, f, shown)
  BY <1>5 DEF CallsOf
<1> QED
  BY <1>2, <1>3, <1>4, <1>6 DEF c

\* The first call is made.
LEMMA CallsTail ==
  ASSUME NEW calls \in Seq(Calls), calls # <<>>, NEW f, NEW g, NEW shown,
         CallsOf(calls, f, shown), RunningFlow(g) => RunningFlow(f) \/ Tail(calls) = <<>>
  PROVE  /\ Tail(calls) \in Seq(Calls) /\ CallsOf(Tail(calls), g, shown)
         /\ Resumes(calls) /\ calls[1] # <<"resume">> => Resumes(Tail(calls))
         /\ Tells(calls) /\ calls[1] \notin SetFocusCalls => Tells(Tail(calls))
         /\ calls[1] \in FinalCalls => Tail(calls) = <<>>
<1> DEFINE t == Tail(calls)
<1>1. /\ Len(calls) \in Nat \ {0} /\ t \in Seq(Calls) /\ Len(t) = Len(calls) - 1
      /\ \A i \in 1..Len(t) : t[i] = calls[i + 1] /\ i + 1 \in 1..Len(calls)
      /\ t = <<>> <=> Len(calls) = 1
  <2>1. Len(calls) \in Nat \ {0}
    BY EmptySeq
  <2>2. t \in Seq(Calls) /\ Len(t) = Len(calls) - 1
    BY HeadTailProperties
  <2>3. \A i \in 1..Len(t) : t[i] = calls[i + 1]
    BY <2>2, HeadTailProperties
  <2> HIDE DEF t
  <2>4. t = <<>> <=> Len(t) = 0
    BY <2>2, EmptySeq
  <2> QED
    BY <2>1, <2>2, <2>3, <2>4
<1> HIDE DEF t
<1>2. ASSUME Resumes(calls), t # <<>> PROVE Resumes(t)
  <2>1. Len(t) \in 1..Len(t) /\ Len(t) + 1 = Len(calls)
    BY <1>1, <1>2
  <2> QED
    BY <1>1, <1>2, <2>1 DEF Resumes
<1>3. ASSUME NEW i \in 1..Len(t)
      PROVE  /\ t[i] \in FinalCalls => i = Len(t)
             /\ \A focus, mini \in BOOLEAN :
                  t[i] = <<"set_focus", focus, mini>> => ((focus /\ ~mini) <=> shown)
             /\ t[i] = <<"try_start">> => shown
             /\ t[i] \in Pausing /\ RunningFlow(g) => Resumes(t)
  <2>1. t[i] = calls[i + 1] /\ i + 1 \in 1..Len(calls) /\ t # <<>>
    BY <1>1
  <2>2. i + 1 = Len(calls) => i = Len(t)
    BY <1>1
  <2> QED
    BY <1>2, <2>1, <2>2 DEF CallsOf, t
<1>4. calls[1] \in FinalCalls => t = <<>>
  BY <1>1 DEF CallsOf
<1>5. ASSUME Tells(calls), calls[1] \notin SetFocusCalls PROVE Tells(t)
  <2>1. PICK i \in 1..Len(calls) : calls[i] \in SetFocusCalls
    BY <1>5 DEF Tells
  <2>2. i # 1 /\ i - 1 \in 1..Len(t) /\ t[i - 1] = calls[i]
    BY <1>1, <1>5, <2>1
  <2> QED
    BY <2>1, <2>2 DEF Tells
<1>6. ASSUME Resumes(calls), calls[1] # <<"resume">> PROVE t # <<>>
  BY <1>1, <1>6 DEF Resumes
<1>7. CallsOf(t, g, shown)
  BY <1>3 DEF CallsOf
<1> QED
  BY <1>1, <1>2, <1>4, <1>5, <1>6, <1>7 DEF t

(***************************************************************************)
(* What keeps the invariant.                                               *)
(***************************************************************************)
LEMMA OutcomePlays ==
  ASSUME NEW f \in Flow, NEW g, NEW s, NEW r, OutcomeOf(f, s, r), Plays(f, g)
  PROVE  OutcomeOf(g, s, r)
BY DEF OutcomeOf, Plays, GameplayStages

\* What was told stays true while the session moves on.
LEMMA OutcomeStays ==
  ASSUME SessionInv, [SessionNext]_sessionVars, NEW f, OutcomeOf(f, state, result)
  PROVE  OutcomeOf(f, state', result')
<1>1. CASE state \in Closed
  BY <1>1, ClosedStays
<1>2. CASE state \notin Closed
  BY <1>2 DEF OutcomeOf, Closed
<1> QED
  BY <1>1, <1>2

LEMMA SettledStays ==
  ASSUME SessionInv, [SessionNext]_sessionVars, state \in Closed
  PROVE  state' \in Closed
BY ClosedStays

LEMMA SessionKept ==
  ASSUME SessionInv, RecordingInv, UNCHANGED sessionVars
  PROVE  /\ SessionInv' /\ RecordingInv' /\ state' = state /\ result' = result
         /\ Focused' = Focused
BY SessionNextStep DEF RecordingInv, sessionVars, focusVars, Focused

\* A handler that leaves the outcome, and the way to it, alone.
LEMMA PlayHandler ==
  ASSUME AppInv, NEW f, NEW calls, Handle(f, calls), Plays(flow, f), Waits(f),
         app' \in App, app'.made = app.made, app'.close = app.close, app'.allow = app.allow,
         app'.closed = app.closed, app'.pending = app.pending,
         mouse' \in Mouse, mouse'.gone => app.made,
         window' \in [focus : BOOLEAN, iconic : BOOLEAN],
         Blocked(f, window', mouse'),
         calls \in Seq(Calls), CallsOf(calls, f, Shown'),
         RunningFlow(f) => RunningFlow(flow) \/ Resumes(calls),
         window' = window \/ ~Shown' \/ Tells(calls)
  PROVE  AppInv'
<1>1. /\ todo = <<>> /\ ~app.closed /\ flow' = f /\ todo' = (IF app.made THEN calls ELSE <<>>)
      /\ UNCHANGED sessionVars
  BY DEF Handle, Idle
<1>2. /\ flow \in Flow /\ f \in Flow
      /\ OutcomeOf(flow, state, result) /\ MadeInv /\ EndInv /\ TodoInv
  BY DEF AppInv, AppTypes, OutcomeInv, Plays
<1>3. /\ SessionInv' /\ RecordingInv' /\ state' = state /\ result' = result
      /\ Focused' = Focused
  BY <1>1, SessionKept DEF AppInv
<1>4. ~app.made => f = flow /\ ~RunningFlow(f)
  BY <1>2 DEF MadeInv, Plays, RunningFlow, GameplayStages, PreCaptureStages, Ended
<1>5. AppTypes'
  BY <1>1, <1>2, NoCalls DEF AppTypes
<1>6. OutcomeInv'
  BY <1>1, <1>2, <1>3, OutcomePlays DEF OutcomeInv
<1>7. MadeInv'
  BY <1>1, <1>2, <1>3, <1>4
     DEF MadeInv, Plays, GameplayStages, PreCaptureStages
<1>8. EndInv'
  <2>1. f.prefix = flow.prefix /\ (f.stage \in Ended => f = flow)
        /\ (Stopping(flow) \/ flow.stage \in Ended => f = flow)
    BY <1>2 DEF Plays, GameplayStages, Ended, Stopping
  <2> QED
    BY <1>1, <1>2, <1>3, <2>1 DEF EndInv, Settled
<1>9. BlockInv'
  BY <1>1 DEF BlockInv
<1>10. CallsOf(todo', f, Shown')
  BY <1>1, NoCalls
<1>11. RunningFlow(f) /\ state' = "paused" => Resumes(todo')
  BY <1>1, <1>2, <1>3, <1>4 DEF TodoInv, Resumes
<1>12. ~Tells(todo)
  BY <1>1 DEF Tells
<1>13. Shown' /\ state' \in Open => Focused' \/ Tells(todo')
  <2>1. CASE ~app.made
    BY <1>2, <1>3, <2>1 DEF MadeInv
  <2>2. CASE app.made /\ window' = window
    <3>1. Shown' = Shown
      BY <2>2 DEF Shown
    <3> QED
      BY <1>2, <1>3, <1>12, <3>1 DEF TodoInv
  <2>3. CASE app.made /\ Tells(calls)
    BY <1>1, <2>3
  <2> QED
    BY <2>1, <2>2, <2>3
<1>14. TodoInv'
  BY <1>1, <1>10, <1>11, <1>13 DEF TodoInv
<1> QED
  BY <1>3, <1>5, <1>6, <1>7, <1>8, <1>9, <1>14 DEF AppInv

\* The calls of handlers.
LEMMA ResumeCallsEffect ==
  ASSUME NEW f, NEW shown
  PROVE  /\ ResumeCalls(f) \in Seq(Calls) /\ CallsOf(ResumeCalls(f), f, shown)
         /\ f.stage = "resume_countdown" => Resumes(ResumeCalls(f))
<1>1. CASE f.stage = "resume_countdown"
  <2>1. ResumeCalls(f) = <<<<"resume">>>>
    BY <1>1 DEF ResumeCalls
  <2>2. <<"resume">> \in FinalCalls /\ <<"resume">> # <<"try_start">>
        /\ <<"resume">> # <<"manual_pause">>
    BY DEF FinalCalls
  <2> QED
    BY <2>1, <2>2, LastCall
<1>2. CASE f.stage # "resume_countdown"
  <2>1. ResumeCalls(f) = <<>>
    BY <1>2 DEF ResumeCalls
  <2> QED
    BY <1>2, <2>1, NoCalls
<1> QED
  BY <1>1, <1>2

LEMMA FocusLeads ==
  ASSUME NEW focus \in BOOLEAN, NEW mini \in BOOLEAN, NEW shown,
         (focus /\ ~mini) <=> shown
  PROVE  LET a == <<<<"set_focus", focus, mini>>>>
         IN /\ Leading(a, shown) /\ Tells(a)
            /\ \A i \in 1..Len(a) : a[i] \notin ReportCalls
<1> DEFINE c == <<"set_focus", focus, mini>>
           a == <<c>>
<1>1. c \in SetFocusCalls /\ c \notin ReportCalls
  BY CallKinds DEF SetFocusCalls, ReportCalls
<1>2. \A x, y \in BOOLEAN : c = <<"set_focus", x, y>> => x = focus /\ y = mini
  OBVIOUS
<1> HIDE DEF c
<1>3. a \in Seq(SetFocusCalls \cup ReportCalls \cup PlainCalls) /\ Len(a) = 1 /\ a[1] = c
  BY <1>1
<1> HIDE DEF a
<1>4. Leading(a, shown)
  <2>1. \A i \in 1..Len(a) : a[i] = c
    BY <1>3
  <2>2. \A i \in 1..Len(a) : \A x, y \in BOOLEAN :
          a[i] = <<"set_focus", x, y>> => ((x /\ ~y) <=> shown)
    BY <1>2, <2>1
  <2> QED
    BY <1>3, <2>2 DEF Leading
<1>5. Tells(a) /\ \A i \in 1..Len(a) : a[i] \notin ReportCalls
  BY <1>1, <1>3 DEF Tells
<1> QED
  BY <1>4, <1>5 DEF a, c

LEMMA ReportLeads ==
  ASSUME NEW issue \in InterruptionIssues, NEW shown
  PROVE  Leading(<<<<"report", issue>>>>, shown)
<1> DEFINE c == <<"report", issue>>
           a == <<c>>
<1>1. c \in ReportCalls /\ \A x, y \in BOOLEAN : c # <<"set_focus", x, y>>
  <2>1. c \in ReportCalls
    BY DEF ReportCalls
  <2>2. \A x, y \in BOOLEAN : <<"set_focus", x, y>> \in SetFocusCalls
    BY DEF SetFocusCalls
  <2> QED
    BY <2>1, <2>2, CallKinds
<1> HIDE DEF c
<1>2. a \in Seq(SetFocusCalls \cup ReportCalls \cup PlainCalls) /\ Len(a) = 1 /\ a[1] = c
  BY <1>1
<1> HIDE DEF a
<1>3. Leading(a, shown)
  <2>1. \A i \in 1..Len(a) : a[i] = c
    BY <1>2
  <2>2. \A i \in 1..Len(a) : \A x, y \in BOOLEAN : a[i] # <<"set_focus", x, y>>
    BY <1>1, <2>1
  <2> QED
    BY <1>2, <2>2 DEF Leading
<1> QED
  BY <1>3 DEF a, c

LEMMA LeadingJoin ==
  ASSUME NEW shown, NEW a, Leading(a, shown), NEW b, Leading(b, shown)
  PROVE  /\ Leading(a \o b, shown) /\ (Tells(a) \/ Tells(b) => Tells(a \o b))
<1> DEFINE S == SetFocusCalls \cup ReportCalls \cup PlainCalls
           c == a \o b
<1>1. a \in Seq(S) /\ b \in Seq(S) /\ Len(a) \in Nat /\ Len(b) \in Nat
  BY DEF Leading
<1> HIDE DEF S
<1>2. /\ c \in Seq(S) /\ Len(c) = Len(a) + Len(b)
      /\ \A i \in 1..Len(a) : c[i] = a[i] /\ i \in 1..Len(c)
      /\ \A i \in 1..Len(b) : c[Len(a) + i] = b[i] /\ Len(a) + i \in 1..Len(c)
      /\ \A i \in 1..Len(c) : i \notin 1..Len(a) =>
           i - Len(a) \in 1..Len(b) /\ Len(a) + (i - Len(a)) = i
  <2>1. c \in Seq(S) /\ Len(c) = Len(a) + Len(b)
    BY <1>1, ConcatProperties
  <2>2. \A i \in 1..Len(c) : c[i] = IF i <= Len(a) THEN a[i] ELSE b[i - Len(a)]
    BY <1>1, ConcatProperties
  <2> HIDE DEF c
  <2>3. /\ \A i \in 1..Len(a) : c[i] = a[i] /\ i \in 1..Len(c)
        /\ \A i \in 1..Len(c) : i \notin 1..Len(a) =>
             i - Len(a) \in 1..Len(b) /\ Len(a) + (i - Len(a)) = i
    BY <1>1, <2>1, <2>2
  <2>4. ASSUME NEW i \in 1..Len(b)
        PROVE  c[Len(a) + i] = b[i] /\ Len(a) + i \in 1..Len(c)
    <3>1. Len(a) + i \in 1..Len(c) /\ ~(Len(a) + i <= Len(a)) /\ Len(a) + i - Len(a) = i
      BY <1>1, <2>1
    <3> QED
      BY <2>2, <3>1
  <2> QED
    BY <2>1, <2>3, <2>4
<1> HIDE DEF c
<1>3. ASSUME NEW i \in 1..Len(c), NEW x \in BOOLEAN, NEW y \in BOOLEAN,
             c[i] = <<"set_focus", x, y>>
      PROVE  (x /\ ~y) <=> shown
  <2>1. CASE i \in 1..Len(a)
    BY <1>2, <1>3, <2>1 DEF Leading
  <2>2. CASE i \notin 1..Len(a)
    <3>1. PICK j \in 1..Len(b) : c[i] = b[j]
      BY <1>2, <2>2
    <3> QED
      BY <1>3, <3>1 DEF Leading
  <2> QED
    BY <2>1, <2>2
<1>4. Leading(c, shown)
  BY <1>2, <1>3 DEF Leading, S
<1>5. Tells(a) \/ Tells(b) => Tells(c)
  BY <1>2 DEF Tells
<1> QED
  BY <1>4, <1>5 DEF c

LEMMA WithResume ==
  ASSUME NEW f, NEW shown, NEW a, Leading(a, shown),
         RunningFlow(f) =>
           f.stage = "resume_countdown" \/ \A i \in 1..Len(a) : a[i] \notin ReportCalls
  PROVE  LET c == a \o ResumeCalls(f)
         IN /\ c \in Seq(Calls) /\ CallsOf(c, f, shown)
            /\ f.stage = "resume_countdown" => Resumes(c)
            /\ Tells(a) => Tells(c)
BY ResumeCallsEffect, CallsJoin

LEMMA Alone ==
  ASSUME NEW f, NEW shown, NEW a, Leading(a, shown),
         RunningFlow(f) => \A i \in 1..Len(a) : a[i] \notin ReportCalls
  PROVE  /\ a \in Seq(Calls) /\ CallsOf(a, f, shown)
<1>1. a \o <<>> = a
  BY ConcatEmptySeq DEF Leading
<1>2. <<>> \in Seq(Calls) /\ CallsOf(<<>>, f, shown)
  BY NoCalls
<1>3. a \o <<>> \in Seq(Calls) /\ CallsOf(a \o <<>>, f, shown)
  BY <1>2, CallsJoin
<1> QED
  BY <1>1, <1>3

LEMMA PlaysThrough ==
  ASSUME NEW f, NEW g, NEW h, Plays(f, g), Plays(g, h)
  PROVE  Plays(f, h)
BY DEF Plays

LEMMA AppDark ==
  ASSUME app \in App, NEW d \in BOOLEAN
  PROVE  LET a == [app EXCEPT !.dark = d]
         IN /\ a \in App /\ a.made = app.made /\ a.close = app.close /\ a.allow = app.allow
            /\ a.closed = app.closed /\ a.pending = app.pending
BY DEF App

(***************************************************************************)
(* Focus.                                                                  *)
(***************************************************************************)
\* The blockers of a flow that one blocker was taken from, or added to.
LEMMA BlockedClear ==
  ASSUME NEW f \in Flow, NEW b \in Blockers, NEW w, NEW m, NEW v, NEW n, Blocked(f, w, m),
         n.gone => m.gone /\ b # "input",
         ~v.focus => ~w.focus /\ b # "focus", v.iconic => w.iconic /\ b # "minimized"
  PROVE  Blocked(ClearBlocker(f, b), v, n)
BY ClearEffect DEF Blocked, IsGameplayStage, GameplayStages

LEMMA BlockedPause ==
  ASSUME NEW f \in Flow, NEW b \in Blockers, NEW w, NEW m, NEW v, Blocked(f, w, m),
         ~v.focus => ~w.focus \/ b = "focus", v.iconic => w.iconic \/ b = "minimized"
  PROVE  Blocked(PauseForBlocker(f, b), v, m)
BY PauseForEffect DEF Blocked, IsGameplayStage, GameplayStages

LEMMA InvParts ==
  ASSUME AppInv
  PROVE  /\ flow \in Flow /\ app \in App /\ mouse \in Mouse /\ todo \in Seq(Calls)
         /\ window \in [focus : BOOLEAN, iconic : BOOLEAN]
         /\ window.focus \in BOOLEAN /\ window.iconic \in BOOLEAN
         /\ Waits(flow) /\ Blocked(flow, window, mouse) /\ (mouse.gone => app.made)
         /\ SessionInv /\ RecordingInv /\ Plays(flow, flow)
BY DEF AppInv, AppTypes, BlockInv, MadeInv, Plays

LEMMA FocusKept == AppInv /\ HandleFocus => AppInv'
<1> SUFFICES ASSUME AppInv, HandleFocus PROVE AppInv'
  OBVIOUS
<1> DEFINE has == ~window.focus
           f   == IF has THEN ClearBlocker(flow, "focus") ELSE PauseForBlocker(flow, "focus")
           a   == <<<<"set_focus", has, window.iconic>>>>
           c   == a \o (IF has THEN ResumeCalls(f) ELSE <<>>)
<1>1. /\ Handle(f, c) /\ window' = [window EXCEPT !.focus = has] /\ UNCHANGED <<app, mouse>>
  BY DEF HandleFocus
<1>2. /\ flow \in Flow /\ window \in [focus : BOOLEAN, iconic : BOOLEAN]
      /\ Waits(flow) /\ Blocked(flow, window, mouse) /\ "focus" \in Blockers
      /\ has \in BOOLEAN /\ window.iconic \in BOOLEAN
  BY InvParts DEF Blockers
<1>3. /\ window' \in [focus : BOOLEAN, iconic : BOOLEAN]
      /\ window'.focus = has /\ window'.iconic = window.iconic
      /\ (has /\ ~window.iconic) <=> Shown'
  BY <1>1, <1>2 DEF Shown
<1>4. /\ Leading(a, Shown') /\ Tells(a) /\ \A i \in 1..Len(a) : a[i] \notin ReportCalls
  BY <1>2, <1>3, FocusLeads
<1>5. Plays(flow, f) /\ Waits(f)
  BY <1>2, ClearEffect, PauseForEffect
<1>6. Blocked(f, window', mouse')
  <2>1. CASE has
    BY <1>1, <1>2, <1>3, <2>1, BlockedClear
  <2>2. CASE ~has
    BY <1>1, <1>2, <1>3, <2>2, BlockedPause
  <2> QED
    BY <2>1, <2>2
<1>7. RunningFlow(f) => \/ RunningFlow(flow)
                        \/ f.stage = "resume_countdown" /\ has
  BY <1>2, ClearEffect, PauseForEffect DEF RunningFlow, IsGameplayStage, GameplayStages
<1> HIDE DEF a, f
<1>8. /\ c \in Seq(Calls) /\ CallsOf(c, f, Shown') /\ Tells(c)
      /\ f.stage = "resume_countdown" /\ has => Resumes(c)
  <2>1. CASE has
    BY <1>4, <2>1, WithResume
  <2>2. CASE ~has
    <3>1. c = a
      BY <1>4, <2>2, ConcatEmptySeq DEF Leading
    <3> QED
      BY <1>4, <2>2, <3>1, Alone
  <2> QED
    BY <2>1, <2>2
<1> HIDE DEF c
<1>9. mouse' \in Mouse /\ (mouse'.gone => app.made) /\ app' = app /\ app \in App
  BY <1>1, InvParts
<1> QED
  BY <1>1, <1>3, <1>5, <1>6, <1>7, <1>8, <1>9, PlayHandler

LEMMA MinimizeKept == AppInv /\ Minimize => AppInv'
<1> SUFFICES ASSUME AppInv, Minimize PROVE AppInv'
  OBVIOUS
<1> DEFINE f == PauseForBlocker(flow, "minimized")
           a == <<<<"set_focus", FALSE, TRUE>>>>
<1>1. /\ Handle(f, a) /\ window' = [window EXCEPT !.iconic = TRUE] /\ UNCHANGED <<app, mouse>>
  BY DEF Minimize
<1>2. /\ flow \in Flow /\ window \in [focus : BOOLEAN, iconic : BOOLEAN]
      /\ Waits(flow) /\ Blocked(flow, window, mouse) /\ "minimized" \in Blockers
  BY InvParts DEF Blockers
<1>3. /\ window' \in [focus : BOOLEAN, iconic : BOOLEAN]
      /\ window'.focus = window.focus /\ window'.iconic = TRUE /\ ~Shown'
  BY <1>1, <1>2 DEF Shown
<1>4. /\ Leading(a, Shown') /\ Tells(a) /\ \A i \in 1..Len(a) : a[i] \notin ReportCalls
  BY <1>3, FocusLeads
<1>5. /\ Plays(flow, f) /\ Waits(f) /\ Blocked(f, window', mouse')
      /\ RunningFlow(f) => RunningFlow(flow)
  <2>1. Blocked(f, window', mouse)
    BY <1>2, <1>3, BlockedPause
  <2> QED
    BY <1>1, <1>2, <2>1, PauseForEffect DEF RunningFlow, IsGameplayStage, GameplayStages
<1> HIDE DEF a, f
<1>6. a \in Seq(Calls) /\ CallsOf(a, f, Shown')
  BY <1>4, Alone
<1>7. mouse' \in Mouse /\ (mouse'.gone => app.made) /\ app' = app /\ app \in App
  BY <1>1, InvParts
<1> QED
  BY <1>1, <1>3, <1>5, <1>6, <1>7, PlayHandler

LEMMA SuspendKept == AppInv /\ Suspend => AppInv'
<1> SUFFICES ASSUME AppInv, Suspend PROVE AppInv'
  OBVIOUS
<1> DEFINE f == PauseForBlocker(flow, "focus")
           a == <<<<"report", "system_suspend">>>>
<1>1. Handle(f, a) /\ UNCHANGED <<app, window, mouse>>
  BY DEF Suspend
<1>2. /\ flow \in Flow /\ Waits(flow) /\ Blocked(flow, window, mouse) /\ "focus" \in Blockers
      /\ window' \in [focus : BOOLEAN, iconic : BOOLEAN]
  BY <1>1, InvParts DEF Blockers
<1>3. Leading(a, Shown')
  BY ReportLeads DEF InterruptionIssues
<1>4. /\ Plays(flow, f) /\ Waits(f) /\ Blocked(f, window', mouse') /\ ~RunningFlow(f)
  <2>1. Blocked(f, window, mouse)
    BY <1>2, BlockedPause
  <2> QED
    BY <1>1, <1>2, <2>1, PauseForEffect DEF RunningFlow, IsGameplayStage, GameplayStages
<1> HIDE DEF a, f
<1>5. a \in Seq(Calls) /\ CallsOf(a, f, Shown')
  BY <1>3, <1>4, Alone
<1>6. mouse' \in Mouse /\ (mouse'.gone => app.made) /\ app' = app /\ app \in App
  BY <1>1, InvParts
<1> QED
  BY <1>1, <1>2, <1>4, <1>5, <1>6, PlayHandler

LEMMA WakeUpKept == AppInv /\ WakeUp => AppInv'
<1> SUFFICES ASSUME AppInv, WakeUp PROVE AppInv'
  OBVIOUS
<1> DEFINE f == IF window.focus THEN ClearBlocker(flow, "focus") ELSE flow
           a == <<<<"set_focus", window.focus, window.iconic>>>>
           c == a \o (IF window.focus THEN ResumeCalls(f) ELSE <<>>)
<1>1. Handle(f, c) /\ UNCHANGED <<app, window, mouse>>
  BY DEF WakeUp
<1>2. /\ flow \in Flow /\ Waits(flow) /\ Blocked(flow, window, mouse) /\ "focus" \in Blockers
      /\ window' \in [focus : BOOLEAN, iconic : BOOLEAN] /\ Plays(flow, flow)
      /\ window.focus \in BOOLEAN /\ window.iconic \in BOOLEAN
  BY <1>1, InvParts DEF Blockers
<1>3. (window.focus /\ ~window.iconic) <=> Shown'
  BY <1>1 DEF Shown
<1>4. /\ Leading(a, Shown') /\ \A i \in 1..Len(a) : a[i] \notin ReportCalls
  BY <1>2, <1>3, FocusLeads
<1>5. Plays(flow, f) /\ Waits(f) /\ Blocked(f, window', mouse')
  <2>1. Blocked(f, window, mouse)
    BY <1>2, BlockedClear
  <2> QED
    BY <1>1, <1>2, <2>1, ClearEffect
<1>6. RunningFlow(f) => \/ RunningFlow(flow)
                        \/ f.stage = "resume_countdown" /\ window.focus
  BY <1>2, ClearEffect DEF RunningFlow
<1> HIDE DEF a, f
<1>7. /\ c \in Seq(Calls) /\ CallsOf(c, f, Shown')
      /\ f.stage = "resume_countdown" /\ window.focus => Resumes(c)
  <2>1. CASE window.focus
    BY <1>4, <2>1, WithResume
  <2>2. CASE ~window.focus
    <3>1. c = a
      BY <1>4, <2>2, ConcatEmptySeq DEF Leading
    <3> QED
      BY <1>4, <2>2, <3>1, Alone
  <2> QED
    BY <2>1, <2>2
<1> HIDE DEF c
<1>8. mouse' \in Mouse /\ (mouse'.gone => app.made) /\ app' = app /\ app \in App
  BY <1>1, InvParts
<1> QED
  BY <1>1, <1>2, <1>5, <1>6, <1>7, <1>8, PlayHandler

(***************************************************************************)
(* The display.                                                            *)
(***************************************************************************)
\* An outcome of a handler that has made the calls a and left the flow at one that does
\* not run, or runs on without an interruption among the calls.
Presented(o, a, w, m, shown) ==
  /\ Plays(flow, o.flow) /\ Waits(o.flow) /\ Blocked(o.flow, w, m) /\ o.dark \in BOOLEAN
  /\ o.calls \in Seq(Calls) /\ CallsOf(o.calls, o.flow, shown)
  /\ RunningFlow(o.flow) => RunningFlow(flow) \/ Resumes(o.calls)
  /\ Tells(a) => Tells(o.calls)

Ready(f, a, w, m, shown) ==
  /\ f \in Flow /\ Plays(flow, f) /\ Waits(f) /\ Blocked(f, w, m) /\ Leading(a, shown)
  /\ RunningFlow(f) => RunningFlow(flow) /\ \A i \in 1..Len(a) : a[i] \notin ReportCalls

LEMMA StableEffect ==
  ASSUME NEW f, NEW a, NEW w, NEW m, NEW shown, Ready(f, a, w, m, shown)
  PROVE  Presented(DisplayStable(f, a), a, w, m, shown)
<1> DEFINE g == IF app.made THEN ClearBlocker(f, "display") ELSE f
           c == a \o ResumeCalls(g)
<1>1. /\ f \in Flow /\ Plays(flow, f) /\ Waits(f) /\ Blocked(f, w, m) /\ "display" \in Blockers
      /\ Leading(a, shown)
  BY DEF Ready, Blockers
<1>2. Plays(f, g) /\ Waits(g)
  BY <1>1, ClearEffect DEF Plays
<1>3. Blocked(g, w, m)
  BY <1>1, BlockedClear
<1>4. RunningFlow(g) => g = f \/ g.stage = "resume_countdown"
  BY <1>1, ClearEffect DEF RunningFlow
<1>5. DisplayStable(f, a) = [flow |-> g, dark |-> FALSE, calls |-> c]
  BY DEF DisplayStable
<1> HIDE DEF g
<1>6. /\ c \in Seq(Calls) /\ CallsOf(c, g, shown) /\ (Tells(a) => Tells(c))
      /\ g.stage = "resume_countdown" => Resumes(c)
  BY <1>1, <1>4, WithResume DEF Ready
<1> HIDE DEF c
<1>7. RunningFlow(g) => RunningFlow(flow) \/ Resumes(c)
  BY <1>4, <1>6 DEF Ready
<1> QED
  BY <1>1, <1>2, <1>3, <1>5, <1>6, <1>7, PlaysThrough DEF Presented

LEMMA UnchangedEffect ==
  ASSUME NEW f, NEW a, NEW w, NEW m, NEW shown, Ready(f, a, w, m, shown)
  PROVE  Presented([flow |-> f, dark |-> TRUE, calls |-> a], a, w, m, shown)
BY Alone DEF Ready, Presented

LEMMA FailureEffect ==
  ASSUME NEW f, NEW a, NEW w, NEW m, NEW shown, Ready(f, a, w, m, shown)
  PROVE  Presented(PresentationFailure(f, a), a, w, m, shown)
<1>1. CASE ~(app.made /\ IsGameplayStage(f))
  <2>1. PresentationFailure(f, a) = [flow |-> f, dark |-> TRUE, calls |-> a]
    BY <1>1 DEF PresentationFailure
  <2> QED
    BY <2>1, UnchangedEffect
<1>2. CASE app.made /\ IsGameplayStage(f)
  <2> DEFINE g == PauseForBlocker(f, "display")
             r == <<"report", "graphics_device_lost">>
             c == Append(a, r)
  <2>1. PresentationFailure(f, a) = [flow |-> g, dark |-> TRUE, calls |-> c]
    BY <1>2 DEF PresentationFailure
  <2>2. /\ f \in Flow /\ Plays(flow, f) /\ Waits(f) /\ Blocked(f, w, m) /\ "display" \in Blockers
        /\ Leading(a, shown)
    BY DEF Ready, Blockers
  <2>3. Plays(f, g) /\ Waits(g) /\ ~RunningFlow(g)
    BY <1>2, <2>2, PauseForEffect DEF RunningFlow
  <2>4. Blocked(g, w, m)
    BY <2>2, BlockedPause
  <2>5. r \in ReportCalls
    BY DEF ReportCalls, InterruptionIssues
  <2>6. c = a \o <<r>>
    <3> DEFINE S == SetFocusCalls \cup ReportCalls \cup PlainCalls
    <3>1. a \in Seq(S) /\ r \in S
      BY <2>2, <2>5 DEF Leading
    <3> HIDE DEF S, r
    <3> QED
      BY <3>1, AppendIsConcat
  <2>7. Leading(<<r>>, shown)
    BY ReportLeads DEF InterruptionIssues
  <2> HIDE DEF g, r
  <2>8. Leading(c, shown) /\ (Tells(a) => Tells(c))
    BY <2>2, <2>6, <2>7, LeadingJoin
  <2> HIDE DEF c
  <2>9. c \in Seq(Calls) /\ CallsOf(c, g, shown)
    BY <2>3, <2>8, Alone
  <2> QED
    BY <2>1, <2>2, <2>3, <2>4, <2>8, <2>9, PlaysThrough DEF Presented
<1> QED
  BY <1>1, <1>2

LEMMA ResizeEffect ==
  ASSUME NEW f, NEW a, NEW w, NEW m, NEW shown, Ready(f, a, w, m, shown),
         NEW o \in HandleResize(f, a)
  PROVE  Presented(o, a, w, m, shown)
BY StableEffect, UnchangedEffect, FailureEffect DEF HandleResize

LEMMA PresentsKept ==
  ASSUME AppInv, NEW outcomes, NEW a, Presents(outcomes),
         \A o \in outcomes : Presented(o, a, window', mouse, Shown'),
         UNCHANGED mouse, window' \in [focus : BOOLEAN, iconic : BOOLEAN],
         window' = window \/ Tells(a)
  PROVE  AppInv'
<1>1. PICK o \in outcomes : Handle(o.flow, o.calls) /\ app' = [app EXCEPT !.dark = o.dark]
  BY DEF Presents
<1>2. Presented(o, a, window', mouse, Shown')
  BY <1>1
<1>3. /\ app' \in App /\ app'.made = app.made /\ app'.close = app.close /\ app'.allow = app.allow
      /\ app'.closed = app.closed /\ app'.pending = app.pending
  BY <1>1, <1>2, InvParts, AppDark DEF Presented
<1>4. mouse' \in Mouse /\ (mouse'.gone => app.made) /\ Blocked(o.flow, window', mouse')
  BY <1>2, InvParts DEF Presented
<1>5. window' = window \/ Tells(o.calls)
  BY <1>2 DEF Presented
<1> QED
  BY <1>1, <1>2, <1>3, <1>4, <1>5, PlayHandler DEF Presented

\* A change of the display pauses a flow that plays, and reports it only then.
LEMMA ChangingEffect ==
  ASSUME AppInv, Idle
  PROVE  LET f == Changing(flow)
         IN /\ f \in Flow /\ Plays(flow, f) /\ Waits(f) /\ Blocked(f, window, mouse)
            /\ ~RunningFlow(f) /\ (f.stage = "paused" => "display" \in f.blockers \/ ~app.made)
<1>1. CASE app.made /\ IsGameplayStage(flow)
  <2>1. Changing(flow) = PauseForBlocker(flow, "display") /\ "display" \in Blockers
    BY <1>1 DEF Changing, Blockers
  <2>2. Blocked(PauseForBlocker(flow, "display"), window, mouse)
    BY <2>1, InvParts, BlockedPause
  <2> QED
    BY <1>1, <2>1, <2>2, InvParts, PauseForEffect DEF RunningFlow, Plays
<1>2. CASE ~(app.made /\ IsGameplayStage(flow))
  <2>1. Changing(flow) = flow
    BY <1>2 DEF Changing
  <2>2. ~IsGameplayStage(flow)
    BY <1>2 DEF AppInv, MadeInv, IsGameplayStage, GameplayStages, PreCaptureStages, Ended
  <2> QED
    BY <2>1, <2>2, InvParts DEF RunningFlow, IsGameplayStage, GameplayStages
<1> QED
  BY <1>1, <1>2

LEMMA ChangeCallsLead ==
  ASSUME NEW shown
  PROVE  Leading(ChangeCalls, shown)
<1>1. Leading(<<<<"report", "display_changed">>>>, shown)
  BY ReportLeads DEF InterruptionIssues
<1>2. Leading(<<>>, shown)
  <2>1. <<>> \in Seq(SetFocusCalls \cup ReportCalls \cup PlainCalls) /\ Len(<<>>) = 0
    BY EmptySeq
  <2> QED
    BY <2>1 DEF Leading
<1> QED
  BY <1>1, <1>2 DEF ChangeCalls

LEMMA ResizeKept == AppInv /\ Resize => AppInv'
<1> SUFFICES ASSUME AppInv, Resize PROVE AppInv'
  OBVIOUS
<1> DEFINE f == Changing(flow)
           g == ClearBlocker(f, "minimized")
           s == <<"set_focus", window.focus, FALSE>>
           a == Append(ChangeCalls, s)
<1>1. /\ window' = [window EXCEPT !.iconic = FALSE] /\ Presents(HandleResize(g, a))
      /\ UNCHANGED mouse
  BY DEF Resize
<1>2. Idle
  BY <1>1 DEF Presents, Handle
<1>3. /\ window' \in [focus : BOOLEAN, iconic : BOOLEAN] /\ window'.focus = window.focus
      /\ window'.iconic = FALSE /\ (Shown' <=> window.focus) /\ window.focus \in BOOLEAN
  BY <1>1, InvParts DEF Shown
<1>4. /\ f \in Flow /\ Plays(flow, f) /\ Waits(f) /\ Blocked(f, window, mouse)
      /\ ~RunningFlow(f) /\ (f.stage = "paused" => "display" \in f.blockers \/ ~app.made)
  BY <1>2, ChangingEffect
<1>5. f.stage = "paused" => app.made
  <2>1. ~app.made => flow.stage \notin GameplayStages
    BY DEF AppInv, MadeInv, GameplayStages, PreCaptureStages, Ended
  <2> QED
    BY <1>4, <2>1 DEF Plays, GameplayStages
<1> HIDE DEF f
<1>6. /\ Plays(f, g) /\ Waits(g) /\ g \in Flow
      /\ Blocked(g, window', mouse) /\ ~RunningFlow(g)
  <2>1. "minimized" \in Blockers
    BY DEF Blockers
  <2>2. Plays(f, g) /\ Waits(g)
    BY <1>4, <2>1, ClearEffect
  <2>3. Blocked(g, window', mouse)
    BY <1>3, <1>4, <2>1, BlockedClear
  <2>4. ~RunningFlow(g)
    <3>1. CASE f.stage # "paused"
      BY <1>4, <2>1, <3>1, ClearEffect
    <3>2. CASE f.stage = "paused"
      <4>1. "display" \in g.blockers /\ g.stage \in {"paused", "resume_countdown"}
        BY <1>4, <1>5, <2>1, <3>2, ClearEffect
      <4>2. g.stage \in {"paused", "ready"}
        BY <2>2, <4>1 DEF Waits
      <4> QED
        BY <4>2 DEF RunningFlow
    <3> QED
      BY <3>1, <3>2
  <2> QED
    BY <2>2, <2>3, <2>4 DEF Plays
<1> HIDE DEF g
<1>7. Leading(a, Shown') /\ Tells(a)
  <2>1. s \in SetFocusCalls
    <3>1. window.focus \in BOOLEAN /\ FALSE \in BOOLEAN
      BY <1>3
    <3> QED
      BY <3>1, FocusIsCall
  <2>2. Leading(ChangeCalls, Shown')
    BY ChangeCallsLead
  <2>3. Leading(<<s>>, Shown') /\ Tells(<<s>>)
    BY <1>3, FocusLeads
  <2>4. a = ChangeCalls \o <<s>>
    BY <2>1, <2>2, AppendIsConcat DEF Leading
  <2> HIDE DEF s, a
  <2> QED
    BY <2>2, <2>3, <2>4, LeadingJoin
<1> HIDE DEF a
<1>8. Ready(g, a, window', mouse, Shown')
  BY <1>4, <1>6, <1>7, PlaysThrough DEF Ready
<1>9. \A o \in HandleResize(g, a) : Presented(o, a, window', mouse, Shown')
  BY <1>8, ResizeEffect
<1> QED
  BY <1>1, <1>3, <1>7, <1>9, PresentsKept

LEMMA DisplayKept ==
  AppInv /\ (DisplayChanges \/ RenderFails \/ RetryGraphics) => AppInv'
<1> SUFFICES ASSUME AppInv, DisplayChanges \/ RenderFails \/ RetryGraphics PROVE AppInv'
  OBVIOUS
<1>1. UNCHANGED <<window, mouse>> /\ Shown' = Shown
  BY DEF DisplayChanges, RenderFails, RetryGraphics, Shown
<1>2. window' \in [focus : BOOLEAN, iconic : BOOLEAN]
  BY <1>1, InvParts
<1>3. ASSUME NEW outcomes, Presents(outcomes), NEW a, NEW f, Ready(f, a, window, mouse, Shown),
             outcomes \subseteq HandleResize(f, a) \cup {PresentationFailure(f, a),
                                                         DisplayStable(f, a)}
      PROVE  AppInv'
  <2>1. \A o \in outcomes : Presented(o, a, window', mouse, Shown')
    BY <1>1, <1>3, ResizeEffect, FailureEffect, StableEffect
  <2> QED
    BY <1>1, <1>2, <1>3, <2>1, PresentsKept
<1>4. CASE DisplayChanges
  <2>1. Presents(HandleResize(Changing(flow), ChangeCalls)) /\ Idle
    BY <1>4 DEF DisplayChanges, Presents, Handle
  <2>2. Ready(Changing(flow), ChangeCalls, window, mouse, Shown)
    BY <2>1, ChangingEffect, ChangeCallsLead DEF Ready
  <2> QED
    BY <1>3, <2>1, <2>2
<1>5. Ready(flow, <<>>, window, mouse, Shown)
  <2>1. <<>> \in Seq(SetFocusCalls \cup ReportCalls \cup PlainCalls) /\ Len(<<>>) = 0
    BY EmptySeq
  <2>2. Leading(<<>>, Shown)
    BY <2>1 DEF Leading
  <2> QED
    BY <2>1, <2>2, InvParts DEF Ready
<1>6. CASE RenderFails
  <2>1. Presents({PresentationFailure(flow, <<>>)})
    BY <1>6 DEF RenderFails
  <2> QED
    BY <1>3, <1>5, <2>1
<1>7. CASE RetryGraphics
  <2>1. Presents({DisplayStable(flow, <<>>)})
    BY <1>7 DEF RetryGraphics
  <2> QED
    BY <1>3, <1>5, <2>1
<1> QED
  BY <1>4, <1>6, <1>7

(***************************************************************************)
(* The selected mouse.                                                     *)
(***************************************************************************)
\* A handler that leaves the flow alone and calls nothing.
LEMMA QuietHandler ==
  ASSUME AppInv, Handle(flow, <<>>), UNCHANGED <<app, window>>,
         mouse' \in Mouse, mouse'.gone => mouse.gone
  PROVE  AppInv'
<1>1. /\ Plays(flow, flow) /\ Waits(flow) /\ Blocked(flow, window, mouse) /\ app \in App
      /\ window \in [focus : BOOLEAN, iconic : BOOLEAN] /\ (mouse.gone => app.made)
  BY InvParts
<1>2. Blocked(flow, window', mouse')
  BY <1>1 DEF Blocked
<1>3. <<>> \in Seq(Calls) /\ CallsOf(<<>>, flow, Shown')
  BY NoCalls
<1> QED
  BY <1>1, <1>2, <1>3, PlayHandler

LEMMA MouseEffect ==
  ASSUME NEW m \in Mouse
  PROVE  /\ Scanned(m) \in Mouse /\ Scanned(m).gone = m.gone
         /\ StartLiveInputRebind(m) \in Mouse /\ StartLiveInputRebind(m).gone = m.gone
BY DEF Scanned, StartLiveInputRebind, Mouse

LEMMA ReboundEffect ==
  ASSUME NEW m \in Mouse, NEW k \in BOOLEAN
  PROVE  LET r == [m EXCEPT !.scan = "none", !.known = k]
         IN r \in Mouse /\ r.gone = m.gone
BY DEF Mouse

LEMMA UnplugKept == AppInv /\ Unplug => AppInv'
<1> SUFFICES ASSUME AppInv, Unplug PROVE AppInv'
  OBVIOUS
<1> DEFINE s == Scanned(mouse)
           m == [s EXCEPT !.plugged = FALSE, !.known = FALSE]
           n == [m EXCEPT !.gone = TRUE]
           f == GameplayInputLost(flow)
           a == <<<<"report", "gameplay_input_unavailable">>>>
<1>1. /\ UNCHANGED <<app, window>> /\ app.made
      /\ mouse' = IF mouse.known THEN StartLiveInputRebind(n) ELSE m
      /\ IF mouse.known /\ ~mouse.gone THEN Handle(f, a) ELSE Handle(flow, <<>>)
  BY DEF Unplug
<1>2. mouse \in Mouse /\ s \in Mouse /\ s.gone = mouse.gone
  BY InvParts, MouseEffect
<1> HIDE DEF s
<1>3. m \in Mouse /\ m.gone = mouse.gone /\ n \in Mouse /\ n.gone = TRUE
  BY <1>2 DEF Mouse
<1> HIDE DEF m, n
<1>4. mouse' \in Mouse /\ mouse'.gone = (mouse.known \/ mouse.gone)
  BY <1>1, <1>2, <1>3, MouseEffect DEF Mouse
<1>5. CASE ~(mouse.known /\ ~mouse.gone)
  BY <1>1, <1>4, <1>5, QuietHandler
<1>6. CASE mouse.known /\ ~mouse.gone
  <2>1. /\ flow \in Flow /\ Waits(flow) /\ Blocked(flow, window, mouse) /\ app \in App
        /\ window \in [focus : BOOLEAN, iconic : BOOLEAN]
    BY InvParts
  <2>2. /\ Plays(flow, f) /\ Waits(f) /\ ~RunningFlow(f) /\ flow.blockers \subseteq f.blockers
        /\ flow.stage \in GameplayStages => "input" \in f.blockers
        /\ f.stage = flow.stage \/ IsGameplayStage(flow)
    BY <2>1, InputLostEffect
  <2>3. Leading(a, Shown')
    BY ReportLeads DEF InterruptionIssues
  <2> HIDE DEF f, a
  <2>4. a \in Seq(Calls) /\ CallsOf(a, f, Shown')
    BY <2>2, <2>3, Alone
  <2>5. /\ f.stage \in GameplayStages => flow.stage \in GameplayStages
        /\ IsGameplayStage(f) => IsGameplayStage(flow)
    BY <2>2 DEF Plays, IsGameplayStage
  <2>6. Blocked(f, window', mouse')
    BY <1>1, <2>1, <2>2, <2>5 DEF Blocked
  <2> QED
    BY <1>1, <1>4, <1>6, <2>1, <2>2, <2>4, <2>6, PlayHandler
<1> QED
  BY <1>5, <1>6

LEMMA PlugKept == AppInv /\ Plug => AppInv'
<1> SUFFICES ASSUME AppInv, Plug PROVE AppInv'
  OBVIOUS
<1> DEFINE s == Scanned(mouse)
           m == [s EXCEPT !.plugged = TRUE]
<1>1. UNCHANGED <<app, window>> /\ mouse' = StartLiveInputRebind(m) /\ Handle(flow, <<>>)
  BY DEF Plug
<1>2. mouse \in Mouse /\ s \in Mouse /\ s.gone = mouse.gone
  BY InvParts, MouseEffect
<1> HIDE DEF s
<1>3. m \in Mouse /\ m.gone = mouse.gone
  BY <1>2 DEF Mouse
<1> HIDE DEF m
<1> QED
  BY <1>1, <1>3, MouseEffect, QuietHandler

LEMMA ScanSeesKept == AppInv /\ ScanSees => AppInv'
<1> SUFFICES ASSUME AppInv, ScanSees PROVE AppInv'
  OBVIOUS
<1>1. /\ UNCHANGED <<sessionVars, flow, app, window, todo>>
      /\ mouse' = [mouse EXCEPT !.scan = IF mouse.plugged THEN "present" ELSE "absent"]
  BY DEF ScanSees
<1>2. mouse' \in Mouse /\ mouse'.gone = mouse.gone
  BY <1>1, InvParts DEF Mouse
<1>3. SessionInv' /\ RecordingInv' /\ state' = state /\ result' = result /\ Focused' = Focused
  BY <1>1, SessionKept DEF AppInv
<1>4. AppTypes' /\ OutcomeInv' /\ MadeInv'
  BY <1>1, <1>2, <1>3 DEF AppInv, AppTypes, OutcomeInv, MadeInv
<1>5. EndInv'
  BY <1>1, <1>3 DEF AppInv, EndInv, Settled
<1>6. BlockInv'
  BY <1>1, <1>2 DEF AppInv, BlockInv, Blocked
<1>7. TodoInv'
  BY <1>1, <1>3 DEF AppInv, TodoInv, Shown
<1> QED
  BY <1>3, <1>4, <1>5, <1>6, <1>7 DEF AppInv

LEMMA RebindKept == AppInv /\ PollLiveInputRebind => AppInv'
<1> SUFFICES ASSUME AppInv, PollLiveInputRebind PROVE AppInv'
  OBVIOUS
<1> DEFINE found   == mouse.scan \in {"present", "outdated"}
           k       == IF found THEN mouse.scan = "present" ELSE mouse.known
           r       == [mouse EXCEPT !.scan = "none", !.known = k]
           back    == [r EXCEPT !.gone = FALSE]
           f       == GameplayInputRestored(flow)
<1>1. /\ UNCHANGED <<app, window>>
      /\ IF found /\ mouse.gone
           THEN mouse' = back /\ Handle(f, ResumeCalls(f))
           ELSE /\ mouse' = IF mouse.rescan THEN StartLiveInputRebind(r) ELSE r
                /\ Handle(flow, <<>>)
  BY DEF PollLiveInputRebind
<1>2. mouse \in Mouse /\ r \in Mouse /\ r.gone = mouse.gone
  <2>1. mouse \in Mouse
    BY InvParts
  <2>2. k \in BOOLEAN
    BY <2>1 DEF Mouse
  <2> HIDE DEF k
  <2> QED
    BY <2>1, <2>2, ReboundEffect
<1> HIDE DEF r
<1>3. back \in Mouse /\ back.gone = FALSE
  BY <1>2 DEF Mouse
<1> HIDE DEF back
<1>4. CASE ~(found /\ mouse.gone)
  BY <1>1, <1>2, <1>4, MouseEffect, QuietHandler
<1>5. CASE found /\ mouse.gone
  <2>1. /\ flow \in Flow /\ Waits(flow) /\ Blocked(flow, window, mouse) /\ app \in App
        /\ window \in [focus : BOOLEAN, iconic : BOOLEAN]
    BY InvParts
  <2>2. /\ Plays(flow, f) /\ Waits(f) /\ flow.blockers \ {"input"} \subseteq f.blockers
        /\ f.stage # flow.stage => f.stage = "resume_countdown" /\ flow.stage = "paused"
    BY <2>1, InputRestoredEffect
  <2> HIDE DEF f
  <2>3. /\ ResumeCalls(f) \in Seq(Calls) /\ CallsOf(ResumeCalls(f), f, Shown')
        /\ f.stage = "resume_countdown" => Resumes(ResumeCalls(f))
    BY ResumeCallsEffect
  <2>4. RunningFlow(f) => RunningFlow(flow) \/ f.stage = "resume_countdown"
    BY <2>2 DEF RunningFlow
  <2>5. IsGameplayStage(f) => IsGameplayStage(flow)
    BY <2>2 DEF IsGameplayStage, GameplayStages
  <2>6. Blocked(f, window', mouse')
    BY <1>1, <1>3, <1>5, <2>1, <2>2, <2>5 DEF Blocked
  <2> QED
    BY <1>1, <1>3, <1>5, <2>1, <2>2, <2>3, <2>4, <2>6, PlayHandler
<1> QED
  BY <1>4, <1>5

(***************************************************************************)
(* The participant.                                                        *)
(***************************************************************************)
\* A handler that makes one call.
LEMMA CallHandler ==
  ASSUME AppInv, NEW f, NEW c \in FinalCalls, Handle(f, <<c>>), UNCHANGED <<app, window, mouse>>,
         Plays(flow, f), Waits(f), Blocked(f, window, mouse),
         RunningFlow(f) => RunningFlow(flow),
         c = <<"try_start">> => Shown, c = <<"manual_pause">> => ~RunningFlow(f)
  PROVE  AppInv'
<1>1. Shown' = Shown
  BY DEF Shown
<1>2. <<c>> \in Seq(Calls) /\ CallsOf(<<c>>, f, Shown')
  BY <1>1, LastCall
<1>3. Blocked(f, window', mouse')
  BY DEF Blocked
<1> QED
  BY <1>2, <1>3, InvParts, PlayHandler

LEMMA TrainerKept == AppInv /\ (BeginTrainerCountdown \/ PauseTrainer \/ ResumeTrainer) => AppInv'
<1> SUFFICES ASSUME AppInv, BeginTrainerCountdown \/ PauseTrainer \/ ResumeTrainer PROVE AppInv'
  OBVIOUS
<1>1. /\ flow \in Flow /\ Plays(flow, flow) /\ Waits(flow) /\ Blocked(flow, window, mouse)
  BY InvParts
<1>2. /\ <<"try_start">> \in FinalCalls /\ <<"manual_pause">> \in FinalCalls
      /\ <<"manual_resume">> \in FinalCalls /\ <<"try_start">> # <<"manual_pause">>
      /\ <<"manual_resume">> # <<"try_start">> /\ <<"manual_resume">> # <<"manual_pause">>
  BY DEF FinalCalls
<1>3. CASE BeginTrainerCountdown
  <2>1. Handle(flow, <<<<"try_start">>>>) /\ UNCHANGED <<app, window, mouse>> /\ Shown
    BY <1>3 DEF BeginTrainerCountdown, Attends, Shown
  <2> QED
    BY <1>1, <1>2, <2>1, CallHandler
<1>4. CASE PauseTrainer
  <2> DEFINE f == ManuallyPaused(flow)
  <2>1. Handle(f, <<<<"manual_pause">>>>) /\ UNCHANGED <<app, window, mouse>>
    BY <1>4 DEF PauseTrainer
  <2>2. /\ Plays(flow, f) /\ f.blockers = flow.blockers /\ ~RunningFlow(f) /\ Waits(f)
        /\ IsGameplayStage(f) <=> IsGameplayStage(flow)
    BY <1>1, ManualEffect
  <2> HIDE DEF f
  <2>3. Blocked(f, window, mouse)
    BY <1>1, <2>2 DEF Blocked, Plays
  <2> QED
    BY <1>2, <2>1, <2>2, <2>3, CallHandler
<1>5. CASE ResumeTrainer
  <2>1. Handle(flow, <<<<"manual_resume">>>>) /\ UNCHANGED <<app, window, mouse>>
    BY <1>5 DEF ResumeTrainer
  <2> QED
    BY <1>1, <1>2, <2>1, CallHandler
<1> QED
  BY <1>3, <1>4, <1>5

LEMMA NoLead ==
  ASSUME NEW shown
  PROVE  Leading(<<>>, shown) /\ \A i \in 1..Len(<<>>) : <<>>[i] \notin ReportCalls
<1>1. <<>> \in Seq(SetFocusCalls \cup ReportCalls \cup PlainCalls) /\ Len(<<>>) = 0
  BY EmptySeq
<1> QED
  BY <1>1 DEF Leading

LEMMA PlainLeads ==
  ASSUME NEW c \in PlainCalls, NEW shown
  PROVE  Leading(<<c>>, shown) /\ \A i \in 1..Len(<<c>>) : <<c>>[i] \notin ReportCalls
<1> DEFINE a == <<c>>
<1>1. c \notin ReportCalls /\ \A x, y \in BOOLEAN : c # <<"set_focus", x, y>>
  BY CallKinds, FocusIsCall
<1>2. a \in Seq(SetFocusCalls \cup ReportCalls \cup PlainCalls) /\ Len(a) = 1 /\ a[1] = c
  OBVIOUS
<1> HIDE DEF a
<1>3. \A i \in 1..Len(a) : a[i] = c
  BY <1>2
<1>4. \A i \in 1..Len(a) : \A x, y \in BOOLEAN : a[i] # <<"set_focus", x, y>>
  BY <1>1, <1>3
<1>5. Leading(a, shown) /\ \A i \in 1..Len(a) : a[i] \notin ReportCalls
  BY <1>1, <1>2, <1>3, <1>4 DEF Leading
<1> QED
  BY <1>5 DEF a

LEMMA DriveRecordingKept == AppInv /\ DriveRecording => AppInv'
<1> SUFFICES ASSUME AppInv, DriveRecording PROVE AppInv'
  OBVIOUS
<1> DEFINE two == <<<<"advance">>, <<"drive">>>>
<1>1. PICK a : /\ a \in {<<>>, <<<<"storage_low">>>>} /\ Handle(flow, a \o two)
               /\ UNCHANGED <<app, window, mouse>>
  BY DEF DriveRecording
<1>2. <<"advance">> \in PlainCalls /\ <<"storage_low">> \in PlainCalls /\ <<"drive">> \in FinalCalls
      /\ <<"drive">> # <<"try_start">> /\ <<"drive">> # <<"manual_pause">>
  BY DEF PlainCalls, FinalCalls
<1>3. <<<<"drive">>>> \in Seq(Calls) /\ CallsOf(<<<<"drive">>>>, flow, Shown')
  BY <1>2, LastCall
<1>4. two = <<<<"advance">>>> \o <<<<"drive">>>>
  OBVIOUS
<1> HIDE DEF two
<1>5. two \in Seq(Calls) /\ CallsOf(two, flow, Shown')
  BY <1>2, <1>3, <1>4, PlainLeads, CallsJoin
<1>6. Leading(a, Shown') /\ \A i \in 1..Len(a) : a[i] \notin ReportCalls
  BY <1>1, <1>2, NoLead, PlainLeads
<1>7. a \o two \in Seq(Calls) /\ CallsOf(a \o two, flow, Shown')
  BY <1>5, <1>6, CallsJoin
<1>8. Blocked(flow, window', mouse')
  BY <1>1, InvParts DEF Blocked
<1> QED
  BY <1>1, <1>7, <1>8, InvParts, PlayHandler

(***************************************************************************)
(* The start and the end.                                                  *)
(***************************************************************************)
\* A handler that decides how the run starts or ends: what it has to keep.
LEMMA OffHandler ==
  ASSUME AppInv, Idle, UNCHANGED <<sessionVars, window>>,
         flow' \in Flow, app' \in App, mouse' \in Mouse,
         Waits(flow'), Blocked(flow', window, mouse'), RunningFlow(flow') => RunningFlow(flow),
         todo' \in {<<>>, StopCalls}, OutcomeOf(flow', state, result), MadeInv', EndInv'
  PROVE  AppInv'
<1>1. /\ SessionInv' /\ RecordingInv' /\ state' = state /\ result' = result
      /\ Focused' = Focused
  BY SessionKept DEF AppInv
<1>2. todo' \in Seq(Calls) /\ CallsOf(todo', flow', Shown')
  <2>1. /\ <<"participant_stop">> \in FinalCalls /\ <<"participant_stop">> # <<"try_start">>
        /\ <<"participant_stop">> # <<"manual_pause">>
    BY DEF FinalCalls
  <2>2. StopCalls \in Seq(Calls) /\ CallsOf(StopCalls, flow', Shown')
    BY <2>1, LastCall DEF StopCalls
  <2> QED
    BY <2>2, NoCalls
<1>3. AppTypes'
  BY <1>2 DEF AppInv, AppTypes
<1>4. OutcomeInv' /\ BlockInv'
  BY <1>1 DEF OutcomeInv, BlockInv, Blocked
<1>5. todo = <<>> /\ ~Tells(todo) /\ ~Resumes(todo)
  BY DEF Idle, Tells, Resumes
<1>6. /\ RunningFlow(flow) => state # "paused"
      /\ Shown /\ state \in Open => Focused
  BY <1>5 DEF AppInv, TodoInv
<1>7. TodoInv'
  BY <1>1, <1>2, <1>6 DEF TodoInv, Shown
<1> QED
  BY <1>1, <1>3, <1>4, <1>7 DEF AppInv

LEMMA StartKept == AppInv /\ StartRecordingAsync => AppInv'
<1> SUFFICES ASSUME AppInv, StartRecordingAsync PROVE AppInv'
  OBVIOUS
<1> DEFINE f == Step(flow, "start_capture")
           e == <<"start_capture", "ready_to_start", "starting_capture">>
<1>1. /\ Idle /\ UNCHANGED <<sessionVars, window>> /\ ~app.made /\ ~app.closed /\ flow' = f
      /\ todo' = <<>> /\ flow.stage = "ready_to_start"
      /\ app' = [app EXCEPT !.pending = TRUE, !.handled = FALSE]
      /\ mouse' = [mouse EXCEPT !.gone = FALSE, !.rescan = FALSE]
  BY DEF StartRecordingAsync, Handle, Idle
<1>2. /\ flow \in Flow /\ app \in App /\ mouse \in Mouse /\ Waits(flow)
      /\ OutcomeOf(flow, state, result) /\ MadeInv /\ EndInv
  BY InvParts DEF AppInv, OutcomeInv
<1>3. f \in Flow /\ Same(flow, f) /\ f.stage = "starting_capture"
  <2>1. e[1] = "start_capture" /\ e[2] = "ready_to_start" /\ e[3] = "starting_capture"
    OBVIOUS
  <2> QED
    BY <1>1, <1>2, <2>1, StepEffect
<1> HIDE DEF f
<1>4. /\ app' \in App /\ app'.pending /\ app'.made = app.made /\ app'.close = app.close
      /\ app'.allow = app.allow /\ app'.closed = app.closed
  BY <1>1, <1>2 DEF App
<1>5. mouse' \in Mouse /\ ~mouse'.gone
  BY <1>1, <1>2 DEF Mouse
<1>6. state' = state /\ Focused' = Focused
  BY <1>1, <1>2, SessionKept DEF AppInv
<1>7. ~app.allow
  BY <1>1, <1>2 DEF EndInv, Ended
<1>8. MadeInv'
  BY <1>1, <1>2, <1>3, <1>4, <1>5, <1>6, <1>7 DEF MadeInv, Ended
<1>9. EndInv'
  BY <1>1, <1>4, <1>7 DEF EndInv
<1>10. Waits(f) /\ Blocked(f, window, mouse') /\ ~RunningFlow(f) /\ OutcomeOf(f, state, result)
  BY <1>1, <1>2, <1>3, <1>5
     DEF Waits, Blocked, RunningFlow, OutcomeOf, Same, IsGameplayStage, GameplayStages
<1> QED
  BY <1>1, <1>3, <1>4, <1>5, <1>8, <1>9, <1>10, OffHandler

LEMMA CancelsKept == AppInv /\ Cancels => AppInv'
<1> SUFFICES ASSUME AppInv, Cancels PROVE AppInv'
  OBVIOUS
<1> DEFINE f == Cancel(flow)
<1>1. /\ Idle /\ UNCHANGED <<sessionVars, app, window, mouse>> /\ ~app.closed /\ flow' = f
      /\ todo' = <<>> /\ flow.stage = "ready_to_start"
  BY DEF Cancels, Handle, Idle
<1>2. /\ flow \in Flow /\ app \in App /\ mouse \in Mouse /\ Waits(flow)
      /\ OutcomeOf(flow, state, result) /\ MadeInv /\ EndInv
  BY InvParts DEF AppInv, OutcomeInv
<1>3. f \in Flow /\ Same(flow, f) /\ f.stage = "cancelled"
  BY <1>1, <1>2 DEF Cancel, PreCaptureStages, Flow, Stages, Ended, Same
<1> HIDE DEF f
<1>4. ~app.made /\ ~app.pending /\ ~app.allow
  BY <1>1, <1>2 DEF MadeInv, EndInv, PreCaptureStages, Ended
<1>5. state' = state /\ Focused' = Focused
  BY <1>1, <1>2, SessionKept DEF AppInv
<1>6. MadeInv'
  BY <1>1, <1>2, <1>3, <1>4, <1>5 DEF MadeInv, Ended
<1>7. EndInv'
  BY <1>1, <1>4 DEF EndInv
<1>8. Waits(f) /\ Blocked(f, window, mouse) /\ ~RunningFlow(f) /\ OutcomeOf(f, state, result)
  BY <1>1, <1>2, <1>3
     DEF Waits, Blocked, RunningFlow, OutcomeOf, Same, IsGameplayStage, GameplayStages
<1> QED
  BY <1>1, <1>2, <1>3, <1>6, <1>7, <1>8, OffHandler DEF Blocked

\* A handler that asks for the end of a game, or leaves the flow alone, and touches no
\* other member of the application than the three that its window closes by.
LEMMA CloseHandler ==
  ASSUME AppInv, Idle, UNCHANGED <<sessionVars, window, mouse>>,
         flow' = flow \/ flow' = Finishing(flow), todo' = <<>> \/ todo' = StopCalls,
         app.made \/ (flow' = flow /\ todo' = <<>>),
         app' \in App, app'.made = app.made, app'.pending = app.pending,
         app.pending => ~app'.allow,
         EndInv'
  PROVE  AppInv'
<1>1. /\ flow \in Flow /\ mouse \in Mouse /\ Waits(flow) /\ Blocked(flow, window, mouse)
      /\ OutcomeOf(flow, state, result) /\ MadeInv
  BY InvParts DEF AppInv, OutcomeInv
<1>2. LET f == Finishing(flow)
      IN /\ f \in Flow /\ f.prefix = flow.prefix /\ f.send = flow.send
         /\ flow.stage \in GameplayStages => f.stage = "stopping_and_saving" /\ f.blockers = {}
         /\ flow.stage \notin GameplayStages => f = flow
  BY <1>1, FinishEffect
<1>3. \/ flow' = flow
      \/ /\ flow' \in Flow /\ flow'.prefix = flow.prefix /\ flow'.send = flow.send
         /\ flow'.stage = "stopping_and_saving" /\ flow'.blockers = {}
         /\ flow.stage \in GameplayStages /\ app.made
  BY <1>2
<1>4. flow' \in Flow /\ Waits(flow') /\ (RunningFlow(flow') => RunningFlow(flow))
  BY <1>1, <1>3 DEF Waits, RunningFlow
<1>5. Blocked(flow', window, mouse')
  BY <1>1, <1>3 DEF Blocked, IsGameplayStage, GameplayStages
<1>6. OutcomeOf(flow', state, result)
  BY <1>1, <1>3 DEF OutcomeOf, GameplayStages
<1>7. state' = state /\ Focused' = Focused
  BY SessionKept DEF AppInv
<1>8. MadeInv'
  <2>1. CASE app.made
    <3>1. ~app.pending /\ flow'.stage \notin PreCaptureStages \cup {"starting_capture", "cancelled"}
      BY <1>1, <1>3, <2>1 DEF MadeInv, PreCaptureStages
    <3> QED
      BY <2>1, <3>1 DEF MadeInv
  <2>2. CASE ~app.made
    <3>1. flow' = flow /\ todo' = <<>>
      BY <2>2
    <3> QED
      BY <1>1, <1>7, <2>2, <3>1 DEF MadeInv
  <2> QED
    BY <2>1, <2>2
<1>9. mouse' \in Mouse /\ UNCHANGED <<sessionVars, window>>
  BY <1>1
<1> QED
  BY <1>4, <1>5, <1>6, <1>8, <1>9, OffHandler

\* The stages of an application with a session.
LEMMA MadeStages ==
  ASSUME AppInv, app.made, flow.stage \notin GameplayStages \cup Ended
  PROVE  Stopping(flow)
BY DEF AppInv, AppTypes, MadeInv, Flow, Stages, FailingStages, Stopping, Ended

LEMMA EndKept == AppInv /\ (Done \/ FinishAndSave \/ HandleClose) => AppInv'
<1> SUFFICES ASSUME AppInv, Done \/ FinishAndSave \/ HandleClose PROVE AppInv'
  OBVIOUS
<1> DEFINE asked == [app EXCEPT !.close = TRUE]
           over  == [asked EXCEPT !.allow = TRUE, !.closed = TRUE]
<1>1. /\ flow \in Flow /\ app \in App /\ MadeInv /\ EndInv /\ state \in Open \cup Closed \cup {"stop_requested"}
  BY InvParts DEF AppInv, SessionInv, SessionTypeOK
<1>2. /\ asked \in App /\ asked.close /\ asked.made = app.made /\ asked.pending = app.pending
      /\ asked.allow = app.allow /\ asked.closed = app.closed
  BY <1>1 DEF App
<1>3. /\ over \in App /\ over.close /\ over.made = app.made /\ over.pending = app.pending
      /\ over.allow /\ over.closed
  BY <1>1 DEF App
<1> HIDE DEF asked, over
<1>4. Idle /\ ~app.closed /\ todo = <<>> /\ UNCHANGED <<sessionVars, window, mouse>>
  BY DEF Done, FinishAndSave, HandleClose, Handle, Idle
<1>5. state' = state
  BY <1>4, SessionKept DEF AppInv
<1>6. CASE Done
  <2>1. /\ flow' = flow /\ todo' = <<>> /\ flow.stage \in Ended
        /\ app' = [app EXCEPT !.allow = TRUE]
    BY <1>6 DEF Done, Handle, Ended
  <2>2. /\ app' \in App /\ app'.close = app.close /\ app'.made = app.made
        /\ app'.pending = app.pending /\ app'.allow /\ app'.closed = app.closed
    BY <1>1, <2>1 DEF App
  <2>3. ~app.pending
    BY <1>1, <2>1 DEF MadeInv, Ended
  <2>4. EndInv'
    BY <1>1, <1>4, <1>5, <2>1, <2>2 DEF EndInv, Settled
  <2> QED
    BY <1>4, <2>1, <2>2, <2>3, <2>4, CloseHandler
<1>7. ASSUME app.made, flow.stage \notin Ended, ~app.allow \/ flow.stage \in GameplayStages,
             flow' = Finishing(flow), todo' = StopCalls, app' = app \/ app' = asked
      PROVE  AppInv'
  <2>1. /\ Finishing(flow).prefix = flow.prefix
        /\ flow.stage \in GameplayStages => Finishing(flow).stage = "stopping_and_saving"
        /\ flow.stage \notin GameplayStages => Finishing(flow) = flow
    BY <1>1, FinishEffect
  <2>2. Stopping(flow') /\ flow'.stage \notin Ended /\ flow'.prefix = flow.prefix
    <3>1. CASE flow.stage \in GameplayStages
      BY <1>7, <2>1, <3>1 DEF Stopping, Ended
    <3>2. CASE flow.stage \notin GameplayStages
      BY <1>7, <2>1, <3>2, MadeStages
    <3> QED
      BY <3>1, <3>2
  <2>3. /\ app' \in App /\ app'.made /\ app'.pending = app.pending /\ app'.allow = app.allow
        /\ app'.closed = app.closed
    BY <1>1, <1>2, <1>7
  <2>4. EndInv'
    BY <1>1, <1>4, <1>5, <1>7, <2>2, <2>3 DEF EndInv, Settled
  <2>5. app.pending => ~app'.allow
    BY <1>1, <2>3 DEF MadeInv
  <2>6. flow' = Finishing(flow) /\ todo' = StopCalls /\ app.made /\ app'.made = app.made
    BY <1>7, <2>3
  <2> QED
    BY <1>4, <2>3, <2>4, <2>5, <2>6, CloseHandler
<1>8. CASE FinishAndSave
  <2>1. /\ app.made /\ flow.stage \in {"ready", "paused"} /\ flow' = Finishing(flow)
        /\ todo' = StopCalls /\ app' = app
    BY <1>8 DEF FinishAndSave, Handle
  <2> QED
    BY <1>7, <2>1 DEF GameplayStages, Ended
<1>9. ASSUME flow' = flow, todo' = <<>>, app' = asked \/ app' = over,
             app.pending => app' = asked, app' = asked => app.pending \/ Stopping(flow),
             app' = asked => ~app.allow,
             app' = over /\ app.made => flow.stage \in Ended \/ state \in Closed
      PROVE  AppInv'
  <2>1. /\ app' \in App /\ app'.made = app.made /\ app'.pending = app.pending
        /\ app' = asked => ~app'.allow /\ ~app'.closed
        /\ app' = over => app'.closed /\ app'.allow
    BY <1>2, <1>3, <1>4, <1>9
  <2>2. app.pending => ~app.made /\ ~app'.allow
    BY <1>1, <1>9, <2>1 DEF MadeInv
  <2>3. EndInv'
    BY <1>1, <1>4, <1>5, <1>9, <2>1, <2>2 DEF EndInv, Settled, Stopping, Ended
  <2> QED
    BY <1>4, <1>9, <2>1, <2>2, <2>3, CloseHandler
<1>10. CASE HandleClose
  <2>1. \/ app.allow /\ Handle(flow, <<>>) /\ app' = [app EXCEPT !.closed = TRUE]
        \/ ~app.allow /\ app.pending /\ Handle(flow, <<>>) /\ app' = asked
        \/ /\ ~app.allow /\ ~app.pending /\ flow.stage \in Ended
           /\ Handle(flow, <<>>) /\ app' = over
        \/ /\ ~app.allow /\ ~app.pending /\ flow.stage \notin Ended /\ app.made /\ ~HasResult
           /\ Handle(Finishing(flow), StopCalls) /\ app' = asked
        \/ /\ ~app.allow /\ ~app.pending /\ flow.stage \notin Ended
           /\ ~(app.made /\ ~HasResult) /\ Stopping(flow)
           /\ Handle(flow, <<>>) /\ app' = asked
        \/ /\ ~app.allow /\ ~app.pending /\ flow.stage \notin Ended
           /\ ~(app.made /\ ~HasResult) /\ ~Stopping(flow)
           /\ Handle(flow, <<>>) /\ app' = over
    BY <1>10 DEF HandleClose, asked, over
  <2>2. Handle(flow, <<>>) => flow' = flow /\ todo' = <<>>
    BY DEF Handle
  <2>3. asked # over
    BY <1>2, <1>3, <1>4
  <2>4. CASE app.allow /\ Handle(flow, <<>>) /\ app' = [app EXCEPT !.closed = TRUE]
    <3>1. /\ app' \in App /\ app'.close = app.close /\ app'.made = app.made
          /\ app'.pending = app.pending /\ app'.allow /\ app'.closed
      BY <1>1, <2>4 DEF App
    <3>2. EndInv' /\ ~app.pending
      BY <1>1, <1>5, <2>2, <2>4, <3>1 DEF EndInv, MadeInv, Settled
    <3> QED
      BY <1>4, <2>2, <2>4, <3>1, <3>2, CloseHandler
  <2>5. CASE /\ ~app.allow /\ ~app.pending /\ flow.stage \notin Ended /\ app.made /\ ~HasResult
             /\ Handle(Finishing(flow), StopCalls) /\ app' = asked
    <3>1. flow' = Finishing(flow) /\ todo' = StopCalls
      BY <2>5 DEF Handle
    <3> QED
      BY <1>7, <2>5, <3>1
  <2> QED
    BY <1>9, <2>1, <2>2, <2>3, <2>4, <2>5 DEF HasResult
<1> QED
  BY <1>6, <1>8, <1>10

LEMMA BootstrapKept == AppInv /\ PollRecordingBootstrap => AppInv'
<1> SUFFICES ASSUME AppInv, PollRecordingBootstrap PROVE AppInv'
  OBVIOUS
<1> DEFINE f == Step(flow, "capture_started")
           e == <<"capture_started", "starting_capture", "ready">>
           d == DestructiveFailure(flow)
           g == PrefixSettled(d, "failed")
<1>1. /\ app.pending /\ UNCHANGED <<sessionVars, window, mouse>> /\ Idle /\ ~app.closed
      /\ todo = <<>>
  BY DEF PollRecordingBootstrap, Handle, Idle
<1>2. /\ flow \in Flow /\ app \in App /\ mouse \in Mouse /\ Waits(flow)
      /\ OutcomeOf(flow, state, result) /\ MadeInv /\ EndInv
  BY InvParts DEF AppInv, OutcomeInv
<1>3. ~app.made /\ flow.stage = "starting_capture" /\ ~app.allow /\ ~mouse.gone
  BY <1>1, <1>2 DEF MadeInv
<1>4. state' = state /\ Focused' = Focused
  BY <1>1, SessionKept DEF AppInv
<1>5. flow.blockers = {}
  BY <1>2, <1>3 DEF Waits
<1>6. CASE app' = [app EXCEPT !.pending = FALSE, !.made = TRUE]
           /\ IF app.close THEN flow' = Finishing(f) /\ todo' = StopCalls
                           ELSE flow' = f /\ todo' = <<>>
  <2>1. f \in Flow /\ Same(flow, f) /\ f.stage = "ready"
    <3>1. e[1] = "capture_started" /\ e[2] = "starting_capture" /\ e[3] = "ready"
      OBVIOUS
    <3> QED
      BY <1>2, <1>3, <3>1, StepEffect
  <2> HIDE DEF f
  <2>2. /\ Finishing(f) \in Flow /\ Finishing(f).prefix = f.prefix /\ Finishing(f).send = f.send
        /\ Finishing(f).stage = "stopping_and_saving" /\ Finishing(f).blockers = {}
    BY <2>1, FinishEffect DEF GameplayStages
  <2>3. /\ flow' \in Flow /\ flow'.prefix = flow.prefix /\ flow'.send = flow.send
        /\ flow'.blockers = {} /\ flow'.stage \in {"ready", "stopping_and_saving"}
        /\ app.close => flow'.stage = "stopping_and_saving"
    BY <1>5, <1>6, <2>1, <2>2 DEF Same
  <2>4. /\ app' \in App /\ app'.made /\ ~app'.pending /\ app'.close = app.close
        /\ app'.allow = app.allow /\ app'.closed = app.closed
    BY <1>2, <1>6 DEF App
  <2>5. MadeInv'
    BY <2>3, <2>4 DEF MadeInv, PreCaptureStages
  <2>6. EndInv'
    BY <1>1, <1>3, <2>3, <2>4 DEF EndInv, Ended, Stopping
  <2>7. /\ Waits(flow') /\ Blocked(flow', window, mouse') /\ ~RunningFlow(flow')
        /\ OutcomeOf(flow', state, result)
    BY <1>1, <1>2, <1>3, <2>3
       DEF Waits, Blocked, RunningFlow, OutcomeOf, IsGameplayStage, GameplayStages
  <2> QED
    BY <1>1, <1>2, <1>6, <2>3, <2>4, <2>5, <2>6, <2>7, OffHandler
<1>7. CASE app' = [app EXCEPT !.pending = FALSE, !.allow = app.close] /\ Handle(g, <<>>)
  <2>1. d \in Flow /\ d.stage = "stopping_and_preserving" /\ d.blockers = {}
    BY <1>2, <1>3, DestructiveEffect DEF FailingStages
  <2> HIDE DEF d
  <2>2. /\ g \in Flow /\ g.stage = "error" /\ g.prefix = "failed" /\ g.send = FALSE
        /\ g.blockers = {}
    BY <2>1, SettledEffect
  <2> HIDE DEF g
  <2>3. flow' = g /\ todo' = <<>>
    BY <1>7 DEF Handle
  <2>4. /\ app' \in App /\ ~app'.made /\ ~app'.pending /\ app'.close = app.close
        /\ app'.allow = app.close /\ app'.closed = app.closed
    BY <1>2, <1>3, <1>7 DEF App
  <2>5. MadeInv'
    BY <1>1, <1>2, <1>3, <1>4, <2>2, <2>3, <2>4 DEF MadeInv, Ended
  <2>6. EndInv'
    BY <1>1, <2>2, <2>3, <2>4 DEF EndInv, Ended
  <2>7. /\ Waits(g) /\ Blocked(g, window, mouse') /\ ~RunningFlow(g)
        /\ OutcomeOf(g, state, result)
    BY <2>2 DEF Waits, Blocked, RunningFlow, OutcomeOf, IsGameplayStage, GameplayStages
  <2> QED
    BY <1>1, <1>2, <2>2, <2>3, <2>4, <2>5, <2>6, <2>7, OffHandler
<1> QED
  BY <1>6, <1>7 DEF PollRecordingBootstrap

(***************************************************************************)
(* What a call does to the session.                                        *)
(***************************************************************************)
LEMMA ObserveStops ==
  ObserveCapture => /\ state' = "stop_requested" /\ RecordingInv' /\ state' \notin Open
BY StopsEffect DEF RecordingInv, Open

\* While the window shows, only an interruption or the participant pauses a session.
Performed(call, shown) ==
  /\ RecordingInv' /\ (state' \in Open => state \in Open)
  /\ shown /\ state' \in Open => Focused' \/ (call \notin SetFocusCalls /\ (Focused => Focused'))
  /\ shown /\ state' = "paused" => state = "paused" \/ call \in Pausing
  /\ call \in {<<"manual_resume">>, <<"resume">>} /\ Focused => state' # "paused"

LEMMA FocusPerforms ==
  ASSUME SessionInv, RecordingInv, NEW focus \in BOOLEAN, NEW mini \in BOOLEAN,
         Perform(<<"set_focus", focus, mini>>), NEW shown, (focus /\ ~mini) <=> shown
  PROVE  Performed(<<"set_focus", focus, mini>>, shown)
<1> DEFINE c == <<"set_focus", focus, mini>>
<1>1. c \in SetFocusCalls /\ c \notin {<<"manual_resume">>, <<"resume">>}
  BY FocusIsCall, CallKinds DEF FinalCalls
<1> HIDE DEF c
<1>2. CASE ObserveCapture
  BY <1>1, <1>2, ObserveStops DEF Performed, Open
<1>3. CASE SetFocus(focus, mini)
  BY <1>1, <1>3, FocusKeeps DEF Performed
<1>4. CASE UNCHANGED sessionVars /\ ~(state \in Open /\ <<focus, mini>> # focusVars)
  <2>1. RecordingInv' /\ state' = state /\ Focused' = Focused
    BY <1>4, SessionKept
  <2>2. state \in Open => focused = focus /\ minimized = mini
    BY <1>4 DEF focusVars
  <2> QED
    BY <1>1, <2>1, <2>2 DEF Performed, Focused
<1> QED
  BY <1>2, <1>3, <1>4, FocusCall DEF c

LEMMA ReportPerforms ==
  ASSUME SessionInv, RecordingInv, NEW issue \in InterruptionIssues, Perform(<<"report", issue>>),
         NEW shown
  PROVE  Performed(<<"report", issue>>, shown)
<1> DEFINE c == <<"report", issue>>
<1>1. /\ c \in ReportCalls /\ c \in Pausing /\ c \notin SetFocusCalls
      /\ c \notin {<<"manual_resume">>, <<"resume">>}
  <2>1. c \in ReportCalls
    BY DEF ReportCalls
  <2> HIDE DEF c
  <2> QED
    BY <2>1, CallKinds DEF Pausing, FinalCalls
<1> HIDE DEF c
<1>2. ASSUME UNCHANGED sessionVars PROVE Performed(c, shown)
  <2>1. RecordingInv' /\ state' = state /\ Focused' = Focused
    BY <1>2, SessionKept
  <2> QED
    BY <1>1, <2>1 DEF Performed
<1>3. ASSUME ReportInterruption(issue) PROVE Performed(c, shown)
  <2>1. RecordingInv'
    BY <1>3, PausesKeep
  <2>2. Focused' = Focused
    BY <1>3 DEF ReportInterruption, NoLook, Focused, focusVars
  <2>3. state' \in Open => state \in Open
    <3>1. CASE state = "recording"
      BY <3>1 DEF Open
    <3>2. CASE state # "recording"
      BY <1>3, <3>2, StopsEffect DEF ReportInterruption, Open
    <3> QED
      BY <3>1, <3>2
  <2> QED
    BY <1>1, <2>1, <2>2, <2>3 DEF Performed
<1> QED
  BY <1>2, <1>3, ReportCall DEF c

LEMMA PlainPerforms ==
  ASSUME SessionInv, RecordingInv, NEW c \in PlainCalls \cup FinalCalls, c # <<"drive">>,
         Perform(c), NEW shown
  PROVE  Performed(c, shown)
<1> DEFINE back == c \in {<<"manual_resume">>, <<"resume">>}
<1>1. c \notin SetFocusCalls
  BY CallKinds
<1>2. \/ ObserveCapture \/ ReportStorageLow \/ RequestParticipantStop
      \/ UNCHANGED sessionVars /\ (back => ~CanResumeSession)
      \/ ManualPause /\ c = <<"manual_pause">>
      \/ (AdvanceSession \/ TryStart) /\ ~back
      \/ ResumeAfterRecoverableIssue
  BY PlainCall DEF PlainCalls, FinalCalls
<1>3. CASE ObserveCapture \/ ReportStorageLow \/ RequestParticipantStop
  <2>1. state' = "stop_requested"
    BY <1>3, StopsEffect
  <2> QED
    BY <2>1 DEF Performed, RecordingInv, Open
<1>4. CASE UNCHANGED sessionVars /\ (back => ~CanResumeSession)
  <2>1. RecordingInv' /\ state' = state /\ Focused' = Focused
    BY <1>4, SessionKept
  <2> QED
    BY <1>1, <1>4, <2>1 DEF Performed, CanResumeSession
<1>5. CASE ManualPause /\ c = <<"manual_pause">>
  <2>1. RecordingInv'
    BY <1>5, PausesKeep
  <2>2. Focused' = Focused /\ state = "recording" /\ c \in Pausing /\ ~back
    BY <1>5 DEF ManualPause, Focused, focusVars, Pausing
  <2> QED
    BY <1>1, <2>1, <2>2 DEF Performed, Open
<1>6. CASE (AdvanceSession \/ TryStart) /\ ~back
  <2>1. RecordingInv' /\ (state' = "paused" => state = "paused")
    BY <1>6, PlaysOn
  <2>2. Focused' = Focused /\ state \in Open
    BY <1>6 DEF AdvanceSession, TryStart, Focused, focusVars, Open
  <2> QED
    BY <1>1, <1>6, <2>1, <2>2 DEF Performed
<1>7. CASE ResumeAfterRecoverableIssue
  <2>1. RecordingInv' /\ state' # "paused" /\ state = "paused"
    BY <1>7, ResumeEnds
  <2>2. Focused' = Focused
    BY <1>7 DEF ResumeAfterRecoverableIssue, Focused, focusVars
  <2> QED
    BY <1>1, <2>1, <2>2 DEF Performed, Open
<1> QED
  BY <1>2, <1>3, <1>4, <1>5, <1>6, <1>7

LEMMA PerformEffect ==
  ASSUME SessionInv, RecordingInv, NEW c \in Calls, c # <<"drive">>, Perform(c), NEW shown,
         \A focus, mini \in BOOLEAN :
           c = <<"set_focus", focus, mini>> => ((focus /\ ~mini) <=> shown)
  PROVE  Performed(c, shown)
<1>1. ASSUME NEW focus \in BOOLEAN, NEW mini \in BOOLEAN, c = <<"set_focus", focus, mini>>
      PROVE  Performed(c, shown)
  BY <1>1, FocusPerforms
<1>2. ASSUME NEW issue \in InterruptionIssues, c = <<"report", issue>>
      PROVE  Performed(c, shown)
  BY <1>2, ReportPerforms
<1>3. CASE c \in PlainCalls \cup FinalCalls
  BY <1>3, PlainPerforms
<1> QED
  BY <1>1, <1>2, <1>3 DEF Calls, SetFocusCalls, ReportCalls

(***************************************************************************)
(* A call, and what the flow makes of it.                                  *)
(***************************************************************************)
LEMMA FollowsEffect ==
  ASSUME NEW f \in Flow, f = flow, NEW c, flow' = Followed(c), Waits(f)
  PROVE  /\ Plays(f, flow') /\ flow'.blockers = f.blockers /\ Waits(flow')
         /\ flow' # f => /\ flow'.blockers = {} /\ state' = "recording"
                         /\ \/ c[1] = "try_start" /\ f.stage = "ready"
                            \/ c[1] = "manual_resume" /\ f.stage = "paused"
<1>1. Plays(f, f)
  BY DEF Plays
<1>2. \/ flow' = f
      \/ c[1] = "try_start" /\ state' = "recording" /\ flow' = BeginCountdown(f)
      \/ c[1] = "manual_resume" /\ state' = "recording" /\ flow' = Resumed(f)
  BY DEF Followed
<1> QED
  BY <1>1, <1>2, BeginEffect, ResumedEffect

LEMMA CallSteps ==
  ASSUME AppInv, todo # <<>>, todo' = Tail(todo), UNCHANGED <<app, window, mouse>>,
         todo[1] # <<"drive">>, Perform(todo[1]), flow' = Followed(todo[1])
  PROVE  AppInv' /\ [SessionNext]_sessionVars
<1> DEFINE c == todo[1]
<1>1. /\ SessionInv /\ RecordingInv /\ AppTypes /\ OutcomeOf(flow, state, result) /\ MadeInv
      /\ EndInv /\ Waits(flow) /\ Blocked(flow, window, mouse) /\ TodoInv
      /\ flow \in Flow /\ todo \in Seq(Calls) /\ mouse \in Mouse
      /\ window.focus \in BOOLEAN /\ window.iconic \in BOOLEAN
  BY InvParts DEF AppInv, OutcomeInv, BlockInv
<1>2. /\ c \in Calls /\ CallsOf(todo, flow, Shown) /\ 1 \in 1..Len(todo)
      /\ Len(todo) = 1 => todo[Len(todo)] = c
  <2>1. Len(todo) \in Nat \ {0}
    BY <1>1, EmptySeq
  <2> QED
    BY <1>1, <2>1 DEF TodoInv
<1>3. /\ c \in FinalCalls => Len(todo) = 1
      /\ \A focus, mini \in BOOLEAN :
           c = <<"set_focus", focus, mini>> => ((focus /\ ~mini) <=> Shown)
      /\ c = <<"try_start">> => Shown
      /\ c \in Pausing /\ RunningFlow(flow) => Resumes(todo)
  BY <1>2 DEF CallsOf
<1>4. app.made /\ ~app.closed
  BY <1>1 DEF MadeInv, EndInv
<1>5. [SessionNext]_sessionVars
  BY <1>2, CallIsSession
<1> HIDE DEF c
<1>6. SessionInv' /\ OutcomeOf(flow, state', result') /\ (state \in Closed => state' \in Closed)
  BY <1>1, <1>5, SessionNextStep, OutcomeStays, SettledStays
<1>7. Performed(c, Shown)
  BY <1>1, <1>2, <1>3, PerformEffect DEF c
<1>8. /\ Plays(flow, flow') /\ flow'.blockers = flow.blockers /\ Waits(flow')
      /\ flow' # flow => /\ flow'.blockers = {} /\ state' = "recording"
                         /\ \/ c[1] = "try_start" /\ flow.stage = "ready"
                            \/ c[1] = "manual_resume" /\ flow.stage = "paused"
  BY <1>1, FollowsEffect DEF c
<1>9. /\ c[1] = "try_start" => c = <<"try_start">>
      /\ c[1] = "manual_resume" => c = <<"manual_resume">>
  BY <1>2 DEF Calls, SetFocusCalls, ReportCalls, PlainCalls, FinalCalls
<1>10. flow' # flow => c \in FinalCalls
  BY <1>8, <1>9 DEF FinalCalls
<1>11. /\ todo' \in Seq(Calls) /\ CallsOf(todo', flow', Shown)
       /\ Resumes(todo) /\ c # <<"resume">> => Resumes(todo')
       /\ Tells(todo) /\ c \notin SetFocusCalls => Tells(todo')
       /\ c \in FinalCalls => todo' = <<>>
  <2>1. c \in FinalCalls => Tail(todo) = <<>>
    BY <1>1, <1>2, CallsTail DEF c
  <2>2. RunningFlow(flow') => RunningFlow(flow) \/ Tail(todo) = <<>>
    BY <1>10, <2>1
  <2> QED
    BY <1>1, <1>2, <2>1, <2>2, CallsTail DEF c
<1>12. RunningFlow(flow) => Shown
  BY <1>1 DEF RunningFlow, Waits, Blocked, IsGameplayStage, GameplayStages, Shown
<1>13. Blocked(flow', window, mouse)
  <2>1. CASE flow' = flow
    BY <1>1, <2>1
  <2>2. CASE c = <<"try_start">> /\ flow.stage = "ready" /\ flow.blockers = {}
    BY <1>1, <1>3, <1>8, <2>2 DEF Blocked, Shown, GameplayStages
  <2>3. CASE c = <<"manual_resume">> /\ flow.stage = "paused" /\ flow.blockers = {}
    BY <1>1, <1>8, <2>3 DEF Blocked, IsGameplayStage, GameplayStages
  <2> QED
    BY <1>8, <1>9, <2>1, <2>2, <2>3
<1>14. AppTypes'
  BY <1>1, <1>8, <1>11 DEF AppTypes, Plays
<1>15. OutcomeInv'
  BY <1>1, <1>6, <1>8, OutcomePlays DEF OutcomeInv
<1>16. flow'.stage = flow.stage \/ {flow.stage, flow'.stage} \subseteq GameplayStages
  BY <1>8 DEF Plays
<1>17. MadeInv'
  BY <1>1, <1>4, <1>16 DEF MadeInv, GameplayStages, PreCaptureStages
<1>18. EndInv'
  BY <1>1, <1>4, <1>6, <1>8, <1>16
     DEF EndInv, Settled, Plays, GameplayStages, Ended, Stopping
<1>19. RunningFlow(flow') /\ state' = "paused" => Resumes(todo')
  <2> SUFFICES ASSUME RunningFlow(flow'), state' = "paused" PROVE Resumes(todo')
    OBVIOUS
  <2>1. flow' = flow /\ RunningFlow(flow) /\ Shown
    BY <1>8, <1>12
  <2>2. state = "paused" \/ c \in Pausing
    BY <1>7, <2>1 DEF Performed
  <2>3. Resumes(todo)
    BY <1>1, <1>3, <2>1, <2>2 DEF TodoInv
  <2>4. c # <<"resume">>
    <3> SUFFICES ASSUME c = <<"resume">> PROVE FALSE
      OBVIOUS
    <3>1. c \in FinalCalls /\ c \notin Pausing /\ c \notin SetFocusCalls
      <4>1. c \in FinalCalls /\ c # <<"manual_pause">>
        BY DEF FinalCalls
      <4> QED
        BY <4>1, CallKinds DEF Pausing
    <3>2. state = "paused" /\ ~Focused
      BY <1>7, <2>2, <3>1 DEF Performed
    <3>3. Tells(todo)
      BY <1>1, <2>1, <3>2 DEF TodoInv, Open
    <3>4. Tells(todo') /\ todo' = <<>>
      BY <1>11, <3>1, <3>3
    <3>5. ~Tells(<<>>)
      BY DEF Tells
    <3> QED
      BY <3>4, <3>5
  <2> QED
    BY <1>11, <2>3, <2>4
<1>20. Shown /\ state' \in Open => Focused' \/ Tells(todo')
  BY <1>1, <1>7, <1>11 DEF TodoInv, Performed
<1>21. BlockInv'
  BY <1>8, <1>13 DEF BlockInv, Blocked
<1>22. TodoInv'
  BY <1>11, <1>19, <1>20 DEF TodoInv, Shown
<1>23. RecordingInv'
  BY <1>7 DEF Performed
<1> QED
  BY <1>5, <1>6, <1>14, <1>15, <1>17, <1>18, <1>21, <1>22, <1>23 DEF AppInv

(***************************************************************************)
(* The end of a tick.                                                      *)
(***************************************************************************)
LEMMA DriveHandler ==
  ASSUME AppInv, todo # <<>>, todo' = Tail(todo), todo[1] = <<"drive">>,
         UNCHANGED <<window, mouse>>, Drive,
         flow' \in Flow, app' \in App, app'.made = app.made, app'.pending = app.pending,
         OutcomeOf(flow', state', result'), Waits(flow'), Blocked(flow', window, mouse),
         flow'.stage \notin PreCaptureStages \cup {"starting_capture", "cancelled"}
           \/ flow'.stage = flow.stage,
         RunningFlow(flow') /\ state' = "paused" => RunningFlow(flow) /\ state = "paused",
         state' \in Open => state' = state /\ Focused' = Focused,
         todo' = <<>> => EndInv'
  PROVE  AppInv' /\ [SessionNext]_sessionVars
<1>1. /\ SessionInv /\ RecordingInv /\ AppTypes /\ MadeInv /\ TodoInv /\ flow \in Flow
      /\ todo \in Seq(Calls)
  BY DEF AppInv, AppTypes
<1>2. [SessionNext]_sessionVars /\ RecordingInv' /\ SessionInv'
  BY <1>1, DriveEffect, SessionNextStep
<1>3. Len(todo) = 1 /\ todo' = <<>>
  <2>1. Len(todo) \in Nat \ {0}
    BY <1>1, EmptySeq
  <2>2. todo[1] \in FinalCalls /\ 1 \in 1..Len(todo)
    BY <2>1 DEF FinalCalls
  <2>3. Len(todo) = 1
    BY <1>1, <2>2 DEF TodoInv, CallsOf
  <2>4. CallsOf(todo, flow, Shown) /\ (RunningFlow(flow) => RunningFlow(flow) \/ Tail(todo) = <<>>)
    BY <1>1 DEF TodoInv
  <2>5. Tail(todo) = <<>>
    BY <1>1, <2>2, <2>4, CallsTail
  <2> QED
    BY <2>3, <2>5
<1>4. ~Resumes(todo) /\ ~Tells(todo)
  <2>1. <<"drive">> # <<"resume">> /\ <<"drive">> \notin SetFocusCalls
    <3>1. <<"drive">> \in FinalCalls
      BY DEF FinalCalls
    <3> QED
      BY <3>1, CallKinds
  <2>2. \A i \in 1..Len(todo) : todo[i] = <<"drive">>
    BY <1>3
  <2>3. todo[Len(todo)] = <<"drive">>
    BY <1>3
  <2> QED
    BY <2>1, <2>2, <2>3 DEF Resumes, Tells
<1>5. todo' \in Seq(Calls) /\ CallsOf(todo', flow', Shown')
  BY <1>3, NoCalls
<1>6. AppTypes'
  BY <1>1, <1>5 DEF AppTypes
<1>7. app.made
  BY <1>1 DEF MadeInv
<1>8. MadeInv'
  BY <1>1, <1>7 DEF MadeInv
<1>9. OutcomeInv' /\ BlockInv'
  BY DEF OutcomeInv, BlockInv, Blocked
<1>10. RunningFlow(flow') => state' # "paused"
  BY <1>1, <1>4 DEF TodoInv
<1>11. Shown' /\ state' \in Open => Focused'
  BY <1>1, <1>4 DEF TodoInv, Shown
<1>12. TodoInv'
  BY <1>5, <1>10, <1>11 DEF TodoInv
<1> QED
  BY <1>2, <1>3, <1>6, <1>8, <1>9, <1>12 DEF AppInv

LEMMA DriveSteps ==
  ASSUME AppInv, todo # <<>>, todo' = Tail(todo), todo[1] = <<"drive">>,
         UNCHANGED <<window, mouse>>, Drive
  PROVE  AppInv' /\ [SessionNext]_sessionVars
<1> DEFINE f == Counted(flow)
           h == StopFollowed(f)
           d == IF f.stage = "stopping_and_saving" THEN DestructiveFailure(f) ELSE f
           g == PrefixSettled(d, "failed")
           t == Told(h, state' = "finalized", result')
<1>1. /\ SessionInv /\ RecordingInv /\ OutcomeOf(flow, state, result) /\ MadeInv /\ EndInv
      /\ flow \in Flow /\ app \in App /\ Waits(flow) /\ Blocked(flow, window, mouse)
  BY InvParts DEF AppInv, OutcomeInv
<1>2. /\ Plays(flow, f) /\ f \in Flow /\ f.blockers = flow.blockers /\ Waits(f)
      /\ f.stage # flow.stage => RunningFlow(flow) /\ f.stage = "playing"
  BY <1>1, CountedEffect DEF Plays
<1>3. /\ [SessionNext]_sessionVars
      /\ \/ flow' = f /\ UNCHANGED <<sessionVars, app>>
         \/ /\ state = "stop_requested" /\ UNCHANGED sessionVars
            /\ flow' = g /\ app' = [app EXCEPT !.allow = app.allow \/ app.close]
         \/ /\ state = "stop_requested" /\ state' \in Closed
            /\ state' = "finalized" => result'.status # "none"
            /\ flow' = t
            /\ app' = [app EXCEPT !.handled = TRUE, !.allow = app.allow \/ app.close]
         \/ /\ state = "stop_requested" /\ state' = "stop_requested"
            /\ flow' = h /\ UNCHANGED app
  BY <1>1, DriveEffect
<1>4. /\ h \in Flow /\ h.send = f.send
      /\ h # f => /\ Stopping(h) /\ h.blockers = {} /\ ~Stopping(f)
                  /\ f.stage \in GameplayStages \cup {"starting_capture"}
                  /\ h.prefix \in {f.prefix, "pending"}
      /\ f.stage \in GameplayStages => Stopping(h)
  BY <1>2, FollowedEffect
<1>5. /\ t \in Flow /\ (~Stopping(h) => t = h)
      /\ Stopping(h) =>
           /\ t.stage \in {"complete", "error"} /\ (Waits(h) => t.blockers = {})
           /\ t.stage = "complete" =>
                /\ state' = "finalized" /\ ~result'.recovered /\ result'.status # "capture_lost"
                /\ t.prefix = h.prefix
           /\ t.stage = "error" =>
                /\ t.prefix = IF state' # "finalized" THEN "failed"
                              ELSE IF result'.verified THEN "preserved" ELSE "unverified"
                /\ t.send = (state' = "finalized")
  <2> DEFINE sealed == state' = "finalized"
             r      == result'
             told   == Told(h, sealed, r)
  <2>1. sealed \in BOOLEAN /\ h \in Flow
    BY <1>4
  <2> HIDE DEF h, sealed, r
  <2>2. /\ told \in Flow /\ (~Stopping(h) => told = h)
        /\ Stopping(h) =>
             /\ told.stage \in {"complete", "error"} /\ (Waits(h) => told.blockers = {})
             /\ told.stage = "complete" =>
                  /\ sealed /\ ~r.recovered /\ r.status # "capture_lost"
                  /\ told.prefix = h.prefix
             /\ told.stage = "error" =>
                  /\ told.prefix = IF ~sealed THEN "failed"
                                   ELSE IF r.verified THEN "preserved" ELSE "unverified"
                  /\ told.send = sealed
    BY <2>1, ToldEffect, SMTT(30)
  <2> QED
    BY <2>2 DEF sealed, r
<1>6. /\ d \in Flow /\ g \in Flow
      /\ Stopping(f) => /\ g.stage = "error" /\ g.prefix = "failed" /\ ~g.send
                        /\ g.blockers = {}
      /\ ~Stopping(f) => g = f
  <2>1. /\ d \in Flow
        /\ Stopping(f) => d.stage = "stopping_and_preserving" /\ d.blockers = {}
        /\ ~Stopping(f) => d = f
    BY <1>2, DestructiveEffect DEF Stopping, FailingStages, Waits
  <2> HIDE DEF d
  <2>2. /\ g \in Flow
        /\ d.stage = "stopping_and_preserving" =>
             g.stage = "error" /\ g.prefix = "failed" /\ ~g.send /\ g.blockers = d.blockers
        /\ d.stage # "stopping_and_preserving" => g = d
    BY <2>1, SettledEffect
  <2> HIDE DEF g
  <2> QED
    BY <2>1, <2>2 DEF Stopping
<1> HIDE DEF f, h, d, g, t
<1>7. app.made /\ ~app.closed /\ ~app.pending
  BY <1>1 DEF MadeInv, EndInv
<1>8. LET a == [app EXCEPT !.allow = app.allow \/ app.close]
          b == [app EXCEPT !.handled = TRUE, !.allow = app.allow \/ app.close]
      IN /\ a \in App /\ a.made = app.made /\ a.pending = app.pending /\ a.closed = app.closed
         /\ a.close = app.close /\ (a.allow => app.allow \/ app.close)
         /\ b \in App /\ b.made = app.made /\ b.pending = app.pending /\ b.closed = app.closed
         /\ b.close = app.close
  BY <1>1 DEF App
<1>9. /\ OutcomeOf(f, state, result) /\ OutcomeOf(f, state', result')
      /\ Blocked(f, window, mouse)
  <2>1. OutcomeOf(flow, state', result')
    BY <1>1, <1>3, OutcomeStays
  <2>2. f.stage \in GameplayStages => flow.stage \in GameplayStages
    BY <1>2 DEF Plays
  <2>3. IsGameplayStage(f) => IsGameplayStage(flow)
    BY <1>2 DEF IsGameplayStage, RunningFlow, GameplayStages
  <2> QED
    BY <1>1, <1>2, <2>1, <2>2, <2>3, OutcomePlays DEF Blocked
<1>10. /\ flow.stage \in Ended => f = flow
       /\ Stopping(flow) => f = flow
       /\ flow.stage \notin GameplayStages => f = flow
       /\ f.prefix = flow.prefix
       /\ f.stage \notin PreCaptureStages \cup {"starting_capture", "cancelled"}
  BY <1>1, <1>2, <1>7 DEF Plays, Ended, Stopping, GameplayStages, MadeInv, PreCaptureStages
<1>11. /\ Stopping(f) => f.stage \notin Ended
       /\ f.stage = "error" => f.stage \in Ended
       /\ state = "stop_requested" => state \notin Closed /\ state \notin Open
       /\ state' = "stop_requested" => state' \notin Open
       /\ state' \in Closed => state' \notin Open /\ state' # "paused"
  BY DEF Stopping, Ended, Open, Closed
<1>12. CASE flow' = f /\ UNCHANGED <<sessionVars, app>>
  <2>1. state' = state /\ Focused' = Focused
    BY <1>1, <1>12, SessionKept
  <2>2. RunningFlow(f) => RunningFlow(flow)
    BY <1>2 DEF RunningFlow
  <2>3. todo' = <<>> => EndInv'
    BY <1>1, <1>2, <1>7, <1>10, <1>12, <2>1
       DEF EndInv, Settled, RunningFlow, Ended, Stopping
  <2>4. app' \in App /\ app'.made = app.made /\ app'.pending = app.pending
    BY <1>1, <1>12
  <2> QED
    BY <1>2, <1>9, <1>10, <1>12, <2>1, <2>2, <2>3, <2>4, DriveHandler
<1>13. CASE /\ state = "stop_requested" /\ UNCHANGED sessionVars
            /\ flow' = g /\ app' = [app EXCEPT !.allow = app.allow \/ app.close]
  <2>1. state' = state /\ Focused' = Focused
    BY <1>1, <1>13, SessionKept
  <2>2. /\ app' \in App /\ app'.made = app.made /\ app'.pending = app.pending
        /\ app'.closed = app.closed /\ app'.close = app.close
        /\ app'.allow => app.allow \/ app.close
    BY <1>8, <1>13
  <2>3. CASE Stopping(f)
    <3>1. g.stage = "error" /\ g.prefix = "failed" /\ ~g.send /\ g.blockers = {} /\ g \in Flow
      BY <1>6, <2>3
    <3>2. /\ Waits(g) /\ Blocked(g, window, mouse) /\ ~RunningFlow(g)
          /\ OutcomeOf(g, state', result')
          /\ g.stage \notin PreCaptureStages \cup {"starting_capture", "cancelled"}
      BY <3>1 DEF Waits, Blocked, RunningFlow, OutcomeOf, IsGameplayStage, GameplayStages,
                  PreCaptureStages
    <3>3. todo' = <<>> => EndInv'
      BY <1>7, <1>13, <2>2, <3>1 DEF EndInv, Settled, Ended
    <3> QED
      BY <1>11, <1>13, <2>1, <2>2, <3>1, <3>2, <3>3, DriveHandler
  <2>4. CASE ~Stopping(f)
    <3>1. flow' = f
      BY <1>6, <1>13, <2>4
    <3>2. app.close => flow.stage \in Ended
      BY <1>1, <1>7, <1>10, <2>4 DEF EndInv
    <3>3. app'.allow \/ flow'.stage \in Ended => flow.prefix = "failed"
      <4>1. f.stage \in Ended => flow.stage \in Ended
        BY <1>2 DEF Ended
      <4> QED
        BY <1>1, <1>7, <1>11, <1>13, <2>2, <3>1, <3>2, <4>1 DEF EndInv, Settled
    <3>4. todo' = <<>> => EndInv'
      BY <1>7, <1>10, <2>2, <3>1, <3>2, <3>3 DEF EndInv, Settled
    <3> QED
      BY <1>2, <1>9, <1>10, <1>11, <1>13, <2>1, <2>2, <3>1, <3>4, DriveHandler
  <2> QED
    BY <2>3, <2>4
<1>14. CASE /\ state = "stop_requested" /\ state' \in Closed
            /\ state' = "finalized" => result'.status # "none"
            /\ flow' = t
            /\ app' = [app EXCEPT !.handled = TRUE, !.allow = app.allow \/ app.close]
  <2>1. /\ app' \in App /\ app'.made = app.made /\ app'.pending = app.pending
        /\ app'.closed = app.closed /\ app'.close = app.close
    BY <1>8, <1>14
  <2>2. CASE ~Stopping(h)
    <3>1. flow' = f /\ f.stage \notin GameplayStages /\ ~Stopping(f)
      BY <1>4, <1>5, <1>14, <2>2
    <3>2. app.close => flow.stage \in Ended
      BY <1>1, <1>7, <1>10, <3>1 DEF EndInv
    <3>3. todo' = <<>> => EndInv'
      BY <1>7, <1>10, <1>14, <2>1, <3>1, <3>2 DEF EndInv, Settled
    <3> QED
      BY <1>2, <1>9, <1>10, <1>11, <1>14, <2>1, <3>1, <3>3, DriveHandler
  <2>3. CASE Stopping(h)
    <3>1. /\ t.stage \in {"complete", "error"} /\ t.blockers = {} /\ t \in Flow
      <4>1. Waits(h)
        BY <1>2, <1>4 DEF Waits
      <4> QED
        BY <1>5, <2>3, <4>1
    <3>2. h.prefix \notin {"preserved", "failed"}
      <4>1. f.prefix # "preserved" /\ (f.prefix = "failed" => f.stage = "error")
        BY <1>9, <1>14 DEF OutcomeOf
      <4>2. f.prefix # "failed"
        BY <1>4, <2>3, <4>1 DEF Stopping, GameplayStages
      <4> QED
        BY <1>4, <4>1, <4>2
    <3>3. OutcomeOf(t, state', result')
      <4>1. CASE t.stage = "complete"
        BY <1>5, <1>14, <2>3, <3>2, <4>1 DEF OutcomeOf
      <4>2. CASE t.stage = "error"
        BY <1>5, <2>3, <4>2 DEF OutcomeOf
      <4> QED
        BY <3>1, <4>1, <4>2
    <3>4. /\ Waits(t) /\ Blocked(t, window, mouse) /\ ~RunningFlow(t)
          /\ t.stage \notin PreCaptureStages \cup {"starting_capture", "cancelled"}
      BY <3>1 DEF Waits, Blocked, RunningFlow, IsGameplayStage, GameplayStages, PreCaptureStages
    <3>5. todo' = <<>> => EndInv'
      BY <1>7, <1>14, <2>1, <3>1 DEF EndInv, Settled, Ended
    <3> QED
      BY <1>11, <1>14, <2>1, <3>1, <3>3, <3>4, <3>5, DriveHandler
  <2> QED
    BY <2>2, <2>3
<1>15. CASE /\ state = "stop_requested" /\ state' = "stop_requested"
            /\ flow' = h /\ UNCHANGED app
  <2>1. app' \in App /\ app'.made = app.made /\ app'.pending = app.pending
    BY <1>1, <1>15
  <2>2. CASE h = f
    <3>1. todo' = <<>> => EndInv'
      BY <1>1, <1>2, <1>7, <1>10, <1>15, <2>2
         DEF EndInv, Settled, RunningFlow, Ended, Stopping, Closed
    <3> QED
      BY <1>2, <1>9, <1>10, <1>11, <1>15, <2>1, <2>2, <3>1, DriveHandler
  <2>3. CASE h # f
    <3>1. /\ Stopping(h) /\ h.blockers = {} /\ h.prefix \in {f.prefix, "pending"}
          /\ f.stage \in GameplayStages
      BY <1>4, <1>10, <2>3
    <3>2. f.stage # "error" /\ f.stage # "complete"
      BY <3>1 DEF GameplayStages
    <3>3. OutcomeOf(h, state', result')
      BY <1>4, <1>9, <1>15, <3>1, <3>2 DEF OutcomeOf, Stopping
    <3>4. /\ Waits(h) /\ Blocked(h, window, mouse) /\ ~RunningFlow(h)
          /\ h.stage \notin PreCaptureStages \cup {"starting_capture", "cancelled"}
      BY <3>1 DEF Waits, Blocked, RunningFlow, Stopping, IsGameplayStage, GameplayStages,
                  PreCaptureStages
    <3>5. flow.prefix # "failed" /\ ~app.allow
      BY <1>1, <1>7, <1>9, <1>10, <1>11, <1>15, <3>2 DEF OutcomeOf, EndInv, Settled
    <3>6. todo' = <<>> => EndInv'
      BY <1>7, <1>15, <3>1, <3>5 DEF EndInv, Ended, Stopping
    <3> QED
      BY <1>4, <1>11, <1>15, <2>1, <3>3, <3>4, <3>6, DriveHandler
  <2> QED
    BY <2>2, <2>3
<1> QED
  BY <1>3, <1>12, <1>13, <1>14, <1>15

LEMMA NextCallSteps ==
  ASSUME AppInv, NextCall
  PROVE  AppInv' /\ [SessionNext]_sessionVars
<1> DEFINE c == todo[1]
<1>1. /\ todo # <<>> /\ todo' = Tail(todo) /\ UNCHANGED <<window, mouse>>
      /\ IF c[1] = "drive" THEN Drive
         ELSE Perform(c) /\ flow' = Followed(c) /\ UNCHANGED app
  BY DEF NextCall
<1>2. c \in Calls
  <2>1. todo \in Seq(Calls) /\ Len(todo) \in Nat \ {0}
    BY <1>1, InvParts, EmptySeq
  <2> QED
    BY <2>1
<1> HIDE DEF c
<1>3. c[1] = "drive" <=> c = <<"drive">>
  BY <1>2 DEF Calls, SetFocusCalls, ReportCalls, PlainCalls, FinalCalls
<1>4. CASE c = <<"drive">>
  BY <1>1, <1>3, <1>4, DriveSteps DEF c
<1>5. CASE c # <<"drive">>
  BY <1>1, <1>3, <1>5, CallSteps DEF c
<1> QED
  BY <1>4, <1>5

(***************************************************************************)
(* Steps of the session alone.                                             *)
(***************************************************************************)
LEMMA SessionMoves ==
  ASSUME AppInv, UNCHANGED appVars, [SessionNext]_sessionVars, RecordingInv', app.made,
         state' = "paused" => state = "paused", state' \in Open => state \in Open,
         state' \in Open => Focused' = Focused
  PROVE  AppInv'
<1>1. /\ SessionInv /\ OutcomeOf(flow, state, result) /\ MadeInv /\ EndInv /\ TodoInv
  BY DEF AppInv, OutcomeInv
<1>2. UNCHANGED <<flow, app, window, mouse, todo>>
  BY DEF appVars
<1>3. SessionInv' /\ OutcomeOf(flow, state', result') /\ (state \in Closed => state' \in Closed)
  BY <1>1, SessionNextStep, OutcomeStays, SettledStays
<1>4. AppTypes' /\ BlockInv'
  BY <1>2 DEF AppInv, AppTypes, BlockInv, Blocked
<1>5. OutcomeInv' /\ MadeInv'
  BY <1>1, <1>2, <1>3 DEF OutcomeInv, MadeInv
<1>6. EndInv'
  BY <1>1, <1>2, <1>3 DEF EndInv, Settled
<1>7. TodoInv'
  BY <1>1, <1>2 DEF TodoInv, Shown
<1> QED
  BY <1>3, <1>4, <1>5, <1>6, <1>7 DEF AppInv

LEMMA AloneSteps ==
  ASSUME AppInv, Packet \/ Present \/ HelperMoves
  PROVE  AppInv' /\ [SessionNext]_sessionVars
<1>1. UNCHANGED appVars /\ app.made
  BY DEF Packet, Present, HelperMoves
<1>2. \/ ObserveCapture \/ SubmitPacket \/ PresentTarget \/ UNCHANGED sessionVars \/ CaptureMoves
  BY DEF Packet, Present, HelperMoves, Looking
<1>3. SessionInv /\ RecordingInv
  BY DEF AppInv
<1>4. [SessionNext]_sessionVars
  BY <1>2 DEF SessionNext, SessionCall
<1>5. CASE ObserveCapture
  BY <1>1, <1>4, <1>5, ObserveStops, SessionMoves
<1>6. CASE SubmitPacket \/ PresentTarget
  <2>1. RecordingInv' /\ (state' = "paused" => state = "paused")
    BY <1>3, <1>6, PlaysOn
  <2>2. Focused' = Focused /\ state \in Open
    BY <1>6 DEF SubmitPacket, PresentTarget, Focused, focusVars, Open
  <2> QED
    BY <1>1, <1>4, <2>1, <2>2, SessionMoves
<1>7. CASE UNCHANGED sessionVars \/ CaptureMoves
  <2>1. state' = state /\ trainer' = trainer /\ Focused' = Focused
    BY <1>7 DEF CaptureMoves, notCapture, sessionVars, focusVars, Focused
  <2>2. RecordingInv'
    BY <1>3, <2>1 DEF RecordingInv
  <2> QED
    BY <1>1, <1>4, <2>1, <2>2, SessionMoves
<1> QED
  BY <1>2, <1>4, <1>5, <1>6, <1>7

\* Every handler but the calls it makes leaves the session as it is.
LEMMA HandlersLeaveSession ==
  ASSUME \/ HandleFocus \/ Minimize \/ Resize \/ DisplayChanges \/ RenderFails \/ RetryGraphics
         \/ Suspend \/ WakeUp \/ Unplug \/ Plug \/ ScanSees \/ PollLiveInputRebind
         \/ StartRecordingAsync \/ BeginTrainerCountdown \/ PauseTrainer \/ ResumeTrainer
         \/ FinishAndSave \/ Cancels \/ Done \/ HandleClose
         \/ PollRecordingBootstrap \/ DriveRecording \/ AppOver
  PROVE  UNCHANGED sessionVars
<1>1. \A f, calls : Handle(f, calls) => UNCHANGED sessionVars
  BY DEF Handle
<1>2. \A outcomes : Presents(outcomes) => UNCHANGED sessionVars
  BY <1>1 DEF Presents
<1>3. CASE Resize \/ DisplayChanges \/ RenderFails \/ RetryGraphics
  BY <1>2, <1>3 DEF Resize, DisplayChanges, RenderFails, RetryGraphics
<1>4. CASE HandleFocus \/ Minimize \/ Suspend \/ WakeUp
  BY <1>1, <1>4 DEF HandleFocus, Minimize, Suspend, WakeUp
<1>5. CASE Unplug \/ Plug \/ ScanSees \/ PollLiveInputRebind
  BY <1>1, <1>5 DEF Unplug, Plug, ScanSees, PollLiveInputRebind
<1>6. CASE StartRecordingAsync \/ BeginTrainerCountdown \/ PauseTrainer \/ ResumeTrainer
  BY <1>1, <1>6 DEF StartRecordingAsync, BeginTrainerCountdown, PauseTrainer, ResumeTrainer
<1>7. CASE FinishAndSave \/ Cancels \/ Done \/ HandleClose
  BY <1>1, <1>7 DEF FinishAndSave, Cancels, Done, HandleClose
<1>8. CASE PollRecordingBootstrap \/ DriveRecording \/ AppOver
  BY <1>1, <1>8 DEF PollRecordingBootstrap, DriveRecording, AppOver, allVars
<1> QED
  BY <1>3, <1>4, <1>5, <1>6, <1>7, <1>8

(***************************************************************************)
(* The theorems.                                                           *)
(***************************************************************************)
LEMMA AppInitInv == AppInit => AppInv
<1> SUFFICES ASSUME AppInit PROVE AppInv
  OBVIOUS
<1>1. /\ SessionInit /\ todo = <<>> /\ window = [focus |-> TRUE, iconic |-> FALSE]
      /\ mouse = [plugged |-> TRUE, known |-> TRUE, gone |-> FALSE, scan |-> "none",
                  rescan |-> FALSE]
      /\ app = [close |-> FALSE, allow |-> FALSE, closed |-> FALSE, pending |-> FALSE,
                made |-> FALSE, handled |-> FALSE, dark |-> FALSE]
      /\ flow = [NewFlow EXCEPT !.stage = "ready_to_start", !.sensitivity = TRUE,
                                !.length = TRUE]
  BY DEF AppInit
<1>2. /\ SessionInv /\ RecordingInv /\ state = "awaiting_capture_ready" /\ Focused
  BY <1>1, SessionInitInv DEF SessionInit, RecordingInv, Focused
<1>3. /\ flow \in Flow /\ flow.stage = "ready_to_start" /\ flow.blockers = {}
      /\ flow.prefix = "not_required" /\ flow.send = FALSE
  BY <1>1 DEF NewFlow, Flow, Stages, PreCaptureStages, Blockers, Problems, Preserved
<1>4. app \in App /\ mouse \in Mouse /\ window \in [focus : BOOLEAN, iconic : BOOLEAN]
  BY <1>1 DEF App, Mouse
<1>5. AppTypes
  BY <1>1, <1>3, <1>4, NoCalls DEF AppTypes
<1>6. OutcomeInv
  BY <1>3 DEF OutcomeInv, OutcomeOf
<1>7. MadeInv /\ EndInv
  BY <1>1, <1>2, <1>3 DEF MadeInv, EndInv, PreCaptureStages
<1>8. BlockInv
  BY <1>1, <1>3 DEF BlockInv, Waits, Blocked, IsGameplayStage, GameplayStages
<1>9. TodoInv
  BY <1>1, <1>2, <1>3, NoCalls DEF TodoInv, RunningFlow
<1> QED
  BY <1>2, <1>5, <1>6, <1>7, <1>8, <1>9 DEF AppInv

LEMMA AppNextStep ==
  ASSUME AppInv, [AppNext]_allVars
  PROVE  AppInv' /\ [SessionNext]_sessionVars
<1>1. CASE UNCHANGED allVars
  <2>1. UNCHANGED <<sessionVars, flow, app, window, mouse, todo>>
    BY <1>1 DEF allVars, appVars
  <2>2. SessionInv' /\ RecordingInv' /\ state' = state /\ result' = result /\ Focused' = Focused
    BY <2>1, SessionKept DEF AppInv
  <2>3. AppTypes' /\ OutcomeInv' /\ MadeInv' /\ BlockInv'
    BY <2>1, <2>2 DEF AppInv, AppTypes, OutcomeInv, MadeInv, BlockInv, Blocked
  <2>4. EndInv' /\ TodoInv'
    BY <2>1, <2>2 DEF AppInv, EndInv, Settled, TodoInv, Shown
  <2> QED
    BY <2>1, <2>2, <2>3, <2>4 DEF AppInv
<1>2. CASE NextCall
  BY <1>2, NextCallSteps
<1>3. CASE Packet \/ Present \/ HelperMoves
  BY <1>3, AloneSteps
<1>4. CASE HandleFocus \/ Minimize \/ Suspend \/ WakeUp
  BY <1>4, FocusKept, MinimizeKept, SuspendKept, WakeUpKept, HandlersLeaveSession
<1>5. CASE Resize \/ DisplayChanges \/ RenderFails \/ RetryGraphics
  BY <1>5, ResizeKept, DisplayKept, HandlersLeaveSession
<1>6. CASE Unplug \/ Plug \/ ScanSees \/ PollLiveInputRebind
  BY <1>6, UnplugKept, PlugKept, ScanSeesKept, RebindKept, HandlersLeaveSession
<1>7. CASE StartRecordingAsync \/ BeginTrainerCountdown \/ PauseTrainer \/ ResumeTrainer
  BY <1>7, StartKept, TrainerKept, HandlersLeaveSession
<1>8. CASE FinishAndSave \/ Cancels \/ Done \/ HandleClose
  BY <1>8, EndKept, CancelsKept, HandlersLeaveSession
<1>9. CASE PollRecordingBootstrap \/ DriveRecording
  BY <1>9, BootstrapKept, DriveRecordingKept, HandlersLeaveSession
<1>10. AppOver => UNCHANGED allVars
  BY DEF AppOver
<1> QED
  BY <1>1, <1>2, <1>3, <1>4, <1>5, <1>6, <1>7, <1>8, <1>9, <1>10 DEF AppNext

\* The inductive invariant: whatever messages, ticks and events of the helper come in
\* whatever order, the flow, the session, the window and the calls that are still to be
\* made agree as described above.
THEOREM ApplicationInvariant == AppSpec => []AppInv
<1>1. AppInit => AppInv
  BY AppInitInv
<1>2. AppInv /\ [AppNext]_allVars => AppInv'
  BY AppNextStep
<1> QED
  BY <1>1, <1>2, PTL DEF AppSpec

\* The application is a client of the session: every step of it is one call of the
\* session, a step of the capture under it, or leaves both alone, so whatever is proved
\* of the session's steps holds under the application.
THEOREM ApplicationUsesSession == AppSpec => SessionInit /\ [][SessionNext]_sessionVars
<1>1. AppInit => SessionInit
  BY DEF AppInit
<1>2. AppInv /\ [AppNext]_allVars => [SessionNext]_sessionVars
  BY AppNextStep
<1> QED
  BY <1>1, <1>2, ApplicationInvariant, PTL DEF AppSpec

\* The participant is told no more than what was sealed, whatever DriveRecording saw
\* fail between the stop and the result.
THEOREM TheTruthIsTold == AppSpec => []ToldTheTruth
<1>1. AppInv => ToldTheTruth
  BY DEF AppInv, OutcomeInv, OutcomeOf, ToldTheTruth
<1> QED
  BY <1>1, ApplicationInvariant, PTL

\* HandleClose, Done and the polls never let the window close over a session that is
\* neither sealed nor given up.
THEOREM ClosedIsSettled == AppSpec => []ClosedMeansSettled
<1>1. AppInv => ClosedMeansSettled
  BY DEF AppInv, EndInv, Settled, ClosedMeansSettled
<1> QED
  BY <1>1, ApplicationInvariant, PTL

\* Between two messages the flow shows the trainer running, or about to, only while
\* nothing keeps it paused and the session under it is not paused either.
THEOREM FlowAlwaysFollows == AppSpec => []FlowFollowsSession
<1>1. AppInv => FlowFollowsSession
  <2> SUFFICES ASSUME AppInv, RunningFlow(flow), todo = <<>>
               PROVE  flow.blockers = {} /\ ~mouse.gone /\ state # "paused"
    BY DEF FlowFollowsSession, RunningFlow
  <2>1. flow.stage \in GameplayStages /\ flow.blockers = {}
    BY DEF AppInv, BlockInv, Waits, RunningFlow, GameplayStages
  <2>2. ~mouse.gone
    BY <2>1 DEF AppInv, BlockInv, Blocked
  <2>3. state # "paused"
    BY DEF AppInv, TodoInv, Resumes
  <2> QED
    BY <2>1, <2>2, <2>3
<1> QED
  BY <1>1, ApplicationInvariant, PTL
=============================================================================
