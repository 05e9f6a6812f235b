---------------------------- MODULE TrainerEngine ----------------------------
(***************************************************************************)
(* The trainer as its owner sees it: a record, and for each operation the  *)
(* set of records the operation can leave behind. An operation first moves *)
(* the trainer's clock to the time of the call, which may pass any number  *)
(* of deadlines; how much time that is, and where the camera points, are   *)
(* abstracted, so any of the deadlines due in a state may be passed.       *)
(***************************************************************************)
EXTENDS Naturals

CONSTANTS
  Blocks,     \* blocks of the plan (block_ordinals_)
  MaxEvents   \* bound: targets a run prepares

ASSUME TrainerAssumption == Blocks \in Nat \ {0} /\ MaxEvents \in Nat

Live    == {"awaiting_presentation", "event_active", "event_tail"}
Running == Live \cup {"countdown", "inter_target_delay"}

TechnicalOutcomes == {"manual_pause", "focus_lost", "display_changed",
                      "graphics_device_lost", "system_suspend",
                      "gameplay_input_unavailable"}

Trainer ==
  [state   : Running \cup {"idle", "paused", "complete"},
   fresh   : BOOLEAN,                          \* no time of the block consumed yet
   focused : BOOLEAN,
   reason  : TechnicalOutcomes \cup {"none"},  \* pause_reason_
   events  : 0..MaxEvents,                     \* finalized events
   blocks  : 0..Blocks]                        \* completed blocks

NewTrainer == [state |-> "idle", fresh |-> TRUE, focused |-> TRUE,
               reason |-> "none", events |-> 0, blocks |-> 0]

(***************************************************************************)
(* Deadlines. Each operator gives what the clock can reach from a trainer  *)
(* that has just entered the state it is named for.                        *)
(***************************************************************************)
StartBlockCountdown(t) == [t EXCEPT !.state = "countdown", !.fresh = TRUE]

\* After the last block of the plan the trainer is complete.
CompleteBlock(t) ==
  LET u == [t EXCEPT !.blocks = @ + 1]
  IN IF u.blocks = Blocks THEN [u EXCEPT !.state = "complete"]
                          ELSE StartBlockCountdown(u)

StoreFinalizedEvent(t) == [t EXCEPT !.events = @ + 1]

\* A target then waits for its presentation, which has no deadline.
PrepareTarget(t) ==
  IF t.events < MaxEvents THEN {[t EXCEPT !.state = "awaiting_presentation"]} ELSE {}

\* The block ended; a following one may count down to its first target.
FromBlockEnd(t) ==
  LET u == CompleteBlock(t)
  IN {u} \cup (IF u.state = "countdown" THEN PrepareTarget(u) ELSE {})

FromDelay(t) ==
  LET u == [t EXCEPT !.state = "inter_target_delay"]
  IN {u} \cup PrepareTarget(u) \cup FromBlockEnd(u)

\* Too little time may be left of a block that was interrupted.
FromCountdown(t) ==
  {t} \cup PrepareTarget(t)
      \cup (IF t.fresh THEN {} ELSE FromDelay(t) \cup FromBlockEnd(t))

\* FinalizeNaturalTail: the challenge may end with its event.
FromTail(t) ==
  LET u == StoreFinalizedEvent(t)
  IN {[t EXCEPT !.state = "event_tail"]} \cup FromDelay(u) \cup FromBlockEnd(u)

AdvanceTo(t) ==
  CASE t.state = "countdown"          -> FromCountdown(t)
    [] t.state = "event_active"       -> {t} \cup FromTail(t)
    [] t.state = "event_tail"         -> FromTail(t)
    [] t.state = "inter_target_delay" -> FromDelay(t)
    [] OTHER                          -> {t}

(***************************************************************************)
(* Operations.                                                             *)
(***************************************************************************)
StartTrainer(t) == StartBlockCountdown(t)

\* A click may resolve the active event.
SubmitRawInput(t) ==
  AdvanceTo(t) \cup {[u EXCEPT !.state = "event_tail"] :
                       u \in {v \in AdvanceTo(t) : v.state = "event_active"}}

AcknowledgeTargetPresented(t) ==
  {IF u.state = "awaiting_presentation"
     THEN [u EXCEPT !.state = "event_active", !.fresh = FALSE] ELSE u :
     u \in AdvanceTo(t)}

\* PauseInternal: a live target is finalized with the technical outcome. A trainer
\* that is already paused keeps its reason, and one that is complete stays so.
PauseInternal(t, outcome) ==
  IF t.state \notin Running THEN t
  ELSE [IF t.state \in Live THEN StoreFinalizedEvent(t) ELSE t
          EXCEPT !.state = "paused", !.reason = outcome]

PauseForTechnicalInterruption(t, outcome) ==
  {PauseInternal(u, outcome) : u \in AdvanceTo(t)}

\* StartResumeCountdown throws unless this holds.
CanResume(t) == t.state = "paused" /\ t.focused

StartResumeCountdown(t) == [t EXCEPT !.state = "countdown", !.reason = "none"]

\* Mutant: regaining focus resumes whatever the pause was for.
FocusTrainerAlways(t, focus) ==
  LET u == [t EXCEPT !.focused = focus]
  IN IF t.focused = focus THEN t
     ELSE IF ~focus THEN PauseInternal(u, "focus_lost")
     ELSE IF u.state = "paused" THEN StartResumeCountdown(u) ELSE u

\* Only the pause that losing the focus made ends when it comes back.
FocusTrainer(t, focus) ==
  LET u == [t EXCEPT !.focused = focus]
  IN IF t.focused = focus THEN t
     ELSE IF ~focus THEN PauseInternal(u, "focus_lost")
     ELSE IF u.state = "paused" /\ u.reason = "focus_lost"
            THEN StartResumeCountdown(u) ELSE u

SetFocused(t, focus) == {FocusTrainer(u, focus) : u \in AdvanceTo(t)}
=============================================================================
