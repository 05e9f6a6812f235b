--------------------------- MODULE ParticipantFlow ---------------------------
(***************************************************************************)
(* The participant's way through a session (app/ParticipantFlow): a stage, *)
(* what keeps the trainer paused, and the outcome that is shown. Pure: an  *)
(* event either moves the flow or is rejected and leaves it as it was.     *)
(* Sensitivity and run length only count as chosen or not; the annotations *)
(* and the counters that are only displayed are left out.                  *)
(***************************************************************************)
EXTENDS Naturals

PreCaptureStages ==
  {"welcome_privacy", "choose_mouse", "certification_ready", "certifying",
   "certification_needs_action", "configure_session", "ready_to_start"}
GameplayStages == {"ready", "countdown", "playing", "paused", "resume_countdown"}
FailingStages  == GameplayStages \cup {"starting_capture", "stopping_and_saving"}

Blockers  == {"focus", "minimized", "display", "input"}
Problems  == {"ambiguous", "no_activity", "permission_denied"}
Preserved == {"not_required", "pending", "preserved", "unverified", "failed"}

NewFlow ==
  [stage |-> "welcome_privacy", blockers |-> {}, manual |-> FALSE, problem |-> "none",
   sensitivity |-> FALSE, length |-> FALSE, prefix |-> "not_required", send |-> FALSE]

\* Events that take one stage to the next and nothing else, besides that a new
\* attempt at the certification forgets the problem of the last one.
Steps ==
  {<<"accept_privacy", "welcome_privacy", "choose_mouse">>,
   <<"select_mouse", "choose_mouse", "certification_ready">>,
   <<"begin_certification", "certification_ready", "certifying">>,
   <<"certification_succeeded", "certifying", "configure_session">>,
   <<"retry_certification", "certification_needs_action", "certification_ready">>,
   <<"choose_different_mouse", "certification_ready", "choose_mouse">>,
   <<"choose_different_mouse", "certification_needs_action", "choose_mouse">>,
   <<"edit_configuration", "ready_to_start", "configure_session">>,
   <<"start_capture", "ready_to_start", "starting_capture">>,
   <<"capture_started", "starting_capture", "ready">>,
   <<"countdown_finished", "countdown", "playing">>,
   <<"resume_countdown_finished", "resume_countdown", "playing">>}

Forgetting == {"select_mouse", "certification_succeeded", "retry_certification",
               "choose_different_mouse"}

Step(f, event) ==
  LET found == {s \in Steps : s[1] = event /\ s[2] = f.stage}
  IN IF found = {} THEN f
     ELSE [f EXCEPT !.stage = (CHOOSE s \in found : TRUE)[3],
                    !.problem = IF event \in Forgetting THEN "none" ELSE @]

CertificationFailed(f, problem) ==
  IF f.stage # "certifying" THEN f
  ELSE [f EXCEPT !.stage = "certification_needs_action", !.problem = problem]

\* SetSensitivity, ChooseFullResearch and ChooseQuickPractice.
Choose(f, what) ==
  IF f.stage # "configure_session" THEN f
  ELSE IF what = "sensitivity" THEN [f EXCEPT !.sensitivity = TRUE]
                               ELSE [f EXCEPT !.length = TRUE]

ConfirmConfiguration(f) ==
  IF f.stage = "configure_session" /\ f.sensitivity /\ f.length
    THEN [f EXCEPT !.stage = "ready_to_start"] ELSE f

Cancel(f) == IF f.stage \in PreCaptureStages THEN [f EXCEPT !.stage = "cancelled"] ELSE f

CanBeginCountdown(f) == f.stage = "ready" /\ f.blockers = {}

BeginCountdown(f) == IF CanBeginCountdown(f) THEN [f EXCEPT !.stage = "countdown"] ELSE f

(***************************************************************************)
(* Pauses.                                                                 *)
(***************************************************************************)
CanManuallyPause(f) == f.stage \in {"playing", "countdown", "resume_countdown"}

ManuallyPaused(f) ==
  IF CanManuallyPause(f) THEN [f EXCEPT !.manual = TRUE, !.stage = "paused"] ELSE f

\* PauseForBlocker: before the countdown there is nothing to pause.
PauseForBlocker(f, blocker) ==
  IF f.stage \notin GameplayStages \ {"ready"} THEN f
  ELSE [f EXCEPT !.blockers = @ \cup {blocker}, !.stage = "paused"]

\* ClearBlocker: the last one resumes, unless the participant paused.
ClearBlocker(f, blocker) ==
  IF f.stage # "paused" \/ blocker \notin f.blockers THEN f
  ELSE [f EXCEPT !.blockers = @ \ {blocker},
                 !.stage = IF f.blockers = {blocker} /\ ~f.manual
                             THEN "resume_countdown" ELSE @]

\* A mouse that is gone also keeps a ready flow from counting down.
GameplayInputLost(f) ==
  IF f.stage = "ready" THEN [f EXCEPT !.blockers = @ \cup {"input"}]
  ELSE PauseForBlocker(f, "input")

GameplayInputRestored(f) ==
  IF f.stage = "ready" THEN [f EXCEPT !.blockers = @ \ {"input"}]
  ELSE ClearBlocker(f, "input")

CanResumeFlow(f) == f.stage = "paused" /\ f.blockers = {}

Resumed(f) ==
  IF CanResumeFlow(f) THEN [f EXCEPT !.manual = FALSE, !.stage = "resume_countdown"] ELSE f

(***************************************************************************)
(* The end.                                                                *)
(***************************************************************************)
FinishSession(f) ==
  IF f.stage \notin GameplayStages THEN f
  ELSE [f EXCEPT !.blockers = {}, !.manual = FALSE, !.stage = "stopping_and_saving"]

DestructiveFailure(f) ==
  IF f.stage \notin FailingStages THEN f
  ELSE [f EXCEPT !.blockers = {}, !.manual = FALSE, !.prefix = "pending",
                 !.stage = "stopping_and_preserving"]

SaveCompleted(f) ==
  IF f.stage # "stopping_and_saving" THEN f
  ELSE [f EXCEPT !.send = TRUE, !.stage = "complete"]

\* PrefixPreserved, UnverifiedArchivePreserved and PrefixPreservationFailed.
PrefixSettled(f, outcome) ==
  IF f.stage # "stopping_and_preserving" THEN f
  ELSE [f EXCEPT !.prefix = outcome, !.send = outcome # "failed", !.stage = "error"]
=============================================================================
