----------------------- MODULE ParticipantApplication -----------------------
(***************************************************************************)
(* The participant application from the configured run on: one thread that *)
(* answers window messages and ticks, keeps the participant's flow, and    *)
(* calls the recording session. A handler decides on the flow at once; the *)
(* calls it makes into the session follow one by one (todo), because the   *)
(* capture helper moves between any two of them. The next message waits    *)
(* until they are done.                                                    *)
(***************************************************************************)
EXTENDS RecordingSession, ParticipantFlow, Sequences

CONSTANT Interruptions  \* bound: window and system events of a run

VARIABLES
  flow,    \* flow_
  app,     \* the application's own members
  window,  \* the window as Windows has it
  mouse,   \* the selected mouse and what the application knows of it
  todo,    \* calls into the session that the running handler has yet to make
  spent    \* window and system events so far

appVars == <<flow, app, window, mouse, todo, spent>>
allVars == <<sessionVars, appVars>>

App ==
  [close   : BOOLEAN,   \* close_requested_
   allow   : BOOLEAN,   \* allow_close_, with its WM_CLOSE posted
   closed  : BOOLEAN,   \* the window is gone
   pending : BOOLEAN,   \* session_future_
   made    : BOOLEAN,   \* recording_
   handled : BOOLEAN,   \* session_result_handled_
   dark    : BOOLEAN]   \* graphics_pause_active_

Mouse ==
  [plugged : BOOLEAN,
   known   : BOOLEAN,   \* certified_raw_input_routes_ hold its present handle
   gone    : BOOLEAN,   \* selected_input_route_unavailable_
   scan    : {"none", "running", "absent", "present", "outdated"},
   rescan  : BOOLEAN]   \* live_input_rebind_rescan_requested_

\* CanBeginCountdown and the rest look at the stage; IsGameplayStage leaves ready out.
IsGameplayStage(f) == f.stage \in GameplayStages \ {"ready"}

Idle == todo = <<>> /\ ~app.closed

\* A handler moves the flow to f and makes the calls, if there is a session.
Handle(f, calls) ==
  /\ Idle /\ flow' = f /\ todo' = IF app.made THEN calls ELSE <<>>
  /\ UNCHANGED sessionVars

\* An event that may come at any time, a bounded number of times; one that undoes an
\* earlier one does not count. Once the participant was told the result, neither would
\* change anything but the window.
Happens == spent < Interruptions /\ spent' = spent + 1 /\ ~app.handled
Undoes  == UNCHANGED spent /\ ~app.handled

Either(undoes) == IF undoes THEN Undoes ELSE Happens

\* Resumes the session when the flow has nothing left to wait for.
ResumeCalls(f) == IF f.stage = "resume_countdown" THEN <<<<"resume">>>> ELSE <<>>

(***************************************************************************)
(* Focus, size and display.                                                *)
(***************************************************************************)
HandleFocus ==
  LET has == ~window.focus
      f   == IF has THEN ClearBlocker(flow, "focus") ELSE PauseForBlocker(flow, "focus")
  IN /\ Either(has) /\ window' = [window EXCEPT !.focus = has]
     /\ Handle(f, <<<<"set_focus", has, window.iconic>>>> \o
                  (IF has THEN ResumeCalls(f) ELSE <<>>))
     /\ UNCHANGED <<app, mouse>>

Minimize ==
  /\ Happens /\ ~window.iconic /\ window' = [window EXCEPT !.iconic = TRUE]
  /\ Handle(PauseForBlocker(flow, "minimized"), <<<<"set_focus", FALSE, TRUE>>>>)
  /\ UNCHANGED <<app, mouse>>

\* HandlePresentationFailure, its outcome for a flow f that has made these calls.
PresentationFailure(f, calls) ==
  IF app.made /\ IsGameplayStage(f)
    THEN [flow |-> PauseForBlocker(f, "display"), dark |-> TRUE,
          calls |-> Append(calls, <<"report", "graphics_device_lost">>)]
    ELSE [flow |-> f, dark |-> TRUE, calls |-> calls]

\* Mutant: a surface that changed well leaves the session to itself.
StableUnresumed(f, calls) ==
  [flow |-> IF app.made THEN ClearBlocker(f, "display") ELSE f,
   dark |-> FALSE, calls |-> calls]

\* The display works: its blocker goes.
DisplayStable(f, calls) ==
  LET g == IF app.made THEN ClearBlocker(f, "display") ELSE f
  IN [flow |-> g, dark |-> FALSE, calls |-> calls \o ResumeCalls(g)]

\* HandleResize; without a renderer there is nothing to resize.
HandleResize(f, calls) ==
  IF app.dark THEN {[flow |-> f, dark |-> TRUE, calls |-> calls]}
  ELSE {DisplayStable(f, calls), PresentationFailure(f, calls)}

Presents(outcomes) ==
  \E o \in outcomes :
    Handle(o.flow, o.calls) /\ app' = [app EXCEPT !.dark = o.dark]

\* In gameplay a change of the display pauses, and is reported.
Changing(f)  == IF app.made /\ IsGameplayStage(f) THEN PauseForBlocker(f, "display") ELSE f
ChangeCalls  == IF IsGameplayStage(flow) THEN <<<<"report", "display_changed">>>> ELSE <<>>

\* WM_SIZE of a window that is not minimized: restored, resized, or toggled to or
\* from full screen (which reports the change twice).
Resize ==
  /\ Either(window.iconic) /\ window' = [window EXCEPT !.iconic = FALSE]
  /\ Presents(HandleResize(ClearBlocker(Changing(flow), "minimized"),
                           Append(ChangeCalls, <<"set_focus", window.focus, FALSE>>)))
  /\ UNCHANGED mouse

DisplayChanges ==
  /\ Happens /\ Presents(HandleResize(Changing(flow), ChangeCalls))
  /\ UNCHANGED <<window, mouse>>

\* Render failed, or a target could not be presented promptly.
RenderFails ==
  /\ Happens /\ ~app.dark /\ Presents({PresentationFailure(flow, <<>>)})
  /\ UNCHANGED <<window, mouse>>

\* Tick tries again; only success changes anything.
RetryGraphics ==
  /\ app.dark /\ Presents({DisplayStable(flow, <<>>)})
  /\ UNCHANGED <<window, mouse, spent>>

Suspend ==
  /\ Happens /\ app.made
  /\ Handle(PauseForBlocker(flow, "focus"), <<<<"report", "system_suspend">>>>)
  /\ UNCHANGED <<app, window, mouse>>

WakeUp ==
  LET f == IF window.focus THEN ClearBlocker(flow, "focus") ELSE flow
  IN /\ Either("focus" \in flow.blockers) /\ app.made
     /\ Handle(f, <<<<"set_focus", window.focus, window.iconic>>>> \o
                  (IF window.focus THEN ResumeCalls(f) ELSE <<>>))
     /\ UNCHANGED <<app, window, mouse>>

(***************************************************************************)
(* The selected mouse. Plugged in again it has another handle, and its     *)
(* packets are those of a stranger until a scan has found the handle.      *)
(***************************************************************************)
\* The scan runs on a thread of its own and sees the devices of one moment.
Scanned(m) == IF m.scan = "present" THEN [m EXCEPT !.scan = "outdated"] ELSE m

\* StartLiveInputRebind: one scan at a time.
StartLiveInputRebind(m) ==
  IF m.scan # "none" THEN [m EXCEPT !.rescan = TRUE]
  ELSE [m EXCEPT !.scan = "running", !.rescan = FALSE]

\* Only the removal of a known handle says anything.
Unplug ==
  /\ Happens /\ app.made /\ mouse.plugged
  /\ LET m == [Scanned(mouse) EXCEPT !.plugged = FALSE, !.known = FALSE]
     IN mouse' = IF mouse.known THEN StartLiveInputRebind([m EXCEPT !.gone = TRUE]) ELSE m
  /\ IF mouse.known /\ ~mouse.gone
       THEN Handle(GameplayInputLost(flow), <<<<"report", "gameplay_input_unavailable">>>>)
       ELSE Handle(flow, <<>>)
  /\ UNCHANGED <<app, window>>

Plug ==
  /\ Undoes /\ app.made /\ ~mouse.plugged
  /\ mouse' = StartLiveInputRebind([Scanned(mouse) EXCEPT !.plugged = TRUE])
  /\ Handle(flow, <<>>)
  /\ UNCHANGED <<app, window>>

ScanSees ==
  /\ mouse.scan = "running"
  /\ mouse' = [mouse EXCEPT !.scan = IF mouse.plugged THEN "present" ELSE "absent"]
  /\ UNCHANGED <<sessionVars, flow, app, window, todo, spent>>

\* PollLiveInputRebind. A scan that found the mouse gives its handle to the routes;
\* only if there is no pause to end does it look at the request for another scan.
PollLiveInputRebind ==
  LET found   == mouse.scan \in {"present", "outdated"}
      rebound == [mouse EXCEPT !.scan = "none",
                               !.known = IF found THEN mouse.scan = "present" ELSE @]
      f       == GameplayInputRestored(flow)
  IN /\ mouse.scan \in {"present", "outdated", "absent"}
     /\ IF found /\ mouse.gone
          THEN mouse' = [rebound EXCEPT !.gone = FALSE] /\ Handle(f, ResumeCalls(f))
          ELSE /\ mouse' = IF mouse.rescan THEN StartLiveInputRebind(rebound) ELSE rebound
               /\ Handle(flow, <<>>)
     /\ UNCHANGED <<app, window, spent>>

(***************************************************************************)
(* The participant. Keys and clicks reach a window that has the focus.     *)
(***************************************************************************)
Attends == window.focus /\ ~window.iconic

StartRecordingAsync ==
  /\ Attends /\ ~app.pending /\ ~app.made /\ flow.stage = "ready_to_start"
  /\ Handle(Step(flow, "start_capture"), <<>>)
  /\ app' = [app EXCEPT !.pending = TRUE, !.handled = FALSE]
  /\ mouse' = [mouse EXCEPT !.gone = FALSE, !.rescan = FALSE]
  /\ UNCHANGED <<window, spent>>

BeginTrainerCountdown ==
  /\ Attends /\ app.made /\ CanBeginCountdown(flow)
  /\ Handle(flow, <<<<"try_start">>>>) /\ UNCHANGED <<app, window, mouse, spent>>

PauseTrainer ==
  /\ Attends /\ app.made /\ CanManuallyPause(flow)
  /\ Handle(ManuallyPaused(flow), <<<<"manual_pause">>>>)
  /\ UNCHANGED <<app, window, mouse, spent>>

ResumeTrainer ==
  /\ Attends /\ app.made /\ CanResumeFlow(flow)
  /\ Handle(flow, <<<<"manual_resume">>>>) /\ UNCHANGED <<app, window, mouse, spent>>

Stopping(f) == f.stage \in {"stopping_and_saving", "stopping_and_preserving"}

Finishing(f) == IF Stopping(f) THEN f ELSE FinishSession(f)

StopCalls == <<<<"participant_stop">>>>

FinishAndSave ==
  /\ Attends /\ app.made /\ flow.stage \in {"ready", "paused"}
  /\ Handle(Finishing(flow), StopCalls) /\ UNCHANGED <<app, window, mouse, spent>>

Cancels ==
  /\ Attends /\ flow.stage = "ready_to_start" /\ Handle(Cancel(flow), <<>>)
  /\ UNCHANGED <<app, window, mouse, spent>>

\* Done, and the end of anything a close request waited for.
Done ==
  /\ Attends /\ flow.stage \in {"complete", "error", "cancelled"} /\ ~app.allow
  /\ Handle(flow, <<>>) /\ app' = [app EXCEPT !.allow = TRUE]
  /\ UNCHANGED <<window, mouse, spent>>

\* Mutant: a run that is being saved may be closed.
EndedWhileSaving == {"error", "complete", "cancelled", "stopping_and_saving"}

Ended == {"error", "complete", "cancelled"}

\* A session that has not been sealed, or failed to be, has no Result yet.
HasResult == state \in Closed

\* HandleClose: WM_CLOSE, from the participant or posted. What still runs is asked to
\* end, and the window stays.
HandleClose ==
  LET asked == [app EXCEPT !.close = TRUE]
  IN /\ \/ app.allow
           /\ Handle(flow, <<>>) /\ app' = [app EXCEPT !.closed = TRUE]
        \/ ~app.allow /\ app.pending
           /\ Handle(flow, <<>>) /\ app' = asked
        \/ ~app.allow /\ ~app.pending /\ flow.stage \in Ended
           /\ Handle(flow, <<>>)
           /\ app' = [asked EXCEPT !.allow = TRUE, !.closed = TRUE]
        \/ ~app.allow /\ ~app.pending /\ flow.stage \notin Ended /\ app.made /\ ~HasResult
           /\ Handle(Finishing(flow), StopCalls) /\ app' = asked
        \/ ~app.allow /\ ~app.pending /\ flow.stage \notin Ended
           /\ ~(app.made /\ ~HasResult) /\ Stopping(flow)
           /\ Handle(flow, <<>>) /\ app' = asked
        \/ ~app.allow /\ ~app.pending /\ flow.stage \notin Ended
           /\ ~(app.made /\ ~HasResult) /\ ~Stopping(flow)
           /\ Handle(flow, <<>>)
           /\ app' = [asked EXCEPT !.allow = TRUE, !.closed = TRUE]
     /\ UNCHANGED <<window, mouse, spent>>

(***************************************************************************)
(* Ticks.                                                                  *)
(***************************************************************************)
\* Mutant: a close requested while the session was made is forgotten if that failed.
BootstrapKeepsOpen ==
  /\ app.pending
  /\ \/ LET f == Step(flow, "capture_started")
        IN /\ app' = [app EXCEPT !.pending = FALSE, !.made = TRUE]
           /\ Idle /\ UNCHANGED sessionVars
           /\ IF app.close THEN flow' = Finishing(f) /\ todo' = StopCalls
                           ELSE flow' = f /\ todo' = <<>>
     \/ /\ app' = [app EXCEPT !.pending = FALSE]
        /\ Handle(PrefixSettled(DestructiveFailure(flow), "failed"), <<>>)
  /\ UNCHANGED <<window, mouse, spent>>

\* PollRecordingBootstrap: the session was made, or could not be.
PollRecordingBootstrap ==
  /\ app.pending
  /\ \/ LET f == Step(flow, "capture_started")
        IN /\ app' = [app EXCEPT !.pending = FALSE, !.made = TRUE]
           /\ Idle /\ UNCHANGED sessionVars
           /\ IF app.close THEN flow' = Finishing(f) /\ todo' = StopCalls
                           ELSE flow' = f /\ todo' = <<>>
     \/ /\ app' = [app EXCEPT !.pending = FALSE, !.allow = app.close]
        /\ Handle(PrefixSettled(DestructiveFailure(flow), "failed"), <<>>)
  /\ UNCHANGED <<window, mouse, spent>>

\* DriveRecording: what follows its AdvanceTo is in Drive below. Every tenth second it
\* looks at the free space first.
DriveRecording ==
  /\ app.made /\ ~app.handled
  /\ \E low \in BOOLEAN :
       Handle(flow, (IF low /\ state \in Open THEN <<<<"storage_low">>>> ELSE <<>>) \o
                    <<<<"advance">>, <<"drive">>>>)
  /\ UNCHANGED <<app, window, mouse, spent>>

\* The countdown is over once the trainer is past it.
CountdownReachedGameplay == trainer.state \in (Running \ {"countdown"}) \cup {"complete"}

Counted(f) ==
  IF ~CountdownReachedGameplay THEN f
  ELSE Step(Step(f, "countdown_finished"), "resume_countdown_finished")

\* Why a stop that the participant did not ask for was made.
StopFollowed(f) ==
  IF Stopping(f) THEN f
  ELSE IF capture.fatal # "none" THEN DestructiveFailure(f) ELSE FinishSession(f)

\* Mutant: what was sealed is shown as saved.
ToldAsSaved(f, sealed, r) ==
  IF f.stage = "stopping_and_saving" /\ sealed THEN SaveCompleted(f)
  ELSE PrefixSettled(DestructiveFailure(f), IF sealed THEN "preserved" ELSE "failed")

\* What the participant is told of the result: saved only without a recovery.
Told(f, sealed, r) ==
  LET g == IF f.stage = "stopping_and_saving"
                /\ (~sealed \/ r.recovered \/ r.status = "capture_lost")
             THEN DestructiveFailure(f) ELSE f
  IN IF g.stage = "stopping_and_saving" THEN SaveCompleted(g)
     ELSE PrefixSettled(g, IF ~sealed THEN "failed"
                           ELSE IF r.verified THEN "preserved" ELSE "unverified")

\* The helper outlived its stop deadline.
MayBeStuck == capture.running /\ capture.stopAsked /\ capture.fatal = "capture_helper_lost"

Drive ==
  LET f == Counted(flow)
  IN \/ /\ state # "stop_requested" /\ flow' = f /\ UNCHANGED <<sessionVars, app>>
     \/ /\ state = "stop_requested" /\ MayBeStuck
        /\ flow' = PrefixSettled(IF f.stage = "stopping_and_saving"
                                   THEN DestructiveFailure(f) ELSE f, "failed")
        /\ app' = [app EXCEPT !.allow = @ \/ app.close] /\ UNCHANGED sessionVars
     \/ /\ state = "stop_requested"
        /\ IF CaptureProblem # "none" THEN ObserveCapture
           ELSE IF CaptureCanFinalize THEN TryFinalize ELSE UNCHANGED sessionVars
        /\ IF state' \in Closed
             THEN /\ flow' = Told(StopFollowed(f), state' = "finalized", result')
                  /\ app' = [app EXCEPT !.handled = TRUE, !.allow = @ \/ app.close]
             ELSE flow' = StopFollowed(f) /\ UNCHANGED app

(***************************************************************************)
(* The calls.                                                              *)
(***************************************************************************)
\* A call that looks at the capture first goes no further when it finds a problem;
\* one that does not apply returns.
Looking(applies, call) ==
  IF CaptureProblem # "none" THEN ObserveCapture
  ELSE IF applies THEN call ELSE UNCHANGED sessionVars

If(applies, call) == IF applies THEN call ELSE UNCHANGED sessionVars

CanStart ==
  state = "awaiting_capture_ready" /\ capture.ready /\ capture.running
    /\ capture.fatal = "none" /\ Focused

CanResumeSession == state = "paused" /\ Focused

Perform(call) ==
  CASE call[1] = "set_focus" ->
         Looking(state \in Open /\ <<call[2], call[3]>> # focusVars,
                 SetFocus(call[2], call[3]))
    [] call[1] = "report"           -> If(state \notin Closed, ReportInterruption(call[2]))
    [] call[1] = "storage_low"      -> If(state \in Open, ReportStorageLow)
    [] call[1] = "participant_stop" -> If(state \in Open, RequestParticipantStop)
    [] call[1] = "manual_pause"     -> Looking(state = "recording", ManualPause)
    [] call[1] = "advance"          ->
         Looking(state \in {"recording", "paused"}, AdvanceSession)
    [] call[1] = "try_start"        -> Looking(CanStart, TryStart)
    [] OTHER -> Looking(CanResumeSession, ResumeAfterRecoverableIssue)

\* The flow follows a call only where the handler looks at what it returned.
Followed(call) ==
  CASE call[1] = "try_start" /\ CanStart /\ state' = "recording" -> BeginCountdown(flow)
    [] call[1] = "manual_resume" /\ CanResumeSession /\ state' = "recording" -> Resumed(flow)
    [] OTHER -> flow

NextCall ==
  /\ todo # <<>> /\ todo' = Tail(todo)
  /\ LET call == Head(todo)
     IN IF call[1] = "drive" THEN Drive
        ELSE Perform(call) /\ flow' = Followed(call) /\ UNCHANGED app
  /\ UNCHANGED <<window, mouse, spent>>

\* HandleRawInput with a packet of the mouse, and the acknowledgement of a rendered
\* target: calls of their own.
Packet  == Idle /\ app.made /\ mouse.known /\ Looking(state = "recording", SubmitPacket)
             /\ UNCHANGED appVars
Present == /\ Idle /\ app.made /\ ~app.dark /\ flow.stage = "playing"
           /\ trainer.state = "awaiting_presentation" /\ state = "recording"
           /\ Looking(TRUE, PresentTarget) /\ UNCHANGED appVars

(***************************************************************************)
(* The application.                                                        *)
(***************************************************************************)
AppInit ==
  /\ SessionInit
  /\ flow = [NewFlow EXCEPT !.stage = "ready_to_start", !.sensitivity = TRUE, !.length = TRUE]
  /\ app = [close |-> FALSE, allow |-> FALSE, closed |-> FALSE, pending |-> FALSE,
            made |-> FALSE, handled |-> FALSE, dark |-> FALSE]
  /\ window = [focus |-> TRUE, iconic |-> FALSE]
  /\ mouse = [plugged |-> TRUE, known |-> TRUE, gone |-> FALSE, scan |-> "none",
              rescan |-> FALSE]
  /\ todo = <<>> /\ spent = 0

\* Bound: a derivative shares the fate of the PCAP; the session's own run has the rest.
KeepsDerivatives ==
  capture'.derivative = IF capture'.pcap = "published" THEN "published" ELSE "open"

HelperMoves == app.made /\ CaptureMoves /\ KeepsDerivatives /\ UNCHANGED appVars

HelperGoes == app.made /\ HelperEnds /\ KeepsDerivatives /\ UNCHANGED appVars

AppOver == app.closed /\ UNCHANGED allVars

AppNext ==
  \/ HandleFocus \/ Minimize \/ Resize \/ DisplayChanges \/ RenderFails \/ RetryGraphics
  \/ Suspend \/ WakeUp \/ Unplug \/ Plug \/ ScanSees \/ PollLiveInputRebind
  \/ StartRecordingAsync \/ BeginTrainerCountdown \/ PauseTrainer \/ ResumeTrainer
  \/ FinishAndSave \/ Cancels \/ Done \/ HandleClose
  \/ PollRecordingBootstrap \/ DriveRecording \/ NextCall \/ Packet \/ Present
  \/ HelperMoves \/ AppOver

\* A handler returns, a posted message is delivered, a thread that was started ends,
\* and so does a helper that was asked to. The loop ticks each time it has emptied the
\* message queue, however often messages come.
AppSpec ==
  /\ AppInit /\ [][AppNext]_allVars
  /\ WF_allVars(NextCall) /\ SF_allVars(PollRecordingBootstrap)
  /\ SF_allVars(DriveRecording) /\ WF_allVars(HelperGoes)
  /\ SF_allVars(app.allow /\ HandleClose)

(***************************************************************************)
(* What the application promises.                                          *)
(***************************************************************************)
\* The participant is told no more than what was sealed: saved is a session that kept
\* its capture and needed no recovery, preserved one with authoritative evidence, and
\* the archive is offered for sending only if there is one.
ToldTheTruth ==
  /\ flow.stage = "complete" =>
       result.status \notin {"none", "capture_lost"} /\ ~result.recovered
  /\ flow.prefix = "preserved" => result.verified
  /\ flow.send => state = "finalized"

\* The window never closes over a session that is neither sealed nor given up: the
\* participant was told that it could not be preserved.
ClosedMeansSettled ==
  app.closed /\ app.made => state \in Closed \/ flow.prefix = "failed"

\* The flow never shows the trainer running, or about to, while something keeps it
\* paused or the session under it stands paused.
FlowFollowsSession ==
  flow.stage \in {"countdown", "playing", "resume_countdown"} /\ todo = <<>> =>
    flow.blockers = {} /\ ~mouse.gone /\ state # "paused"

\* A window that was asked to close closes, whatever still had to be ended.
CloseEnds == app.close ~> app.closed

(***************************************************************************)
(* What documents and tests say, and the runs refute.                      *)
(***************************************************************************)
\* Nested pauses do not resume too early: while the flow is paused the trainer is.
PausedFlowHoldsTrainer ==
  flow.stage = "paused" /\ todo = <<>> => trainer.state \notin Running

\* A mouse that is gone, or came back under a handle nobody knows, is looked for
\* or keeps the trainer paused.
LostInputIsNoticed ==
  IsGameplayStage(flow) /\ ~mouse.known => mouse.gone \/ mouse.scan # "none"
=============================================================================
