--------------------------- MODULE ParticipantSetup ---------------------------
(***************************************************************************)
(* The participant application up to the configured run: the check of the  *)
(* sessions that were left behind, the list of mice, and the certification *)
(* of the selected one with the elevated probe. One thread answers the     *)
(* participant and polls; the helper and its probe move in between.        *)
(* Bound: a click is answered on the screen it was made on.                *)
(***************************************************************************)
EXTENDS ProbeControl, CertificationFlow, ParticipantFlow

CONSTANTS
  Inventories, \* what a scan may find
  MaxChecks    \* bound: probes that are launched

NoMouse == "no mouse"

ASSUME InventoryAssumption == \A found \in Inventories : NoMouse \notin found.present

VARIABLES
  flow,    \* flow_
  cert,    \* certification_
  setup,   \* the application's own members
  gesture  \* history: what the selected mouse did since the probe was launched

setupVars == <<flow, cert, setup, gesture>>
allVars   == <<probeVars, controlVars, setupVars>>

NoInventory == [complete |-> FALSE, present |-> {}, proven |-> {}]

\* Where the thread is, startup_recovery_complete_, inventory_future_, inventory_,
\* selected_mouse_, certification_success_, certified_raw_input_routes_,
\* probe_sampling_, probe_raw_, close_requested_, allow_close_ and the probes so far.
NewSetup ==
  [at |-> "pump", recovered |-> FALSE, scanning |-> FALSE, inventory |-> NoInventory,
   selected |-> NoMouse, success |-> FALSE, routes |-> FALSE, sampling |-> FALSE,
   raw |-> {}, close |-> FALSE, allow |-> FALSE, checks |-> 0]

(***************************************************************************)
(* What each screen offers (ParticipantUi), of a flow f.                   *)
(***************************************************************************)
Offered(f) ==
  CASE f.stage = "welcome_privacy" ->
         IF setup.close THEN {} ELSE {"exit"} \cup (IF setup.recovered THEN {"accept"} ELSE {})
    [] f.stage = "choose_mouse"        -> {"select", "refresh", "cancel"}
    [] f.stage = "certification_ready" -> {"begin", "choose", "cancel"}
    [] f.stage = "certifying"          -> {"cancel"}
    [] f.stage = "certification_needs_action" -> {"retry", "choose", "cancel"}
    [] f.stage = "configure_session"   -> {"confirm"}
    [] f.stage = "ready_to_start"      -> {"edit"}
    [] f.stage = "cancelled"           -> {"done"}
    [] OTHER -> {}

Click(action) == setup.at = "pump" /\ ~setup.allow /\ action \in Offered(flow)

Control == <<probeVars, controlVars>>

(***************************************************************************)
(* The startup check and the list of mice.                                 *)
(***************************************************************************)
FinalCloseIfRequested(s) == IF s.close THEN [s EXCEPT !.allow = TRUE] ELSE s

PollAbandonedSessionRecovery ==
  /\ setup.at = "pump" /\ ~setup.recovered
  /\ setup' = FinalCloseIfRequested([setup EXCEPT !.recovered = TRUE])
  /\ UNCHANGED <<Control, flow, cert, gesture>>

\* StartInventoryScan: one at a time.
Scanning(s) ==
  IF ~s.recovered \/ s.scanning THEN s ELSE [s EXCEPT !.scanning = TRUE]

AcceptPrivacy ==
  /\ Click("accept")
  /\ flow' = Step(flow, "accept_privacy") /\ setup' = Scanning(setup)
  /\ UNCHANGED <<Control, cert, gesture>>

RefreshMouseList ==
  /\ Click("refresh")
  /\ setup' = Scanning(setup) /\ UNCHANGED <<Control, flow, cert, gesture>>

PollInventoryScan ==
  /\ setup.at = "pump" /\ setup.scanning
  /\ \E found \in Inventories \cup {NoInventory} :
       setup' = [setup EXCEPT !.scanning = FALSE, !.inventory = found,
                              !.selected = NoMouse, !.routes = FALSE]
  /\ UNCHANGED <<Control, flow, cert, gesture>>

\* The topologies of a mouse: one collection is enough here.
Topologies(m) == {[proven |-> m \in setup.inventory.proven]}

SelectMouse ==
  /\ Click("select") /\ setup.recovered /\ ~setup.scanning
  /\ \E m \in setup.inventory.present :
       LET c == Prepare(setup.inventory.complete, TRUE, Topologies(m))
       IN /\ c.state = "awaiting_probe" /\ cert' = c
          /\ setup' = [setup EXCEPT !.selected = m, !.success = FALSE, !.routes = FALSE]
          /\ flow' = Step(flow, "select_mouse")
  /\ UNCHANGED <<Control, gesture>>

(***************************************************************************)
(* The probe.                                                              *)
(***************************************************************************)
\* MarkCertificationAttemptFailed.
FailedFlow(f, denied) ==
  CertificationFailed(f, IF denied THEN "permission_denied" ELSE "ambiguous")
FailedCert(c) == SubmitProbe(c, Silent(FALSE), {}, Routes, Hint)

StartCertification ==
  LET f == Step(flow, "begin_certification")
  IN /\ Click("begin") /\ setup.checks < MaxChecks
     /\ cert.state = "awaiting_probe" /\ client.state = "none"
     /\ setup' = [setup EXCEPT !.checks = @ + 1] /\ gesture' = {} /\ UNCHANGED parent
     /\ \/ StartsProbe /\ flow' = f /\ UNCHANGED cert
        \/ \E denied \in BOOLEAN : flow' = FailedFlow(f, denied)
           /\ cert' = FailedCert(cert)
           /\ UNCHANGED <<probeVars, files, helper, client>>

\* A packet of the selected mouse, sampled by AccumulateProbeRawInput.
MouseActs ==
  /\ setup.at = "pump" /\ client.state # "none" /\ setup.selected # NoMouse
  /\ \E what \in {"moved", "clicked"} \ gesture :
       /\ gesture' = gesture \cup {what}
       /\ setup' = [setup EXCEPT !.raw = IF setup.sampling THEN @ \cup {what} ELSE @]
  /\ UNCHANGED <<Control, flow, cert>>

\* The snapshot of the client looks at the files, and then at the process.
PollObserves ==
  /\ setup.at = "pump" /\ client.state # "none"
  /\ client' = Observing(client) /\ files' = Cancelling(client)
  /\ setup' = [setup EXCEPT !.at = "poll"]
  /\ UNCHANGED <<probeVars, parent, helper, flow, cert, gesture>>

\* CompleteCertification of a result: the problem the participant is told, or none.
Problem(decision, identity) ==
  IF decision.state = "certified" /\ identity[2] = decision.lock.address THEN "none"
  ELSE IF decision.issue \in {"insufficient_movement", "click_not_observed",
                              "usb_activity_not_observed"} THEN "no_activity"
  ELSE "ambiguous"

Configured(f) ==
  Choose(Choose(Step(f, "certification_succeeded"), "sensitivity"), "length")

\* What a probe saw is kept for a mouse that it certified.
Forgets == source' = NoSource /\ work' = NoWork /\ gesture' = {}

CompleteCertification(s, result) ==
  IF result.reason # "none"
    THEN flow' = FailedFlow(flow, FALSE) /\ cert' = FailedCert(cert) /\ setup' = s /\ Forgets
    ELSE \E decision \in {SubmitProbe(cert, result.evidence, s.raw, Routes, Hint)} :
           /\ cert' = decision
           /\ IF Problem(decision, result.identity) # "none"
                THEN /\ flow' = CertificationFailed(flow, Problem(decision, result.identity))
                     /\ setup' = s /\ Forgets
                ELSE /\ flow' = Configured(flow)
                     /\ setup' = [s EXCEPT !.success = TRUE, !.routes = TRUE]
                     /\ UNCHANGED <<probeVars, gesture>>

\* BeginProbeSampling, when the client is ready for the first time.
Sampling(s, c) ==
  IF c.ready /\ ~s.sampling THEN [s EXCEPT !.sampling = TRUE, !.raw = {}] ELSE s

\* The client's snapshot, once the process has ended.
Snapshot == IF helper.at = "exited" THEN FinishExited(Observing(client)) ELSE client

\* Mutant: a probe that failed is put away without a word.
PollDecidesSilently ==
  LET c == Snapshot
      s == Sampling([setup EXCEPT !.at = "pump"], c)
      over == FinalCloseIfRequested([s EXCEPT !.sampling = FALSE])
  IN /\ setup.at = "poll" /\ UNCHANGED <<parent, helper>>
     /\ files' = IF c.handle THEN files ELSE CleanedControls
     /\ client' = IF c.handle THEN c ELSE NoClient
     /\ IF c.handle THEN setup' = s /\ UNCHANGED <<flow, cert, probeVars, gesture>>
        ELSE IF c.state = "completed" THEN CompleteCertification(over, c.result)
        ELSE setup' = over /\ UNCHANGED <<flow, cert>> /\ Forgets

\* PollCertification on what the snapshot says.
PollDecides ==
  LET c == Snapshot
      s == Sampling([setup EXCEPT !.at = "pump"], c)
      over == FinalCloseIfRequested([s EXCEPT !.sampling = FALSE])
  IN /\ setup.at = "poll" /\ UNCHANGED <<parent, helper>>
     /\ files' = IF c.handle THEN files ELSE CleanedControls
     /\ client' = IF c.handle THEN c ELSE NoClient
     /\ IF c.handle THEN setup' = s /\ UNCHANGED <<flow, cert, probeVars, gesture>>
        ELSE CASE c.state = "completed" -> CompleteCertification(over, c.result)
               [] c.state = "cancelled" -> setup' = over /\ UNCHANGED <<flow, cert>> /\ Forgets
               [] OTHER -> /\ setup' = over /\ flow' = FailedFlow(flow, FALSE)
                           /\ cert' = FailedCert(cert) /\ Forgets

(***************************************************************************)
(* The participant's other choices.                                        *)
(***************************************************************************)
RetryCertification ==
  /\ Click("retry") /\ cert' = Retry(cert) /\ flow' = Step(flow, "retry_certification")
  /\ UNCHANGED <<Control, setup, gesture>>

ChooseDifferentMouse ==
  /\ Click("choose") /\ RequestsCancel /\ cert' = NoCertification
  /\ setup' = [setup EXCEPT !.selected = NoMouse, !.success = FALSE, !.routes = FALSE]
  /\ flow' = Step(flow, "choose_different_mouse")
  /\ UNCHANGED <<probeVars, parent, helper, gesture>>

Cancels ==
  /\ Click("cancel") /\ RequestsCancel
  /\ cert' = IF cert.state = "none" THEN cert ELSE CancelCertification(cert)
  /\ flow' = Cancel(flow) /\ UNCHANGED <<probeVars, parent, helper, setup, gesture>>

Configures ==
  /\ \/ Click("confirm") /\ flow' = ConfirmConfiguration(flow)
     \/ Click("edit") /\ flow' = Step(flow, "edit_configuration")
  /\ UNCHANGED <<Control, cert, setup, gesture>>

(***************************************************************************)
(* The end.                                                                *)
(***************************************************************************)
Done ==
  /\ Click("done") /\ setup' = [setup EXCEPT !.allow = TRUE]
  /\ UNCHANGED <<Control, flow, cert, gesture>>

\* The process ends, and its memory with it.
ApplicationEnds(how) ==
  /\ parent' = FALSE /\ setup' = [NewSetup EXCEPT !.at = how]
  /\ flow' = NewFlow /\ cert' = NoCertification /\ gesture' = {} /\ client' = NoClient

\* The window is gone. What is left of a probe is cancelled and waited for.
Leaves ==
  IF client.handle
    THEN /\ RequestsCancel /\ setup' = [setup EXCEPT !.at = "leaving", !.close = TRUE]
         /\ UNCHANGED <<parent, helper, flow, cert, gesture>>
    ELSE ApplicationEnds("gone") /\ UNCHANGED <<files, helper>>

\* HandleClose: WM_CLOSE, from the participant or posted.
HandleClose ==
  /\ setup.at = "pump" /\ UNCHANGED probeVars
  /\ IF setup.allow \/ (setup.recovered /\ client.state = "none") THEN Leaves
     ELSE /\ IF setup.recovered THEN RequestsCancel ELSE UNCHANGED <<client, files>>
          /\ setup' = [setup EXCEPT !.close = TRUE]
          /\ UNCHANGED <<parent, helper, flow, cert, gesture>>

\* CancelAndWait, another look.
LeaveWaits ==
  /\ setup.at = "leaving" /\ UNCHANGED <<probeVars, helper>>
  /\ IF helper.at = "exited" THEN ApplicationEnds("gone") /\ files' = CleanedControls
     ELSE /\ client' = Observing(client) /\ files' = Cancelling(client)
          /\ UNCHANGED <<setup, parent, flow, cert, gesture>>

\* TerminateAndClose, which may not succeed.
LeaveTerminates ==
  /\ setup.at = "leaving" /\ HelperLives
  /\ \/ ApplicationEnds("gone") /\ HelperGivesUp(FALSE) /\ files' = CleanedControls
     \/ ApplicationEnds("lost") /\ UNCHANGED <<probeVars, helper, files>>

\* The application is killed.
Dies ==
  /\ setup.at \in {"pump", "poll", "leaving"} /\ ApplicationEnds("lost")
  /\ UNCHANGED <<probeVars, files, helper>>

Over == setup.at \in {"gone", "lost"} /\ ~HelperLives /\ UNCHANGED allVars

SetupInit ==
  /\ flow = NewFlow /\ cert = NoCertification /\ gesture = {}
  /\ setup = NewSetup
  /\ source = NoSource /\ work = NoWork
  /\ parent = TRUE /\ files = NoFiles /\ helper = NoHelper /\ client = NoClient

Helping == (HelperMoves \/ ProbeMoves \/ HelperDies) /\ UNCHANGED setupVars

SetupNext ==
  \/ PollAbandonedSessionRecovery \/ AcceptPrivacy \/ RefreshMouseList \/ PollInventoryScan
  \/ SelectMouse \/ StartCertification \/ MouseActs \/ PollObserves \/ PollDecides
  \/ RetryCertification \/ ChooseDifferentMouse \/ Cancels \/ Configures
  \/ Done \/ HandleClose \/ LeaveWaits \/ LeaveTerminates \/ Dies \/ Helping \/ Over

Polls == PollObserves \/ PollDecides \/ LeaveWaits

\* What happens a bounded number of times: the recovery thread ends, a posted message is
\* delivered, a file is written or seen, the duration of the probe is over.
Settles ==
  \/ PollAbandonedSessionRecovery \/ (setup.allow /\ HandleClose)
  \/ (HelperMoves \/ WorkerProgress) /\ UNCHANGED setupVars

\* The loop polls each time it has emptied the queue, the worker's thread takes its
\* turns, and what is due is not put off forever.
SetupSpec ==
  /\ SetupInit /\ [][SetupNext]_allVars
  /\ WF_allVars(Polls) /\ WF_allVars(WorkerTurn /\ UNCHANGED setupVars)
  /\ SF_allVars(Settles)

(***************************************************************************)
(* What a certification promises.                                          *)
(***************************************************************************)
\* A participant gets to the settings only with a mouse that moved and clicked during
\* the probe, and that probe lost nothing and saw the stream it names alive.
CertifiedIsEarned ==
  flow.stage \in {"configure_session", "ready_to_start"} =>
    /\ setup.success /\ setup.routes /\ setup.selected # NoMouse
    /\ gesture = {"moved", "clicked"}
    /\ source.state = "stopped" /\ source.queue = <<>> /\ Len(work.taken) = source.sent
    /\ \E s \in Streams :
         s[2] = cert.lock.address /\ Completions(ActivityOf(work.taken), s) > 0

\* The probe and the coordinator name the same device: a certification is never taken
\* back for a disagreement, and a stream that was chosen shows up in the evidence.
ProbeAndFlowAgree ==
  /\ cert.state = "certified" => flow.stage \notin {"certifying", "certification_needs_action"}
  /\ files.result.identity # NoIdentity => Active(files.result.evidence) # {}

\* Without a process to wait for there is none, and its control files are gone; only
\* a helper that died while it published leaves its temporary file.
ProbeLeavesNothing ==
  setup.at # "lost" /\ ~client.handle =>
    ~HelperLives /\ files = [NoFiles EXCEPT !.temporary = files.temporary]

\* Whatever was asked settles: a check ends on its own, a window that was asked to
\* close closes, and a helper whose application is gone goes too.
CheckEnds ==
  []<>(/\ ~HelperLives
       /\ setup.at \notin {"poll", "leaving"}
       /\ setup.at = "pump" => flow.stage # "certifying" /\ ~setup.close)

(***************************************************************************)
(* What the screens and a test say, and a run refutes.                     *)
(***************************************************************************)
\* TRY AGAIN leads to a check that can begin.
TryAgainChecksAgain ==
  flow.stage = "certification_ready" => cert.state = "awaiting_probe"
=============================================================================
