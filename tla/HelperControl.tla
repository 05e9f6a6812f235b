----------------------------- MODULE HelperControl -----------------------------
(***************************************************************************)
(* The capture helper and what controls it: the elevated helper process    *)
(* with its worker thread, the files through which the two processes talk, *)
(* CaptureHelperClient, and CaptureHelperRecordingControl over it. The     *)
(* helper runs on its own; the application calls the control from one      *)
(* thread, and a thread of the control waits for the end of the helper.    *)
(* It implements the contract CaptureControl.                              *)
(***************************************************************************)
EXTENDS Naturals

CONSTANT WorkerReasons  \* the fatal reasons the worker may find

\* ToString(CaptureFatalReason), and the issue FatalIssueFor makes of each.
IssueOf == [queue_or_byte_loss      |-> "native_queue_overflow",
            device_identity_changed |-> "selected_device_changed",
            pcap_framing            |-> "pcap_framing_lost",
            writer_failure          |-> "storage_write_failed",
            invalid_configuration   |-> "integrity_failed",
            native_or_device_loss   |-> "capture_helper_lost"]

AllReasons == DOMAIN IssueOf

ASSUME HelperAssumption ==
  WorkerReasons \subseteq AllReasons \ {"writer_failure", "invalid_configuration"}

Reasons == WorkerReasons \cup {"writer_failure", "invalid_configuration",
                               "native_or_device_loss"}

VARIABLES
  parent,   \* the application's process runs
  files,    \* the control files
  helper,   \* the helper process
  worker,   \* the capture worker in it
  output,   \* the capture directory
  client,   \* CaptureHelperClient
  control   \* CaptureHelperRecordingControl

helperVars == <<parent, files, helper, worker, output, client, control>>

\* A file made with CREATE_NEW is seen cut before it is whole; when filling it fails
\* it stays so, and cannot be made again.
Written == {"absent", "partial", "whole", "broken"}
Status  == [completed : BOOLEAN, fatal : Reasons \cup {"none"}]

Files  == [ready : Written, health : Written, said : Status,
           error : Written, blamed : Reasons \cup {"none"}, stop : BOOLEAN]
Helper == [pc : {"none", "boot", "loop", "final", "verdict", "error", "exited"},
           zero     : BOOLEAN,   \* the exit code is 0
           stopping : BOOLEAN,   \* stop_origin is not empty
           failed   : BOOLEAN]   \* control_error is not empty
Worker == [state  : {"starting", "running", "draining", "publishing", "completed",
                     "failed", "threw"},
           reason : Reasons \cup {"none"},
           stop   : BOOLEAN]     \* RequestStop was called
Output == [pcap : {"partial", "published"}, records : BOOLEAN,
           derivative : {"open", "given_up", "published"}]
\* RecordingCaptureSnapshot.
Mapped == [ready : BOOLEAN, running : BOOLEAN, stopComplete : BOOLEAN, clean : BOOLEAN,
           fatal : {IssueOf[r] : r \in Reasons} \cup {"none"}]

Client == [state    : {"Idle", "Starting", "Running", "StopRequested", "Completed", "Failed"},
           handle   : BOOLEAN,   \* process_ is not 0
           controls : BOOLEAN,   \* controls_created_
           ready    : BOOLEAN,
           health   : BOOLEAN, seen : Status,
           error    : Reasons \cup {"none"},
           forced   : BOOLEAN]   \* forced_termination_

Control == [begin  : {"no", "starting", "started", "failed", "gone"},
            asked  : BOOLEAN,   \* stop_called_
            tried  : BOOLEAN,   \* RequestStop has returned
            waiter : {"none", "waiting", "done"},   \* stop_future_
            frozen : Mapped]    \* stop_in_progress_snapshot_

NoStatus == [completed |-> FALSE, fatal |-> "none"]
NoFiles  == [ready |-> "absent", health |-> "absent", said |-> NoStatus,
             error |-> "absent", blamed |-> "none", stop |-> FALSE]

Alive == helper.pc \notin {"none", "exited"}

(***************************************************************************)
(* MapCaptureHelperSnapshot.                                               *)
(***************************************************************************)
\* Mutant: the state alone tells whether a writer is left.
RunningByState(c) == c.state \in {"Running", "StopRequested"}

\* A failed client is running as long as its process is not proven gone.
IsRunning(c) == c.handle \/ c.state \in {"Running", "StopRequested"}

\* Mutant: a helper that failed without naming a fault had none.
FatalIssueNamedOnly(c) ==
  IF c.error # "none" THEN IssueOf[c.error]
  ELSE IF c.health /\ c.seen.fatal # "none" THEN IssueOf[c.seen.fatal] ELSE "none"

\* The error file outranks the health status, and a failure without a name is a loss.
FatalIssue(c) ==
  IF c.error # "none" THEN IssueOf[c.error]
  ELSE IF c.health /\ c.seen.fatal # "none" THEN IssueOf[c.seen.fatal]
  ELSE IF c.state = "Failed" THEN "capture_helper_lost" ELSE "none"

MapSnapshot(c) ==
  [ready        |-> c.ready,
   running      |-> IsRunning(c),
   stopComplete |-> c.state = "Completed" \/ (c.state = "Failed" /\ ~c.handle),
   clean        |-> /\ c.state = "Completed" /\ c.health
                    /\ c.seen.completed /\ c.seen.fatal = "none",
   fatal        |-> FatalIssue(c)]

\* What BeginCapture keeps of a failed start.
StartFailure == [ready |-> FALSE, running |-> FALSE, stopComplete |-> TRUE,
                 clean |-> FALSE, fatal |-> "capture_helper_lost"]
NotBegun     == [ready |-> FALSE, running |-> FALSE, stopComplete |-> FALSE,
                 clean |-> FALSE, fatal |-> "none"]

\* Snapshot, as it is without another look at the helper: the frozen copy while
\* the wait for the end goes on.
Snapshot ==
  CASE control.begin \in {"no", "starting"}                     -> NotBegun
    [] control.begin = "failed"                                 -> StartFailure
    [] control.begin = "started" /\ control.waiter # "none"     -> control.frozen
    [] control.begin = "started" /\ control.waiter = "none"     -> MapSnapshot(client)
    [] control.begin = "gone"                                   -> control.frozen

(***************************************************************************)
(* The worker thread, as CaptureWorker has it: a run that is called clean  *)
(* is published, and a fault keeps the PCAP partial.                       *)
(***************************************************************************)
WorkerLives == Alive /\ helper.pc # "boot" /\ worker.state \notin {"completed", "failed", "threw"}

OnlyWorker == WorkerLives /\ UNCHANGED <<parent, files, helper, client, control>>

WorkerOpens ==
  /\ OnlyWorker /\ worker.state = "starting" /\ UNCHANGED output
  /\ \/ worker' = [worker EXCEPT !.state = "running"]
     \/ worker' = [worker EXCEPT !.state = "failed", !.reason = "native_or_device_loss"]

WorkerRecords ==
  /\ OnlyWorker /\ worker.state \in {"running", "draining"} /\ ~output.records
  /\ output' = [output EXCEPT !.records = TRUE] /\ UNCHANGED worker

WorkerGivesUpDerivative ==
  /\ OnlyWorker /\ worker.state # "starting" /\ output.derivative = "open"
  /\ output' = [output EXCEPT !.derivative = "given_up"] /\ UNCHANGED worker

\* A fault of the capture object is drained, one of the pipeline aborts.
WorkerFaults ==
  /\ OnlyWorker /\ worker.state \in {"running", "draining"} /\ worker.reason = "none"
  /\ \E reason \in WorkerReasons \cup {"writer_failure"}, next \in {"draining", "failed"} :
       worker' = [worker EXCEPT !.state = next, !.reason = reason]
  /\ UNCHANGED output

WorkerDrains ==
  /\ OnlyWorker /\ worker.state = "running" /\ worker.stop
  /\ worker' = [worker EXCEPT !.state = "draining"] /\ UNCHANGED output

WorkerSeals ==
  /\ OnlyWorker /\ worker.state = "draining"
  /\ worker' = [worker EXCEPT !.state = IF worker.reason = "none" THEN "publishing" ELSE "failed"]
  /\ UNCHANGED output

\* The device PCAP first, then what is left of the derivatives.
WorkerPublishes ==
  /\ OnlyWorker /\ worker.state = "publishing"
  /\ \/ /\ output.pcap = "partial"
        /\ output' = [output EXCEPT !.pcap = "published"] /\ UNCHANGED worker
     \/ /\ output.pcap = "partial"
        /\ worker' = [worker EXCEPT !.state = "failed", !.reason = "writer_failure"]
        /\ UNCHANGED output
     \/ /\ output.pcap = "published"
        /\ output' = [output EXCEPT !.derivative = IF @ = "open" THEN "published" ELSE @]
        /\ worker' = [worker EXCEPT !.state = "completed"]

WorkerThrows ==
  /\ OnlyWorker /\ worker' = [worker EXCEPT !.state = "threw"] /\ UNCHANGED output

WorkerThread ==
  WorkerOpens \/ WorkerRecords \/ WorkerGivesUpDerivative \/ WorkerFaults \/ WorkerDrains
    \/ WorkerSeals \/ WorkerPublishes \/ WorkerThrows

(***************************************************************************)
(* The control thread of the helper (CaptureMain).                         *)
(***************************************************************************)
OnlyHelper == UNCHANGED <<parent, output, client, control>>

HealthStatus == [completed |-> worker.state = "completed", fatal |-> worker.reason]

\* wmain: arguments, paths, lease, descriptor and parent are checked before the worker
\* starts; a failure is reported as an invalid configuration.
HelperBoots ==
  /\ OnlyHelper /\ helper.pc = "boot"
  /\ \/ helper' = [helper EXCEPT !.pc = "loop"] /\ UNCHANGED <<files, worker>>
     \/ /\ helper' = [helper EXCEPT !.pc = "error"]
        /\ worker' = [worker EXCEPT !.state = "failed", !.reason = "invalid_configuration"]
        /\ \/ files' = [files EXCEPT !.error = "partial"]
           \/ UNCHANGED files

InLoop  == OnlyHelper /\ helper.pc = "loop"
Writing == "partial" \in {files.ready, files.health}

\* The ready file is written once, when the worker is open.
WritesReady ==
  /\ InLoop /\ UNCHANGED <<helper, worker>>
  /\ \/ /\ ~Writing /\ files.ready = "absent" /\ worker.state \in {"running", "draining"}
        /\ files' = [files EXCEPT !.ready = "partial"]
     \/ /\ files.ready = "partial"
        /\ files' = [files EXCEPT !.ready = "whole"]

\* The first status is created like the ready file, a later one replaces it atomically.
WritesHealth ==
  /\ InLoop /\ UNCHANGED <<helper, worker>>
  /\ \/ /\ ~Writing /\ files.health = "absent"
        /\ files' = [files EXCEPT !.health = "partial"]
     \/ /\ files.health = "partial"
        /\ files' = [files EXCEPT !.health = "whole", !.said = HealthStatus]
     \/ /\ ~Writing /\ files.health = "whole" /\ files.said # HealthStatus
        /\ files' = [files EXCEPT !.said = HealthStatus]

\* A status that cannot be published ends the recording.
StatusFails ==
  /\ InLoop
  /\ helper' = [helper EXCEPT !.failed = TRUE, !.stopping = TRUE]
  /\ worker' = [worker EXCEPT !.stop = TRUE]
  /\ files' = [files EXCEPT !.ready  = IF @ = "partial" THEN "broken" ELSE @,
                            !.health = IF @ = "partial" THEN "broken" ELSE @]

\* Mutant: the worker is not told.
SeesParentGoneSilently ==
  /\ InLoop /\ ~Writing /\ ~helper.stopping /\ ~parent
  /\ helper' = [helper EXCEPT !.stopping = TRUE] /\ UNCHANGED <<files, worker>>

SeesParentGone ==
  /\ InLoop /\ ~Writing /\ ~helper.stopping /\ ~parent
  /\ helper' = [helper EXCEPT !.stopping = TRUE]
  /\ worker' = [worker EXCEPT !.stop = TRUE] /\ UNCHANGED files

\* A stop file stays unreadable for two seconds at most.
SeesStopFile ==
  /\ InLoop /\ ~Writing /\ ~helper.stopping /\ files.stop
  /\ \E unread \in BOOLEAN :
       helper' = [helper EXCEPT !.stopping = TRUE, !.failed = @ \/ unread]
  /\ worker' = [worker EXCEPT !.stop = TRUE] /\ UNCHANGED files

LoopEnds ==
  /\ InLoop /\ ~Writing /\ ~WorkerLives
  /\ helper' = [helper EXCEPT !.pc = "final"] /\ UNCHANGED <<files, worker>>

\* The last status, of the worker that has returned.
FinalHealth ==
  /\ OnlyHelper /\ helper.pc = "final" /\ UNCHANGED worker
  /\ \/ /\ files.health # "broken"
        /\ files' = [files EXCEPT !.health = "whole", !.said = HealthStatus]
        /\ helper' = [helper EXCEPT !.pc = "verdict"]
     \/ /\ helper' = [helper EXCEPT !.pc = "verdict", !.failed = TRUE]
        /\ UNCHANGED files

\* Only a clean worker under a control thread without fault exits with 0.
CleanVerdict == worker.state = "completed" /\ ~helper.failed

\* What the error file names.
Blame ==
  IF worker.state = "threw" THEN "native_or_device_loss"
  ELSE IF helper.failed THEN "writer_failure" ELSE worker.reason

Exits(zero) == helper' = [helper EXCEPT !.pc = "exited", !.zero = zero]

\* WriteErrorIfPossible creates the file, then fills it.
ExitsWithVerdict ==
  /\ OnlyHelper /\ UNCHANGED worker
  /\ \/ helper.pc = "verdict" /\ CleanVerdict /\ Exits(TRUE) /\ UNCHANGED files
     \/ /\ helper.pc = "verdict" /\ ~CleanVerdict
        /\ files' = [files EXCEPT !.error = "partial"]
        /\ helper' = [helper EXCEPT !.pc = "error"]
     \/ helper.pc = "verdict" /\ ~CleanVerdict /\ Exits(FALSE) /\ UNCHANGED files
     \/ /\ helper.pc = "error" /\ files.error = "partial" /\ Exits(FALSE)
        /\ files' = [files EXCEPT !.error = "whole", !.blamed = Blame]
     \/ helper.pc = "error" /\ Exits(FALSE) /\ UNCHANGED files

HelperRound ==
  HelperBoots \/ WritesReady \/ WritesHealth \/ SeesParentGone \/ SeesStopFile
    \/ LoopEnds \/ FinalHealth \/ ExitsWithVerdict

HelperThread == HelperRound \/ StatusFails

\* Anything may end the process.
HelperCrashes ==
  /\ Alive /\ Exits(FALSE) /\ UNCHANGED <<parent, files, worker, output, client, control>>

(***************************************************************************)
(* CaptureHelperClient: what its operations are made of, from the client   *)
(* before to the set of clients after.                                     *)
(***************************************************************************)
\* ObserveHealthAndError: an unreadable health file leaves the error file unread.
Observed(c) ==
  LET h == [c EXCEPT !.health = TRUE, !.seen = files.said]
      named(d) == IF files.error = "whole" THEN {d, [d EXCEPT !.error = files.blamed]} ELSE {d}
  IN IF ~c.controls THEN {c}
     ELSE CASE files.health = "absent"               -> named(c)
            [] files.health \in {"partial", "broken"} -> {c}
            [] files.health = "whole"                -> {c} \cup named(h)

\* FinishExited: the handle is closed and the control files are removed.
FinishExited(c) ==
  [c EXCEPT !.handle = FALSE, !.controls = FALSE,
            !.state = IF helper.zero /\ ~c.forced THEN "Completed" ELSE "Failed"]

\* WaitProcess proved the process gone.
SeesExit(c) == {FinishExited(d) : d \in Observed(c)}

\* SnapshotWithoutLock; the process may also not be polled.
Polled(c) ==
  Observed(c) \cup (IF c.handle /\ helper.pc = "exited"
                      THEN UNION {SeesExit(d) : d \in Observed(c)} ELSE {})

ClientBecomes(c) ==
  /\ client' = c
  /\ files' = IF client.controls /\ ~c.controls THEN NoFiles ELSE files

\* Mutant: the control files go whether the process is proven gone or not.
CleanupAlways(c) == [c EXCEPT !.controls = FALSE]

\* CleanupControls: the files are the only way to stop a process that is left.
Cleanup(c) == [c EXCEPT !.controls = @ /\ c.handle]

\* TerminateProcess, then a wait: gone or not proven gone.
Terminated ==
  \/ helper' = [helper EXCEPT !.pc = "exited", !.zero = @ /\ helper.pc = "exited"]
  \/ UNCHANGED helper

\* TerminateFailedStart.
TerminateFailedStart(c) ==
  LET f == [c EXCEPT !.state = "Failed", !.forced = TRUE]
  IN /\ Terminated
     /\ ClientBecomes(IF helper'.pc = "exited"
                        THEN Cleanup([f EXCEPT !.handle = FALSE]) ELSE Cleanup(f))

(***************************************************************************)
(* BeginCapture: CaptureHelperClient::Start.                               *)
(***************************************************************************)
OnlyClient == parent /\ UNCHANGED <<parent, worker, output>>

Starts(how) == control' = [control EXCEPT !.begin = how]

\* The launch itself may be refused or fail, before there is a process or a handle.
Launch ==
  /\ OnlyClient /\ control.begin = "no"
  /\ \/ /\ client' = [client EXCEPT !.state = "Starting", !.handle = TRUE, !.controls = TRUE]
        /\ helper' = [helper EXCEPT !.pc = "boot"] /\ Starts("starting")
     \/ /\ client' = [client EXCEPT !.state = "Failed"]
        /\ UNCHANGED helper /\ Starts("failed")
  /\ UNCHANGED files

StartSeesReady ==
  /\ OnlyClient /\ control.begin = "starting" /\ files.ready = "whole"
  /\ \E c \in Observed([client EXCEPT !.ready = TRUE, !.state = "Running"]) :
       ClientBecomes(c)
  /\ Starts("started") /\ UNCHANGED helper

\* A whole error file: the process gets two seconds to go.
StartSeesError ==
  /\ OnlyClient /\ control.begin = "starting" /\ files.error = "whole"
  /\ LET c == [client EXCEPT !.error = files.blamed]
     IN \/ /\ helper.pc = "exited" /\ UNCHANGED helper
           /\ ClientBecomes([FinishExited(c) EXCEPT !.state = "Failed"])
        \/ TerminateFailedStart(c)
  /\ Starts("failed")

StartSeesExit ==
  /\ OnlyClient /\ control.begin = "starting" /\ helper.pc = "exited"
  /\ \E c \in SeesExit(client) : ClientBecomes([c EXCEPT !.state = "Failed"])
  /\ Starts("failed") /\ UNCHANGED helper

\* Not ready in time, or no longer to be monitored.
StartGivesUp ==
  /\ OnlyClient /\ control.begin = "starting"
  /\ TerminateFailedStart(client) /\ Starts("failed")

(***************************************************************************)
(* Snapshot, RequestStop and the wait.                                     *)
(***************************************************************************)
\* The first snapshot after the wait takes its result.
TakeSnapshot ==
  /\ OnlyClient /\ control.begin = "started" /\ control.waiter \in {"none", "done"}
  /\ control.asked = control.tried
  /\ \E c \in Polled(client) : ClientBecomes(c)
  /\ control' = [control EXCEPT !.waiter = "none", !.frozen = NotBegun]
  /\ UNCHANGED helper

\* RequestStop once, also after a failed start: the stop file is written if the
\* helper's capability is known.
RequestStop ==
  /\ OnlyClient /\ control.begin \in {"started", "failed"} /\ ~control.asked
  /\ \/ /\ client.handle /\ client.ready
        /\ client' = [client EXCEPT !.state = "StopRequested"]
        /\ files' = [files EXCEPT !.stop = TRUE]
     \/ UNCHANGED <<client, files>>
  /\ control' = [control EXCEPT !.asked = TRUE] /\ UNCHANGED helper

\* Its second half: a last look, and the thread that waits, which may fail to start.
BeginsToWait ==
  /\ OnlyClient /\ control.asked /\ ~control.tried
  /\ \E c \in Polled(client), waiter \in {"none", "waiting"} :
       /\ ClientBecomes(c)
       /\ control' = [control EXCEPT !.tried = TRUE, !.waiter = waiter,
            !.frozen = IF waiter = "none" THEN NotBegun ELSE MapSnapshot(c)]
  /\ UNCHANGED helper

Waited == control' = [control EXCEPT !.waiter = "done"]

\* StopAndWait, for a process that is already gone, ...
WaitIsOver ==
  /\ OnlyClient /\ control.waiter = "waiting" /\ ~client.handle
  /\ ClientBecomes(Cleanup(client)) /\ Waited /\ UNCHANGED helper

\* ... a stop file that is written now, ...
WaiterWritesStop ==
  /\ OnlyClient /\ control.waiter = "waiting" /\ client.handle
  /\ client.ready /\ client.state # "StopRequested"
  /\ client' = [client EXCEPT !.state = "StopRequested"]
  /\ files' = [files EXCEPT !.stop = TRUE] /\ UNCHANGED <<helper, control>>

\* ... a process that ends in time, ...
WaiterSeesExit ==
  /\ OnlyClient /\ control.waiter = "waiting" /\ client.handle /\ helper.pc = "exited"
  /\ \E c \in SeesExit(client) : ClientBecomes(c)
  /\ Waited /\ UNCHANGED helper

\* ... and one that has to be terminated, and may not be proven gone.
WaiterForces ==
  /\ OnlyClient /\ control.waiter = "waiting" /\ client.handle
  /\ Terminated
  /\ LET f == [client EXCEPT !.forced = TRUE, !.state = "Failed"]
     IN IF helper'.pc = "exited"
          THEN \E c \in Observed(f) : ClientBecomes([FinishExited(c) EXCEPT !.state = "Failed"])
          ELSE ClientBecomes(f)
  /\ Waited

Waiter == WaitIsOver \/ WaiterWritesStop \/ WaiterSeesExit \/ WaiterForces

\* The control is destroyed after its thread; the client's destructor waits once more.
Destroy ==
  /\ OnlyClient /\ control.begin \in {"started", "failed"} /\ control.tried
  /\ control.waiter # "waiting"
  /\ control' = [control EXCEPT !.begin = "gone", !.waiter = "waiting", !.frozen = Snapshot]
  /\ UNCHANGED <<files, helper, client>>

\* The application ends, whether it is done or not; with the kill job it was given the
\* helper goes with it.
ParentExits ==
  /\ parent /\ parent' = FALSE
  /\ \/ UNCHANGED helper
     \/ Alive /\ Exits(FALSE)
  /\ UNCHANGED <<files, worker, output, client, control>>

Over == ~parent /\ ~Alive /\ UNCHANGED helperVars

Application ==
  Launch \/ StartSeesReady \/ StartSeesError \/ StartSeesExit \/ StartGivesUp
    \/ TakeSnapshot \/ RequestStop \/ BeginsToWait \/ Destroy \/ ParentExits

HelperInit ==
  /\ parent = TRUE /\ files = NoFiles
  /\ helper = [pc |-> "none", zero |-> FALSE, stopping |-> FALSE, failed |-> FALSE]
  /\ worker = [state |-> "starting", reason |-> "none", stop |-> FALSE]
  /\ output = [pcap |-> "partial", records |-> FALSE, derivative |-> "open"]
  /\ client = [state |-> "Idle", handle |-> FALSE, controls |-> FALSE, ready |-> FALSE,
               health |-> FALSE, seen |-> NoStatus, error |-> "none", forced |-> FALSE]
  /\ control = [begin |-> "no", asked |-> FALSE, tried |-> FALSE, waiter |-> "none",
                frozen |-> NotBegun]

HelperNext ==
  WorkerThread \/ HelperThread \/ HelperCrashes \/ Application \/ Waiter \/ Over

\* Both threads of the helper go on, and the control thread looks for a parent that is
\* gone and for a stop file on every round; nothing has to fail.
HelperSpec ==
  /\ HelperInit /\ [][HelperNext]_helperVars
  /\ WF_helperVars(HelperRound)
  /\ WF_helperVars(WorkerOpens) /\ WF_helperVars(WorkerDrains)
  /\ WF_helperVars(WorkerSeals) /\ WF_helperVars(WorkerPublishes)
  /\ WF_helperVars(Waiter)

(***************************************************************************)
(* What the helper and its control promise.                                *)
(***************************************************************************)
\* Type invariant of both processes and of the files between them.
HelperTypeOK ==
  /\ parent \in BOOLEAN /\ files \in Files /\ helper \in Helper /\ worker \in Worker
  /\ output \in Output /\ client \in Client
  /\ control \in Control

\* A session that was started is told that the helper is not running only when no
\* process is left that could write its files, however the end was forced.
NotRunningMeansGone ==
  control.begin = "started" /\ ~Snapshot.running => ~Alive

\* A helper that may still run keeps the files through which it can be told to stop.
ControlsOutliveHelper == Alive /\ parent /\ control.begin # "no" => client.controls

\* A helper is never out of reach, in any well-typed state of the processes and files.
HelperStaysInReach == HelperTypeOK /\ ControlsOutliveHelper

\* While a process may still write it can be told to stop, and the session knows of it.
WriterIsKnown == HelperStaysInReach /\ NotRunningMeansGone

\* The capture side as the session sees it, once BeginCapture has returned.
Seen ==
  IF control.begin \in {"no", "starting", "failed"} \/ ~client.ready
    THEN [ready |-> FALSE, running |-> TRUE, stopAsked |-> FALSE, stopComplete |-> FALSE,
          clean |-> FALSE, fatal |-> "none", pcap |-> "partial", records |-> FALSE,
          derivative |-> "open"]
    ELSE LET s == Snapshot
         IN [ready |-> s.ready, running |-> s.running, stopAsked |-> control.asked,
             stopComplete |-> s.stopComplete, clean |-> s.clean, fatal |-> s.fatal,
             pcap |-> IF s.running THEN "partial" ELSE output.pcap,
             records |-> output.records,
             derivative |-> IF s.running /\ output.derivative = "published"
                              THEN "open" ELSE output.derivative]

Contract == INSTANCE CaptureControl
  WITH capture <- Seen, CaptureFaults <- {IssueOf[r] : r \in Reasons}

\* The control keeps the contract the session relies on, whatever the helper, the
\* files and the deadlines do.
ImplementsCaptureControl == Contract!CaptureSpec

\* A helper whose application is gone ends, wherever it is, and so does one whose stop
\* file is there, without being forced.
HelperEndsUnforced == ~parent \/ files.stop ~> ~Alive
=============================================================================
