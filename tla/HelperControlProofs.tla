------------------------- MODULE HelperControlProofs -------------------------
(***************************************************************************)
(* Proofs about the capture helper and its control, for every set of       *)
(* reasons the worker may find: types and the first half of the promises,  *)
(* then that they implement the contract CaptureControl.                   *)
(***************************************************************************)
EXTENDS HelperControl, TLAPS

(***************************************************************************)
(* The types, and what the operations of the client keep.                  *)
(***************************************************************************)
Issues == {IssueOf[r] : r \in Reasons}

LEMMA ReasonsThere ==
  /\ {"writer_failure", "invalid_configuration", "native_or_device_loss"} \subseteq Reasons
  /\ WorkerReasons \subseteq Reasons
  /\ "capture_helper_lost" \in Issues /\ "none" \notin Reasons
<1>1. "native_or_device_loss" \in Reasons
      /\ IssueOf["native_or_device_loss"] = "capture_helper_lost"
  BY DEF Reasons, IssueOf
<1>2. "none" \notin AllReasons
  BY DEF AllReasons, IssueOf
<1>3. Reasons \subseteq AllReasons
  BY HelperAssumption DEF Reasons, AllReasons, IssueOf
<1> QED
  BY <1>1, <1>2, <1>3 DEF Reasons, Issues

\* Another look at the files changes neither what the client holds nor its state.
LEMMA ObservedKeeps ==
  ASSUME HelperTypeOK, NEW c \in Client, NEW d \in Observed(c)
  PROVE  d \in Client /\ d.handle = c.handle /\ d.controls = c.controls
         /\ d.state = c.state /\ d.ready = c.ready /\ d.forced = c.forced
<1> DEFINE h == [c EXCEPT !.health = TRUE, !.seen = files.said]
           named(e) == IF files.error = "whole" THEN {e, [e EXCEPT !.error = files.blamed]} ELSE {e}
           Good(e) == /\ e \in Client /\ e.handle = c.handle /\ e.controls = c.controls
                      /\ e.state = c.state /\ e.ready = c.ready /\ e.forced = c.forced
<1>1. files.said \in Status /\ files.blamed \in Reasons \cup {"none"} /\ files.health \in Written
  BY DEF HelperTypeOK, Files
<1>2. Good(c) /\ Good(h)
  BY <1>1 DEF Client
<1>3. ASSUME NEW e, Good(e), NEW f \in named(e) PROVE Good(f)
  BY <1>1, <1>3 DEF Client
<1>4. d = c \/ d \in named(c) \/ d \in named(h)
  BY <1>1 DEF Observed, Written
<1> QED
  BY <1>2, <1>3, <1>4

LEMMA FinishedType ==
  ASSUME NEW c \in Client
  PROVE  FinishExited(c) \in Client /\ ~FinishExited(c).handle /\ ~FinishExited(c).controls
BY DEF FinishExited, Client

\* A look lets go of the process only when it is gone.
LEMMA PolledKeeps ==
  ASSUME HelperTypeOK, NEW c \in Client, NEW d \in Polled(c)
  PROVE  /\ d \in Client
         /\ \/ d.handle = c.handle /\ d.controls = c.controls
            \/ c.handle /\ helper.pc = "exited" /\ ~d.handle /\ ~d.controls
<1>1. CASE d \in Observed(c)
  BY <1>1, ObservedKeeps
<1>2. CASE d \notin Observed(c)
  <2>1. c.handle /\ helper.pc = "exited" /\ d \in UNION {SeesExit(e) : e \in Observed(c)}
    BY <1>2 DEF Polled
  <2>2. PICK e \in Observed(c) : d \in SeesExit(e)
    BY <2>1
  <2>3. e \in Client
    BY ObservedKeeps
  <2>4. PICK f \in Observed(e) : d = FinishExited(f)
    BY <2>2 DEF SeesExit
  <2>5. f \in Client
    BY <2>3, ObservedKeeps
  <2> QED
    BY <2>1, <2>4, <2>5, FinishedType
<1> QED
  BY <1>1, <1>2

LEMMA SnapshotType ==
  ASSUME NEW c \in Client
  PROVE  MapSnapshot(c) \in Mapped /\ (c.handle => MapSnapshot(c).running)
<1>1. FatalIssue(c) \in Issues \cup {"none"}
  BY ReasonsThere DEF FatalIssue, Client, Status, Issues
<1> QED
  BY <1>1 DEF MapSnapshot, Mapped, IsRunning, Client, Status, Issues

LEMMA BecomesType ==
  ASSUME HelperTypeOK, NEW c \in Client, ClientBecomes(c)
  PROVE  files' \in Files /\ client' = c
BY DEF HelperTypeOK, ClientBecomes, NoFiles, NoStatus, Files, Written, Status

LEMMA NotBegunType == NotBegun \in Mapped /\ StartFailure \in Mapped
BY ReasonsThere DEF NotBegun, StartFailure, Mapped, Issues

LEMMA SnapshotMapped == HelperTypeOK => Snapshot \in Mapped
<1> SUFFICES ASSUME HelperTypeOK PROVE Snapshot \in Mapped
  OBVIOUS
<1>1. MapSnapshot(client) \in Mapped
  BY SnapshotType DEF HelperTypeOK
<1>2. control.frozen \in Mapped /\ control.begin \in {"no", "starting", "started", "failed", "gone"}
  BY DEF HelperTypeOK, Control
<1> QED
  BY <1>1, <1>2, NotBegunType DEF Snapshot

(***************************************************************************)
(* The invariant. A process that lives is one the client holds, the client *)
(* holds none without its control files, and a wait begun without a        *)
(* process is a wait without one.                                          *)
(***************************************************************************)
Reach ==
  /\ Alive => client.handle
  /\ client.handle => client.controls

WaitBegun ==
  /\ control.begin \in {"no", "starting"} => ~control.asked /\ control.waiter = "none"
  /\ control.begin = "started" /\ control.waiter # "none" /\ ~control.frozen.running => ~Alive

HelperInv == HelperTypeOK /\ Reach /\ WaitBegun

LEMMA InvInit == HelperInit => HelperInv
<1> SUFFICES ASSUME HelperInit PROVE HelperInv
  OBVIOUS
<1>1. files \in Files /\ client \in Client
  BY DEF HelperInit, NoFiles, NoStatus, Files, Client, Written, Status
<1>2. control \in Control
  BY NotBegunType DEF HelperInit, Control
<1> QED
  BY <1>1, <1>2 DEF HelperInit, HelperInv, HelperTypeOK, Reach, WaitBegun, Alive, Helper,
       Worker, Output

(***************************************************************************)
(* The helper process.                                                     *)
(***************************************************************************)
LEMMA InvWorker == HelperInv /\ WorkerThread => HelperInv'
<1> SUFFICES ASSUME HelperInv, WorkerThread PROVE HelperInv'
  OBVIOUS
<1>1. UNCHANGED <<parent, files, helper, client, control>>
  BY DEF WorkerThread, WorkerOpens, WorkerRecords, WorkerGivesUpDerivative, WorkerFaults,
         WorkerDrains, WorkerSeals, WorkerPublishes, WorkerThrows, OnlyWorker
<1>2. worker \in Worker /\ output \in Output
  BY DEF HelperInv, HelperTypeOK
<1>3. worker' \in Worker /\ output' \in Output
  <2>1. CASE WorkerOpens
    BY <1>2, <2>1, ReasonsThere DEF WorkerOpens, Worker, Output
  <2>2. CASE WorkerRecords
    BY <1>2, <2>2 DEF WorkerRecords, Worker, Output
  <2>3. CASE WorkerGivesUpDerivative
    BY <1>2, <2>3 DEF WorkerGivesUpDerivative, Worker, Output
  <2>4. CASE WorkerFaults
    BY <1>2, <2>4, ReasonsThere DEF WorkerFaults, Worker, Output
  <2>5. CASE WorkerDrains
    BY <1>2, <2>5 DEF WorkerDrains, Worker, Output
  <2>6. CASE WorkerSeals
    BY <1>2, <2>6 DEF WorkerSeals, Worker, Output
  <2>7. CASE WorkerPublishes
    BY <1>2, <2>7, ReasonsThere DEF WorkerPublishes, Worker, Output
  <2>8. CASE WorkerThrows
    BY <1>2, <2>8 DEF WorkerThrows, Worker, Output
  <2> QED
    BY <2>1, <2>2, <2>3, <2>4, <2>5, <2>6, <2>7, <2>8 DEF WorkerThread
<1> QED
  BY <1>1, <1>3 DEF HelperInv, HelperTypeOK, Reach, WaitBegun, Alive

\* A step of the helper that is not its start only ever ends it.
LEMMA InvHelperStep ==
  ASSUME HelperInv, UNCHANGED <<parent, output, client, control>>,
         files' \in Files, helper' \in Helper, worker' \in Worker, Alive' => Alive
  PROVE  HelperInv'
BY DEF HelperInv, HelperTypeOK, Reach, WaitBegun

LEMMA InvHelper == HelperInv /\ (HelperThread \/ HelperCrashes) => HelperInv'
<1> SUFFICES ASSUME HelperInv, HelperThread \/ HelperCrashes PROVE HelperInv'
  OBVIOUS
<1>1. files \in Files /\ helper \in Helper /\ worker \in Worker
  BY DEF HelperInv, HelperTypeOK
<1>2. HealthStatus \in Status
  BY <1>1 DEF HealthStatus, Status, Worker
<1>3. Blame \in Reasons \cup {"none"}
  BY <1>1, ReasonsThere DEF Blame, Worker
<1> USE DEF OnlyHelper, InLoop, Alive
<1>4. CASE HelperBoots
  <2>1. files' \in Files
    BY <1>1, <1>4 DEF HelperBoots, Files, Written
  <2>2. helper' \in Helper
    BY <1>1, <1>4 DEF HelperBoots, Helper
  <2>3. worker' \in Worker
    BY <1>1, <1>4, ReasonsThere DEF HelperBoots, Worker
  <2> QED
    BY <1>4, <2>1, <2>2, <2>3, InvHelperStep DEF HelperBoots
<1>5. CASE WritesReady
  <2>1. files' \in Files
    BY <1>1, <1>5 DEF WritesReady, Files, Written
  <2> QED
    BY <1>1, <1>5, <2>1, InvHelperStep DEF WritesReady
<1>6. CASE WritesHealth
  <2>1. files' \in Files
    BY <1>1, <1>2, <1>6 DEF WritesHealth, Files, Written
  <2> QED
    BY <1>1, <1>6, <2>1, InvHelperStep DEF WritesHealth
<1>7. CASE SeesParentGone
  <2>1. helper' \in Helper /\ worker' \in Worker
    BY <1>1, <1>7 DEF SeesParentGone, Helper, Worker
  <2> QED
    BY <1>1, <1>7, <2>1, InvHelperStep DEF SeesParentGone
<1>8. CASE SeesStopFile
  <2>1. helper' \in Helper /\ worker' \in Worker
    BY <1>1, <1>8 DEF SeesStopFile, Helper, Worker
  <2> QED
    BY <1>1, <1>8, <2>1, InvHelperStep DEF SeesStopFile
<1>9. CASE LoopEnds
  <2>1. helper' \in Helper
    BY <1>1, <1>9 DEF LoopEnds, Helper
  <2> QED
    BY <1>1, <1>9, <2>1, InvHelperStep DEF LoopEnds
<1>10. CASE FinalHealth
  <2>1. files' \in Files
    BY <1>1, <1>2, <1>10 DEF FinalHealth, Files, Written
  <2>2. helper' \in Helper
    BY <1>1, <1>10 DEF FinalHealth, Helper
  <2> QED
    BY <1>1, <1>10, <2>1, <2>2, InvHelperStep DEF FinalHealth
<1>11. CASE ExitsWithVerdict
  <2>1. files' \in Files
    BY <1>1, <1>3, <1>11 DEF ExitsWithVerdict, Files, Written
  <2>2. helper' \in Helper
    BY <1>1, <1>11 DEF ExitsWithVerdict, Exits, Helper
  <2> QED
    BY <1>1, <1>11, <2>1, <2>2, InvHelperStep DEF ExitsWithVerdict
<1>12. CASE StatusFails
  <2>1. files' \in Files
    BY <1>1, <1>12 DEF StatusFails, Files, Written
  <2>2. helper' \in Helper /\ worker' \in Worker
    BY <1>1, <1>12 DEF StatusFails, Helper, Worker
  <2> QED
    BY <1>12, <2>1, <2>2, InvHelperStep DEF StatusFails
<1>13. CASE HelperCrashes
  <2>1. helper' \in Helper
    BY <1>1, <1>13 DEF HelperCrashes, Exits, Helper
  <2> QED
    BY <1>1, <1>13, <2>1, InvHelperStep DEF HelperCrashes
<1> QED
  BY <1>4, <1>5, <1>6, <1>7, <1>8, <1>9, <1>10, <1>11, <1>12, <1>13 DEF HelperThread, HelperRound

(***************************************************************************)
(* The application's side.                                                 *)
(***************************************************************************)
\* A step that leaves the helper alone may let go of it only when it is gone.
LEMMA InvClientStep ==
  ASSUME HelperInv, UNCHANGED <<parent, worker, output>>,
         helper' \in Helper, files' \in Files, client' \in Client, control' \in Control,
         Alive' => Alive /\ client'.handle,
         client'.handle => client'.controls,
         WaitBegun'
  PROVE  HelperInv'
BY DEF HelperInv, HelperTypeOK, Reach

LEMMA TerminatedHelper ==
  ASSUME HelperInv, Terminated
  PROVE  helper' \in Helper /\ (Alive' => Alive) /\ (helper'.pc # "exited" => UNCHANGED helper)
BY DEF HelperInv, HelperTypeOK, Terminated, Helper, Alive

LEMMA FailedStart ==
  ASSUME HelperInv, NEW c \in Client, c.handle => c.controls, c.handle = client.handle,
         TerminateFailedStart(c)
  PROVE  /\ helper' \in Helper /\ files' \in Files /\ client' \in Client
         /\ Alive' => Alive /\ client'.handle
         /\ client'.handle => client'.controls
<1> DEFINE f == [c EXCEPT !.state = "Failed", !.forced = TRUE]
           g == Cleanup([f EXCEPT !.handle = FALSE])
           k == Cleanup(f)
<1>1. helper' \in Helper /\ (Alive' => Alive)
  BY TerminatedHelper DEF TerminateFailedStart
<1>2. g \in Client /\ ~g.handle
  BY DEF Cleanup, Client
<1>3. k \in Client /\ k.handle = c.handle /\ (k.handle => k.controls)
  BY DEF Cleanup, Client
<1>4. ClientBecomes(IF helper'.pc = "exited" THEN g ELSE k)
  BY DEF TerminateFailedStart
<1> HIDE DEF g, k
<1>5. CASE helper'.pc = "exited"
  <2>1. files' \in Files /\ client' = g
    BY <1>2, <1>4, <1>5, BecomesType DEF HelperInv
  <2> QED
    BY <1>1, <1>2, <1>5, <2>1 DEF Alive
<1>6. CASE helper'.pc # "exited"
  <2>1. files' \in Files /\ client' = k
    BY <1>3, <1>4, <1>6, BecomesType DEF HelperInv
  <2> QED
    BY <1>1, <1>3, <2>1 DEF HelperInv, Reach
<1> QED
  BY <1>5, <1>6

LEMMA InvStart ==
  HelperInv /\ (Launch \/ StartSeesReady \/ StartSeesError \/ StartSeesExit \/ StartGivesUp)
    => HelperInv'
<1> SUFFICES ASSUME HelperInv,
                    Launch \/ StartSeesReady \/ StartSeesError \/ StartSeesExit \/ StartGivesUp
             PROVE  HelperInv'
  OBVIOUS
<1>1. HelperTypeOK /\ files \in Files /\ helper \in Helper /\ client \in Client
      /\ control \in Control
  BY DEF HelperInv, HelperTypeOK
<1>2. UNCHANGED <<parent, worker, output>>
  BY DEF Launch, StartSeesReady, StartSeesError, StartSeesExit, StartGivesUp, OnlyClient
<1>3. /\ control.begin \in {"no", "starting"}
      /\ \E how \in {"starting", "started", "failed"} : Starts(how)
  BY DEF Launch, StartSeesReady, StartSeesError, StartSeesExit, StartGivesUp
<1>4. control' \in Control /\ WaitBegun'
  BY <1>1, <1>3 DEF Starts, Control, HelperInv, WaitBegun
<1>5. CASE Launch
  <2>1. helper' \in Helper /\ client' \in Client /\ files' \in Files
    BY <1>1, <1>5 DEF Launch, Helper, Client
  <2>2. CASE UNCHANGED helper
    <3>1. \/ client'.handle = client.handle /\ client'.controls = client.controls
          \/ client'.handle /\ client'.controls
      BY <1>1, <1>5 DEF Launch, Client
    <3> QED
      BY <1>2, <1>4, <2>1, <2>2, <3>1 DEF HelperInv, HelperTypeOK, Reach, Alive
  <2>3. CASE ~UNCHANGED helper
    <3>1. client'.handle /\ client'.controls
      BY <1>1, <1>5, <2>3 DEF Launch, Client
    <3> QED
      BY <1>2, <1>4, <2>1, <3>1 DEF HelperInv, HelperTypeOK, Reach
  <2> QED
    BY <2>2, <2>3
<1>6. CASE StartSeesReady
  <2> DEFINE r == [client EXCEPT !.ready = TRUE, !.state = "Running"]
  <2>1. r \in Client /\ r.handle = client.handle /\ r.controls = client.controls
    BY <1>1 DEF Client
  <2>2. PICK c \in Observed(r) : ClientBecomes(c)
    BY <1>6 DEF StartSeesReady
  <2> HIDE DEF r
  <2>3. c \in Client /\ c.handle = client.handle /\ c.controls = client.controls
    BY <1>1, <2>1, ObservedKeeps
  <2>4. files' \in Files /\ client' = c /\ helper' = helper
    BY <1>1, <1>6, <2>2, <2>3, BecomesType DEF StartSeesReady
  <2> QED
    BY <1>1, <1>2, <1>4, <2>3, <2>4, InvClientStep DEF HelperInv, Reach, Alive
<1>7. CASE StartSeesError
  <2> DEFINE c == [client EXCEPT !.error = files.blamed]
             e == [FinishExited(c) EXCEPT !.state = "Failed"]
  <2>1. c \in Client /\ c.handle = client.handle /\ c.controls = client.controls
    BY <1>1 DEF Client, Files
  <2>2. e \in Client /\ ~e.handle
    BY <2>1, FinishedType DEF Client
  <2>3. \/ helper.pc = "exited" /\ UNCHANGED helper /\ ClientBecomes(e)
        \/ TerminateFailedStart(c)
    BY <1>7 DEF StartSeesError
  <2> HIDE DEF c, e
  <2>4. CASE TerminateFailedStart(c)
    BY <1>2, <1>4, <2>1, <2>4, FailedStart, InvClientStep DEF HelperInv, Reach
  <2>5. CASE helper.pc = "exited" /\ UNCHANGED helper /\ ClientBecomes(e)
    <3>1. files' \in Files /\ client' = e
      BY <1>1, <2>2, <2>5, BecomesType
    <3> QED
      BY <1>1, <1>2, <1>4, <2>2, <2>5, <3>1, InvClientStep DEF Alive
  <2> QED
    BY <2>3, <2>4, <2>5
<1>8. CASE StartSeesExit
  <2>1. PICK c \in SeesExit(client) : ClientBecomes([c EXCEPT !.state = "Failed"])
    BY <1>8 DEF StartSeesExit
  <2>2. PICK d \in Observed(client) : c = FinishExited(d)
    BY <2>1 DEF SeesExit
  <2> DEFINE e == [c EXCEPT !.state = "Failed"]
  <2>3. e \in Client /\ ~e.handle
    <3>1. d \in Client
      BY <1>1, ObservedKeeps
    <3>2. c \in Client /\ ~c.handle
      BY <2>2, <3>1, FinishedType
    <3> QED
      BY <3>2 DEF Client
  <2> HIDE DEF e
  <2>4. files' \in Files /\ client' = e /\ helper' = helper /\ helper.pc = "exited"
    BY <1>1, <1>8, <2>1, <2>3, BecomesType DEF StartSeesExit, e
  <2> QED
    BY <1>1, <1>2, <1>4, <2>3, <2>4, InvClientStep DEF Alive
<1>9. CASE StartGivesUp
  <2>1. TerminateFailedStart(client)
    BY <1>9 DEF StartGivesUp
  <2> QED
    BY <1>1, <1>2, <1>4, <2>1, FailedStart, InvClientStep DEF HelperInv, Reach
<1> QED
  BY <1>5, <1>6, <1>7, <1>8, <1>9

LEMMA InvCalls ==
  HelperInv /\ (TakeSnapshot \/ RequestStop \/ BeginsToWait \/ Destroy \/ ParentExits) => HelperInv'
<1> SUFFICES ASSUME HelperInv,
                    TakeSnapshot \/ RequestStop \/ BeginsToWait \/ Destroy \/ ParentExits
             PROVE  HelperInv'
  OBVIOUS
<1>1. HelperTypeOK /\ files \in Files /\ helper \in Helper /\ client \in Client
      /\ control \in Control
  BY DEF HelperInv, HelperTypeOK
<1>2. (Alive => client.handle) /\ (client.handle => client.controls)
  BY DEF HelperInv, Reach
<1>3. CASE TakeSnapshot
  <2>1. PICK c \in Polled(client) : ClientBecomes(c)
    BY <1>3 DEF TakeSnapshot
  <2>2. /\ c \in Client
        /\ \/ c.handle = client.handle /\ c.controls = client.controls
           \/ client.handle /\ helper.pc = "exited" /\ ~c.handle /\ ~c.controls
    BY <1>1, PolledKeeps
  <2>3. files' \in Files /\ client' = c /\ helper' = helper /\ UNCHANGED <<parent, worker, output>>
    BY <1>1, <1>3, <2>1, <2>2, BecomesType DEF TakeSnapshot, OnlyClient
  <2>4. control' \in Control /\ WaitBegun'
    BY <1>1, <1>3, NotBegunType DEF TakeSnapshot, Control, HelperInv, WaitBegun
  <2> QED
    BY <1>1, <1>2, <2>2, <2>3, <2>4, InvClientStep DEF Alive
<1>4. CASE RequestStop
  <2>1. client' \in Client /\ client'.handle = client.handle /\ client'.controls = client.controls
    BY <1>1, <1>4 DEF RequestStop, Client
  <2>2. files' \in Files
    BY <1>1, <1>4 DEF RequestStop, Files
  <2>3. control' \in Control /\ WaitBegun'
    BY <1>1, <1>4 DEF RequestStop, Control, HelperInv, WaitBegun, Alive
  <2>4. helper' = helper /\ UNCHANGED <<parent, worker, output>>
    BY <1>4 DEF RequestStop, OnlyClient
  <2> QED
    BY <1>1, <1>2, <2>1, <2>2, <2>3, <2>4, InvClientStep DEF Alive
<1>5. CASE BeginsToWait
  <2>1. PICK c \in Polled(client), w \in {"none", "waiting"} :
          /\ ClientBecomes(c)
          /\ control' = [control EXCEPT !.tried = TRUE, !.waiter = w,
                           !.frozen = IF w = "none" THEN NotBegun ELSE MapSnapshot(c)]
    BY <1>5 DEF BeginsToWait
  <2>2. /\ c \in Client
        /\ \/ c.handle = client.handle /\ c.controls = client.controls
           \/ client.handle /\ helper.pc = "exited" /\ ~c.handle /\ ~c.controls
    BY <1>1, PolledKeeps
  <2>3. files' \in Files /\ client' = c /\ helper' = helper /\ UNCHANGED <<parent, worker, output>>
    BY <1>1, <1>5, <2>1, <2>2, BecomesType DEF BeginsToWait, OnlyClient
  <2>4. MapSnapshot(c) \in Mapped /\ (c.handle => MapSnapshot(c).running)
    BY <2>2, SnapshotType
  <2>5. control' \in Control
    BY <1>1, <2>1, <2>4, NotBegunType DEF Control
  <2>6. control.begin \notin {"no", "starting"} /\ control'.begin = control.begin
    BY <1>1, <1>5, <2>1 DEF BeginsToWait, Control, HelperInv, WaitBegun
  <2>7. WaitBegun'
    BY <1>1, <1>2, <2>1, <2>2, <2>3, <2>4, <2>6 DEF WaitBegun, Alive, Control
  <2> QED
    BY <1>1, <1>2, <2>2, <2>3, <2>5, <2>7, InvClientStep DEF Alive
<1>6. CASE Destroy
  <2>1. control' \in Control /\ WaitBegun'
    BY <1>1, <1>6, SnapshotMapped DEF Destroy, Control, WaitBegun
  <2> QED
    BY <1>1, <1>2, <1>6, <2>1, InvClientStep DEF Destroy, OnlyClient, Alive
<1>7. CASE ParentExits
  <2>1. helper' \in Helper /\ (Alive' => Alive)
    BY <1>1, <1>7 DEF ParentExits, Exits, Helper, Alive
  <2> QED
    BY <1>1, <1>2, <1>7, <2>1 DEF ParentExits, HelperInv, HelperTypeOK, Reach, WaitBegun
<1> QED
  BY <1>3, <1>4, <1>5, <1>6, <1>7

LEMMA InvWaiter == HelperInv /\ Waiter => HelperInv'
<1> SUFFICES ASSUME HelperInv, Waiter PROVE HelperInv'
  OBVIOUS
<1>1. HelperTypeOK /\ files \in Files /\ helper \in Helper /\ client \in Client
      /\ control \in Control
  BY DEF HelperInv, HelperTypeOK
<1>2. (Alive => client.handle) /\ (client.handle => client.controls)
  BY DEF HelperInv, Reach
<1>3. UNCHANGED <<parent, worker, output>> /\ (Waited \/ UNCHANGED control)
      /\ control.waiter = "waiting"
  BY DEF Waiter, WaitIsOver, WaiterWritesStop, WaiterSeesExit, WaiterForces, OnlyClient
<1>4. ASSUME Alive' => Alive PROVE control' \in Control /\ WaitBegun'
  BY <1>1, <1>3, <1>4 DEF Waited, Control, HelperInv, WaitBegun
<1>5. CASE WaitIsOver
  <2>1. Cleanup(client) \in Client /\ ~Cleanup(client).handle
    BY <1>1, <1>5 DEF WaitIsOver, Cleanup, Client
  <2>2. files' \in Files /\ client' = Cleanup(client) /\ helper' = helper
    BY <1>1, <1>5, <2>1, BecomesType DEF WaitIsOver
  <2> QED
    BY <1>1, <1>2, <1>3, <1>4, <1>5, <2>1, <2>2, InvClientStep DEF WaitIsOver, Alive
<1>6. CASE WaiterWritesStop
  <2>1. client' \in Client /\ client'.handle = client.handle /\ client'.controls = client.controls
    BY <1>1, <1>6 DEF WaiterWritesStop, Client
  <2>2. files' \in Files /\ helper' = helper
    BY <1>1, <1>6 DEF WaiterWritesStop, Files
  <2> QED
    BY <1>1, <1>2, <1>3, <1>4, <2>1, <2>2, InvClientStep DEF Alive
<1>7. CASE WaiterSeesExit
  <2>1. PICK c \in SeesExit(client) : ClientBecomes(c)
    BY <1>7 DEF WaiterSeesExit
  <2>2. PICK d \in Observed(client) : c = FinishExited(d)
    BY <2>1 DEF SeesExit
  <2>3. c \in Client /\ ~c.handle
    <3>1. d \in Client
      BY <1>1, ObservedKeeps
    <3> QED
      BY <2>2, <3>1, FinishedType
  <2>4. files' \in Files /\ client' = c /\ helper' = helper /\ helper.pc = "exited"
    BY <1>1, <1>7, <2>1, <2>3, BecomesType DEF WaiterSeesExit
  <2> QED
    BY <1>1, <1>3, <1>4, <2>3, <2>4, InvClientStep DEF Alive
<1>8. CASE WaiterForces
  <2> DEFINE f == [client EXCEPT !.forced = TRUE, !.state = "Failed"]
  <2>1. helper' \in Helper /\ (Alive' => Alive)
    BY <1>8, TerminatedHelper DEF WaiterForces
  <2>2. f \in Client /\ f.handle = client.handle /\ f.controls = client.controls
    BY <1>1 DEF Client
  <2>3. IF helper'.pc = "exited"
          THEN \E c \in Observed(f) : ClientBecomes([FinishExited(c) EXCEPT !.state = "Failed"])
          ELSE ClientBecomes(f)
    BY <1>8 DEF WaiterForces
  <2> HIDE DEF f
  <2>4. CASE helper'.pc = "exited"
    <3>1. PICK c \in Observed(f) : ClientBecomes([FinishExited(c) EXCEPT !.state = "Failed"])
      BY <2>3, <2>4
    <3> DEFINE e == [FinishExited(c) EXCEPT !.state = "Failed"]
    <3>2. e \in Client /\ ~e.handle
      <4>1. c \in Client
        BY <1>1, <2>2, ObservedKeeps
      <4> QED
        BY <4>1, FinishedType DEF Client
    <3> HIDE DEF e
    <3>3. files' \in Files /\ client' = e
      BY <1>1, <3>1, <3>2, BecomesType DEF e
    <3> QED
      BY <1>3, <1>4, <2>1, <2>4, <3>2, <3>3, InvClientStep DEF Alive
  <2>5. CASE helper'.pc # "exited"
    <3>1. files' \in Files /\ client' = f
      BY <1>1, <2>2, <2>3, <2>5, BecomesType
    <3> QED
      BY <1>2, <1>3, <1>4, <2>1, <2>2, <3>1, InvClientStep
  <2> QED
    BY <2>4, <2>5
<1> QED
  BY <1>5, <1>6, <1>7, <1>8 DEF Waiter

LEMMA InvNext == HelperInv /\ [HelperNext]_helperVars => HelperInv'
<1>1. HelperInv /\ UNCHANGED helperVars => HelperInv'
  BY DEF helperVars, HelperInv, HelperTypeOK, Reach, WaitBegun, Alive
<1> QED
  BY <1>1, InvWorker, InvHelper, InvStart, InvCalls, InvWaiter
  DEF HelperNext, Application, Over

LEMMA InvHolds == HelperSpec => []HelperInv
BY InvInit, InvNext, PTL DEF HelperSpec

(***************************************************************************)
(* What follows.                                                           *)
(***************************************************************************)
\* For any reasons: no helper runs on without the files through which it can be told to
\* stop, however its start, its end and the looks at it fall together.
THEOREM HelperAlwaysInReach == HelperSpec => []HelperStaysInReach
<1>1. HelperInv => HelperStaysInReach
  BY DEF HelperInv, Reach, HelperStaysInReach, ControlsOutliveHelper
<1> QED
  BY <1>1, InvHolds, PTL

\* For any reasons: a started session that is told the helper is not running may touch
\* its files, because no process is left that could write them.
THEOREM NotRunningAlwaysMeansGone == HelperSpec => []NotRunningMeansGone
<1>1. HelperInv => NotRunningMeansGone
  <2> SUFFICES ASSUME HelperInv, control.begin = "started", ~Snapshot.running PROVE ~Alive
    BY DEF NotRunningMeansGone
  <2>1. CASE control.waiter = "none"
    <3>1. Snapshot = MapSnapshot(client)
      BY <2>1 DEF Snapshot
    <3>2. ~client.handle
      BY <3>1, SnapshotType DEF HelperInv, HelperTypeOK
    <3> QED
      BY <3>2 DEF HelperInv, Reach
  <2>2. CASE control.waiter # "none"
    <3>1. Snapshot = control.frozen
      BY <2>2 DEF Snapshot
    <3> QED
      BY <2>2, <3>1 DEF HelperInv, WaitBegun
  <2> QED
    BY <2>1, <2>2
<1> QED
  BY <1>1, InvHolds, PTL

\* Both together, as the runs check them.
THEOREM WriterIsAlwaysKnown == HelperSpec => []WriterIsKnown
BY HelperAlwaysInReach, NotRunningAlwaysMeansGone, PTL DEF WriterIsKnown

(***************************************************************************)
(* The invariant: what the parts know of each other.                       *)
(***************************************************************************)
\* How far the worker is, and what it leaves.
WorkerFacts ==
  /\ helper.pc \in {"none", "boot"} => worker.state = "starting" /\ worker.reason = "none"
  /\ worker.state \in {"publishing", "completed"} => worker.reason = "none"
  /\ worker.state = "failed" => worker.reason # "none"
  /\ output.pcap = "published" =>
       worker.state \in {"publishing", "completed", "threw"} /\ worker.reason = "none"
  /\ output.derivative = "published" => output.pcap = "published"
  /\ worker.state = "completed" => output.pcap = "published" /\ output.derivative # "open"
  /\ worker.state \in {"draining", "publishing", "completed"} /\ worker.reason = "none" =>
       worker.stop

\* A published PCAP and a fault of its run exclude each other.
Tells(r) ==
  r # "none" => /\ helper.pc = "exited" /\ ~helper.zero
                /\ output.pcap = "published" => r \in {"native_or_device_loss", "writer_failure"}

\* A clean exit is one of a clean worker, and a stop is one the application asked for.
ProcessFacts ==
  /\ control.begin = "no" => helper.pc = "none"
  /\ helper.zero => helper.pc = "exited" /\ worker.state = "completed" /\ ~helper.failed
  /\ files.said.fatal # "none" => worker.reason # "none"
  /\ Tells(files.blamed)
  /\ helper.pc \in {"final", "verdict", "error"} =>
       worker.state \in {"completed", "failed", "threw"}
  /\ helper.pc = "error" => ~CleanVerdict
  /\ files.error = "whole" => files.blamed # "none"
  /\ files.stop => control.asked
  /\ parent /\ worker.stop => control.asked \/ helper.failed

\* What a client found in the files is so, and they still say it as long as they are there.
Knows(c) ==
  /\ Tells(c.error)
  /\ c.seen.fatal # "none" =>
       worker.reason # "none" /\ (c.controls => files.said.fatal # "none")

ClientFacts ==
  /\ client.controls => client.handle
  /\ client.ready =>
       /\ control.begin \in {"started", "gone"}
       /\ client.state \in {"Running", "StopRequested", "Completed", "Failed"}
  /\ control.begin = "starting" => client.handle
  /\ control.begin = "started" => client.ready
  /\ client.state \in {"Running", "StopRequested"} => client.handle
  /\ client.state = "Completed" => ~client.handle /\ helper.zero
  /\ Knows(client)

\* A snapshot s that is shown, and what the next look can make of it.
Frozen(s) ==
  /\ s.ready
  /\ s.running => /\ ~s.clean /\ ~s.stopComplete
                  /\ s.fatal # "none" => FatalIssue(client) # "none"
  /\ ~s.running => ~client.handle /\ s = MapSnapshot(client)

StopFacts ==
  /\ ~control.asked => ~control.tried
  /\ ~control.tried => control.waiter = "none" /\ control.begin # "gone"
  /\ control.begin = "started" /\ client.handle =>
       /\ ~control.asked => client.state = "Running"
       /\ ~control.tried \/ control.waiter = "waiting" =>
            client.state \in {"Running", "StopRequested"}
       /\ client.state = "Failed" => client.forced
  /\ control.begin = "started" /\ control.waiter # "none" => Frozen(control.frozen)
  /\ control.begin = "gone" /\ client.ready =>
       control.frozen.ready /\ (~control.frozen.running => ~Alive)

ContractInv == HelperInv /\ WorkerFacts /\ ProcessFacts /\ ClientFacts /\ StopFacts

LEMMA ContractInit == HelperInit => ContractInv
<1> SUFFICES ASSUME HelperInit PROVE ContractInv
  OBVIOUS
<1>1. HelperInv
  BY InvInit
<1> QED
  BY <1>1 DEF HelperInit, NoFiles, NoStatus, ContractInv, WorkerFacts, ProcessFacts, ClientFacts,
       StopFacts, Knows, Tells

(***************************************************************************)
(* The helper process.                                                     *)
(***************************************************************************)
LEMMA ContractWorker == ContractInv /\ WorkerThread => ContractInv'
<1> SUFFICES ASSUME ContractInv, WorkerThread PROVE ContractInv'
  OBVIOUS
<1>1. HelperInv' /\ HelperTypeOK /\ worker \in Worker /\ output \in Output
  BY InvWorker DEF ContractInv, HelperInv, HelperTypeOK
<1>2. WorkerLives /\ UNCHANGED <<parent, files, helper, client, control>>
  BY DEF WorkerThread, WorkerOpens, WorkerRecords, WorkerGivesUpDerivative, WorkerFaults,
         WorkerDrains, WorkerSeals, WorkerPublishes, WorkerThrows, OnlyWorker
<1>3. /\ WorkerFacts'
      /\ worker'.stop = worker.stop
      /\ worker.reason # "none" => worker'.reason # "none"
  <2>0. WorkerFacts /\ "none" \notin Reasons /\ helper.pc \notin {"none", "boot"}
    BY <1>2, ReasonsThere DEF ContractInv, WorkerLives, Alive
  <2> USE <1>1, <1>2, <2>0 DEF WorkerFacts, Worker, Output
  <2>1. CASE WorkerOpens
    BY <2>1 DEF WorkerOpens
  <2>2. CASE WorkerRecords
    BY <2>2 DEF WorkerRecords
  <2>3. CASE WorkerGivesUpDerivative
    BY <2>3 DEF WorkerGivesUpDerivative
  <2>4. CASE WorkerFaults
    BY <2>4, ReasonsThere DEF WorkerFaults
  <2>5. CASE WorkerDrains
    BY <2>5 DEF WorkerDrains
  <2>6. CASE WorkerSeals
    BY <2>6 DEF WorkerSeals
  <2>7. CASE WorkerPublishes
    BY <2>7 DEF WorkerPublishes
  <2>8. CASE WorkerThrows
    BY <2>8 DEF WorkerThrows
  <2> QED
    BY <2>1, <2>2, <2>3, <2>4, <2>5, <2>6, <2>7, <2>8 DEF WorkerThread
<1>4. ProcessFacts' /\ ClientFacts'
  BY <1>2, <1>3 DEF ContractInv, ProcessFacts, ClientFacts, Knows, Tells, WorkerLives, Alive
<1>5. StopFacts'
  BY <1>2 DEF ContractInv, StopFacts, Frozen, MapSnapshot, FatalIssue, IsRunning, Alive
<1> QED
  BY <1>1, <1>3, <1>4, <1>5 DEF ContractInv

\* What a step of the helper process has to keep, beside the worker's facts.
LEMMA HelperStepKeeps ==
  ASSUME ContractInv, HelperInv', UNCHANGED <<parent, output, client, control>>, Alive, Alive' => Alive,
         WorkerFacts', ProcessFacts',
         worker.reason # "none" => worker'.reason # "none",
         files.said.fatal # "none" => files'.said.fatal # "none"
  PROVE  ContractInv'
<1>1. client.error = "none" /\ client.state # "Completed"
  BY DEF ContractInv, HelperInv, Reach, ClientFacts, Knows, Tells, Alive
<1>2. ClientFacts'
  BY <1>1 DEF ContractInv, ClientFacts, Knows, Tells
<1>3. StopFacts'
  BY DEF ContractInv, StopFacts, Frozen, MapSnapshot, FatalIssue, IsRunning
<1> QED
  BY <1>2, <1>3 DEF ContractInv

LEMMA ContractHelper == ContractInv /\ (HelperThread \/ HelperCrashes) => ContractInv'
<1> SUFFICES ASSUME ContractInv, HelperThread \/ HelperCrashes PROVE ContractInv'
  OBVIOUS
<1>1. HelperInv' /\ files \in Files /\ helper \in Helper /\ worker \in Worker
  BY InvHelper DEF ContractInv, HelperInv, HelperTypeOK
<1>2. Alive /\ UNCHANGED <<parent, output, client, control>>
  BY DEF HelperThread, HelperRound, HelperCrashes, HelperBoots, WritesReady, WritesHealth,
         SeesParentGone, SeesStopFile, LoopEnds, FinalHealth, ExitsWithVerdict, StatusFails,
         InLoop, OnlyHelper, Alive
<1>3. /\ WorkerFacts /\ ProcessFacts /\ files.blamed = "none" /\ ~helper.zero
      /\ control.begin # "no" /\ "none" \notin Reasons
  BY <1>1, <1>2, ReasonsThere DEF ContractInv, ProcessFacts, Alive, Tells, Helper
<1>4. /\ WorkerFacts' /\ ProcessFacts'
      /\ worker.reason # "none" => worker'.reason # "none"
      /\ files.said.fatal # "none" => files'.said.fatal # "none"
  <2> USE <1>1, <1>2, <1>3 DEF WorkerFacts, ProcessFacts, Tells, InLoop, Alive
  <2>1. CASE HelperBoots
    BY <2>1 DEF HelperBoots, Helper, Worker, Files, CleanVerdict
  <2>2. CASE WritesReady
    BY <2>2 DEF WritesReady, Files
  <2>3. CASE WritesHealth
    <3>1. /\ files'.said \in {files.said, HealthStatus}
          /\ files'.blamed = files.blamed /\ files'.error = files.error
          /\ files'.stop = files.stop
      BY <2>3 DEF WritesHealth, Files
    <3> QED
      BY <2>3, <3>1 DEF WritesHealth, HealthStatus, CleanVerdict
  <2>4. CASE SeesParentGone
    BY <2>4 DEF SeesParentGone, Helper, Worker
  <2>5. CASE SeesStopFile
    BY <2>5 DEF SeesStopFile, Helper, Worker
  <2>6. CASE LoopEnds
    BY <2>6 DEF LoopEnds, WorkerLives, Helper, Worker
  <2>7. CASE FinalHealth
    <3>1. /\ files'.said \in {files.said, HealthStatus}
          /\ files'.blamed = files.blamed /\ files'.error = files.error
          /\ files'.stop = files.stop
      BY <2>7 DEF FinalHealth, Files
    <3>2. /\ helper.pc = "final" /\ helper'.pc = "verdict" /\ helper'.zero = helper.zero
          /\ helper.failed => helper'.failed
          /\ worker' = worker
      BY <2>7 DEF FinalHealth, Helper
    <3> QED
      BY <3>1, <3>2 DEF HealthStatus
  <2>8. CASE ExitsWithVerdict
    <3>1. /\ helper.pc \in {"verdict", "error"} /\ helper'.pc \in {"error", "exited"}
          /\ helper'.failed = helper.failed
          /\ helper'.zero => helper.pc = "verdict" /\ CleanVerdict /\ helper'.pc = "exited"
          /\ helper'.pc = "error" => ~CleanVerdict
          /\ worker' = worker
      BY <2>8 DEF ExitsWithVerdict, Exits, Helper
    <3>2. /\ files'.said = files.said /\ files'.stop = files.stop
          /\ \/ files'.blamed = files.blamed /\ files'.error \in {files.error, "partial"}
             \/ /\ files'.blamed = Blame /\ helper.pc = "error" /\ helper'.pc = "exited"
                /\ ~helper'.zero
      BY <2>8 DEF ExitsWithVerdict, Exits, Helper, Files
    <3>3. helper.pc = "error" =>
            /\ Blame # "none"
            /\ output.pcap = "published" => Blame \in {"native_or_device_loss", "writer_failure"}
      BY DEF Blame, CleanVerdict
    <3> QED
      BY <3>1, <3>2, <3>3 DEF CleanVerdict
  <2>9. CASE StatusFails
    BY <2>9 DEF StatusFails, Helper, Worker, Files
  <2>10. CASE HelperCrashes
    BY <2>10 DEF HelperCrashes, Exits, Helper
  <2> QED
    BY <2>1, <2>2, <2>3, <2>4, <2>5, <2>6, <2>7, <2>8, <2>9, <2>10 DEF HelperThread, HelperRound
<1> QED
  BY <1>1, <1>2, <1>4, HelperStepKeeps

(***************************************************************************)
(* What the operations of the client learn.                                *)
(***************************************************************************)
\* A snapshot that names a fault goes on naming one.
Faulted(c) ==
  \/ c.error # "none"
  \/ c.health /\ c.seen.fatal # "none"
  \/ c.state = "Failed"

LEMMA FaultedIssue ==
  ASSUME NEW c \in Client
  PROVE  FatalIssue(c) # "none" <=> Faulted(c)
<1>1. \A r \in Reasons : r # "none" /\ IssueOf[r] # "none"
  BY ReasonsThere, HelperAssumption DEF Reasons, AllReasons, IssueOf
<1>2. c.error \in Reasons \cup {"none"} /\ c.seen.fatal \in Reasons \cup {"none"} /\ c.health \in BOOLEAN
  BY DEF Client, Status
<1>3. CASE c.error # "none"
  BY <1>1, <1>2, <1>3 DEF FatalIssue, Faulted
<1>4. CASE c.error = "none" /\ c.health /\ c.seen.fatal # "none"
  BY <1>1, <1>2, <1>4 DEF FatalIssue, Faulted
<1>5. CASE c.error = "none" /\ ~(c.health /\ c.seen.fatal # "none")
  BY <1>5 DEF FatalIssue, Faulted
<1> QED
  BY <1>3, <1>4, <1>5

LEMMA ObservedLearns ==
  ASSUME HelperTypeOK, ProcessFacts, NEW c \in Client, Knows(c), NEW d \in Observed(c)
  PROVE  /\ d \in Client /\ Knows(d)
         /\ d.handle = c.handle /\ d.controls = c.controls /\ d.state = c.state
         /\ d.ready = c.ready /\ d.forced = c.forced
         /\ Faulted(c) => Faulted(d)
         /\ ~c.controls => d = c
<1>1. /\ d \in Client /\ d.handle = c.handle /\ d.controls = c.controls /\ d.state = c.state
      /\ d.ready = c.ready /\ d.forced = c.forced
  BY ObservedKeeps
<1>2. ~c.controls => d = c
  BY DEF Observed
<1>3. ASSUME c.controls
      PROVE  /\ d.error \in {c.error, files.blamed}
             /\ \/ d.health = c.health /\ d.seen = c.seen
                \/ d.health /\ d.seen = files.said
             /\ d.error = c.error \/ files.error = "whole"
  <2> DEFINE h == [c EXCEPT !.health = TRUE, !.seen = files.said]
             named(e) == IF files.error = "whole" THEN {e, [e EXCEPT !.error = files.blamed]} ELSE {e}
  <2>1. d = c \/ d \in named(c) \/ d \in named(h)
    BY <1>3 DEF Observed, HelperTypeOK, Files, Written
  <2>2. h \in Client /\ h.health /\ h.seen = files.said /\ h.error = c.error
    BY DEF HelperTypeOK, Files, Client
  <2>3. ASSUME NEW e \in Client, d \in named(e)
        PROVE  d.error \in {e.error, files.blamed} /\ d.health = e.health /\ d.seen = e.seen
               /\ (d.error = e.error \/ files.error = "whole")
    BY <2>3 DEF Client
  <2> HIDE DEF h, named
  <2> QED
    BY <2>1, <2>2, <2>3
<1>4. Knows(d)
  BY <1>1, <1>2, <1>3 DEF Knows, ProcessFacts, Tells
<1>5. Faulted(c) => Faulted(d)
  BY <1>1, <1>2, <1>3 DEF Faulted, Knows, ProcessFacts
<1> QED
  BY <1>1, <1>2, <1>4, <1>5

LEMMA FinishedLearns ==
  ASSUME ProcessFacts, NEW c \in Client, Knows(c), NEW d, d = FinishExited(c)
  PROVE  /\ d \in Client /\ Knows(d) /\ ~d.handle /\ ~d.controls /\ d.ready = c.ready
         /\ d.state \in {"Completed", "Failed"} /\ (d.state = "Completed" => helper.zero)
         /\ d.error = c.error
         /\ (c.state = "Failed" => c.forced) /\ Faulted(c) => Faulted(d)
BY DEF FinishExited, Client, Knows, Faulted

\* A look at the helper either finds it there or lets go of one that has exited.
LEMMA PolledLearns ==
  ASSUME HelperTypeOK, ProcessFacts, NEW c \in Client, Knows(c), NEW d \in Polled(c)
  PROVE  /\ d \in Client /\ Knows(d) /\ d.ready = c.ready
         /\ \/ /\ d.handle = c.handle /\ d.controls = c.controls /\ d.state = c.state
               /\ d.forced = c.forced
            \/ /\ c.handle /\ helper.pc = "exited" /\ ~d.handle /\ ~d.controls
               /\ d.state \in {"Completed", "Failed"} /\ (d.state = "Completed" => helper.zero)
         /\ (c.state = "Failed" => c.forced) /\ Faulted(c) => Faulted(d)
         /\ ~c.controls /\ ~c.handle => d = c
<1>1. CASE d \in Observed(c)
  BY <1>1, ObservedLearns
<1>2. CASE d \notin Observed(c)
  <2>1. c.handle /\ helper.pc = "exited" /\ d \in UNION {SeesExit(e) : e \in Observed(c)}
    BY <1>2 DEF Polled
  <2>2. PICK e \in Observed(c) : d \in SeesExit(e)
    BY <2>1
  <2>3. e \in Client /\ Knows(e) /\ e.state = c.state /\ e.forced = c.forced /\ e.ready = c.ready
        /\ (Faulted(c) => Faulted(e))
    BY ObservedLearns
  <2>4. PICK f \in Observed(e) : d = FinishExited(f)
    BY <2>2 DEF SeesExit
  <2>5. f \in Client /\ Knows(f) /\ f.state = e.state /\ f.forced = e.forced /\ f.ready = e.ready
        /\ (Faulted(e) => Faulted(f))
    BY <2>3, ObservedLearns
  <2> QED
    BY <2>1, <2>3, <2>4, <2>5, FinishedLearns
<1> QED
  BY <1>1, <1>2

(***************************************************************************)
(* The application's side.                                                 *)
(***************************************************************************)
\* What a step of the application keeps, if it leaves the helper alone or ends it.
LEMMA ClientStepKeeps ==
  ASSUME ContractInv, UNCHANGED <<worker, output>>, parent' => parent,
         \/ UNCHANGED helper
         \/ /\ helper'.pc = "exited" /\ helper'.failed = helper.failed
            /\ helper'.zero => helper.zero /\ helper.pc = "exited"
            /\ helper.pc = "exited" => helper'.zero = helper.zero,
         Knows(client'),
         \/ UNCHANGED files
         \/ files' = NoFiles /\ ~client'.controls
         \/ files' = [files EXCEPT !.stop = TRUE] /\ control'.asked,
         control'.begin # "no", control.asked => control'.asked
  PROVE  WorkerFacts' /\ ProcessFacts' /\ Knows(client)'
<1>1. files \in Files /\ client \in Client
  BY DEF ContractInv, HelperInv, HelperTypeOK
<1>2. WorkerFacts'
  BY DEF ContractInv, WorkerFacts
<1>3. /\ files'.said.fatal # "none" => files.said.fatal # "none"
      /\ files.said.fatal # "none" /\ client'.controls => files'.said.fatal # "none"
      /\ files'.blamed # "none" => files'.blamed = files.blamed
      /\ files'.error = "whole" => files'.error = files.error /\ files'.blamed = files.blamed
      /\ files'.stop => files.stop \/ control'.asked
  BY <1>1 DEF Files, NoFiles, NoStatus
<1>4. ProcessFacts'
  BY <1>3 DEF ContractInv, ProcessFacts, Tells, CleanVerdict
<1>5. Knows(client)'
  BY <1>3 DEF Knows, Tells
<1> QED
  BY <1>2, <1>4, <1>5

LEMMA TerminatedKeeps ==
  ASSUME HelperTypeOK, Terminated
  PROVE  \/ UNCHANGED helper
         \/ /\ helper'.pc = "exited" /\ helper'.failed = helper.failed
            /\ helper'.zero => helper.zero /\ helper.pc = "exited"
            /\ helper.pc = "exited" => helper'.zero = helper.zero
BY DEF HelperTypeOK, Terminated, Helper

LEMMA BecomesFiles ==
  ASSUME NEW c, ClientBecomes(c)
  PROVE  /\ client' = c
         /\ \/ UNCHANGED files
            \/ files' = NoFiles /\ ~client'.controls
<1>1. CASE client.controls /\ ~c.controls
  BY <1>1 DEF ClientBecomes
<1>2. CASE ~(client.controls /\ ~c.controls)
  BY <1>2 DEF ClientBecomes
<1> QED
  BY <1>1, <1>2

\* How a start that goes wrong leaves the client.
LEMMA FailedStartLearns ==
  ASSUME HelperInv, NEW c \in Client, Knows(c), TerminateFailedStart(c)
  PROVE  /\ client'.state = "Failed" /\ client'.ready = c.ready
         /\ client'.controls => client'.handle
         /\ Knows(client')
         /\ \/ UNCHANGED files
            \/ files' = NoFiles /\ ~client'.controls
<1> DEFINE f == [c EXCEPT !.state = "Failed", !.forced = TRUE]
           d == IF helper'.pc = "exited" THEN Cleanup([f EXCEPT !.handle = FALSE]) ELSE Cleanup(f)
<1>1. /\ d.state = "Failed" /\ d.ready = c.ready /\ d.error = c.error /\ d.seen = c.seen
      /\ d.controls => d.handle
      /\ d.controls => c.controls
  BY DEF Cleanup, Client
<1>2. Knows(d)
  BY <1>1 DEF Knows
<1>3. ClientBecomes(d)
  BY DEF TerminateFailedStart
<1> HIDE DEF d
<1> QED
  BY <1>1, <1>2, <1>3, BecomesFiles

LEMMA ContractStart ==
  ContractInv /\ (Launch \/ StartSeesReady \/ StartSeesError \/ StartSeesExit \/ StartGivesUp)
    => ContractInv'
<1> SUFFICES ASSUME ContractInv,
                    Launch \/ StartSeesReady \/ StartSeesError \/ StartSeesExit \/ StartGivesUp
             PROVE  ContractInv'
  OBVIOUS
<1>1. /\ HelperInv' /\ HelperInv /\ HelperTypeOK /\ files \in Files /\ helper \in Helper
      /\ client \in Client /\ control \in Control /\ ProcessFacts /\ Knows(client)
  BY InvStart DEF ContractInv, HelperInv, HelperTypeOK, ClientFacts
<1>2. UNCHANGED <<parent, worker, output>>
  BY DEF Launch, StartSeesReady, StartSeesError, StartSeesExit, StartGivesUp, OnlyClient
<1>3. /\ control.begin \in {"no", "starting"} /\ ~control.asked /\ ~control.tried
      /\ control.waiter = "none" /\ ~client.ready
  BY DEF Launch, StartSeesReady, StartSeesError, StartSeesExit, StartGivesUp, ContractInv,
         HelperInv, WaitBegun, StopFacts, ClientFacts
<1>4. ASSUME NEW how \in {"starting", "started", "failed"}, Starts(how),
             how = "started" => client'.state = "Running",
             how # "started" => ~client'.ready
      PROVE  StopFacts'
  BY <1>1, <1>3, <1>4 DEF Starts, Control, StopFacts
<1>5. CASE Launch
  <2>1. \/ /\ helper' = [helper EXCEPT !.pc = "boot"] /\ client'.handle /\ client'.state = "Starting"
           /\ Starts("starting") /\ client'.controls
        \/ /\ UNCHANGED helper /\ client'.state = "Failed" /\ Starts("failed")
           /\ client'.handle = client.handle /\ client'.controls = client.controls
    BY <1>1, <1>5 DEF Launch, Client
  <2>2. /\ client'.ready = client.ready /\ client'.error = client.error /\ client'.seen = client.seen
        /\ files' = files /\ control.begin = "no" /\ helper.pc = "none"
    BY <1>1, <1>5 DEF Launch, Client, ProcessFacts
  <2>3. ~helper.zero /\ files.blamed = "none" /\ client.error = "none"
    BY <1>1, <2>2 DEF ProcessFacts, Knows, Tells
  <2>4. WorkerFacts' /\ ProcessFacts'
    BY <1>1, <1>2, <2>1, <2>2, <2>3 DEF ContractInv, WorkerFacts, ProcessFacts, Tells, Helper, Starts,
         Control, CleanVerdict
  <2>6. client.seen.fatal = "none"
    BY <1>1, <2>2 DEF ContractInv, WorkerFacts, Knows
  <2>7. ClientFacts'
    <3>1. client.controls => client.handle
      BY DEF ContractInv, ClientFacts
    <3>2. ~client'.ready /\ client'.error = "none" /\ client'.seen.fatal = "none"
      BY <1>3, <2>2, <2>3, <2>6
    <3>3. /\ client'.controls => client'.handle
          /\ control'.begin = "starting" => client'.handle
          /\ control'.begin # "started" /\ client'.state \in {"Starting", "Failed"}
      BY <1>1, <2>1, <3>1 DEF Starts, Control
    <3> QED
      BY <3>2, <3>3 DEF ClientFacts, Knows, Tells
  <2>8. StopFacts'
    BY <1>3, <1>4, <2>1, <2>2
  <2> QED
    BY <1>1, <2>4, <2>7, <2>8 DEF ContractInv
<1>6. CASE StartSeesReady
  <2> DEFINE r == [client EXCEPT !.ready = TRUE, !.state = "Running"]
  <2>1. r \in Client /\ r.handle = client.handle /\ r.controls = client.controls
        /\ r.ready /\ r.state = "Running" /\ Knows(r)
    BY <1>1 DEF Client, Knows
  <2>2. PICK c \in Observed(r) : ClientBecomes(c)
    BY <1>6 DEF StartSeesReady
  <2> HIDE DEF r
  <2>3. /\ c.handle = client.handle /\ c.controls = client.controls /\ c.ready
        /\ c.state = "Running" /\ Knows(c)
    BY <1>1, <2>1, ObservedLearns
  <2>4. /\ client' = c /\ UNCHANGED helper /\ Starts("started") /\ control.begin = "starting"
        /\ \/ UNCHANGED files
           \/ files' = NoFiles /\ ~client'.controls
    BY <1>6, <2>2, BecomesFiles DEF StartSeesReady
  <2>5. control'.begin = "started" /\ control'.asked = control.asked
    BY <1>1, <2>4 DEF Starts, Control
  <2>6. WorkerFacts' /\ ProcessFacts' /\ Knows(client)'
    BY <1>2, <2>3, <2>4, <2>5, ClientStepKeeps
  <2>7. ClientFacts'
    BY <2>3, <2>4, <2>5, <2>6 DEF ContractInv, ClientFacts
  <2>8. StopFacts'
    BY <1>4, <2>3, <2>4
  <2> QED
    BY <1>1, <2>6, <2>7, <2>8 DEF ContractInv
<1>7. ASSUME NEW c \in Client, Knows(c), ~c.ready, control.begin = "starting", Starts("failed"),
             TerminateFailedStart(c)
      PROVE  ContractInv'
  <2>1. /\ client'.state = "Failed" /\ ~client'.ready /\ Knows(client')
        /\ client'.controls => client'.handle
        /\ \/ UNCHANGED files
           \/ files' = NoFiles /\ ~client'.controls
    BY <1>1, <1>7, FailedStartLearns
  <2>2. control'.begin = "failed" /\ control'.asked = control.asked
    BY <1>1, <1>7 DEF Starts, Control
  <2>3. WorkerFacts' /\ ProcessFacts' /\ Knows(client)'
    BY <1>1, <1>2, <1>7, <2>1, <2>2, TerminatedKeeps, ClientStepKeeps DEF TerminateFailedStart
  <2>4. ClientFacts'
    BY <2>1, <2>2, <2>3 DEF ClientFacts
  <2>5. StopFacts'
    BY <1>4, <1>7, <2>1
  <2> QED
    BY <1>1, <2>3, <2>4, <2>5 DEF ContractInv
<1>8. ASSUME NEW c \in Client, Knows(c), ~c.ready, Starts("failed"), UNCHANGED helper,
             ClientBecomes([FinishExited(c) EXCEPT !.state = "Failed"])
      PROVE  ContractInv'
  <2> DEFINE e == [FinishExited(c) EXCEPT !.state = "Failed"]
  <2>1. Knows(e) /\ ~e.handle /\ ~e.controls /\ ~e.ready /\ e.state = "Failed"
    BY <1>8 DEF FinishExited, Knows, Client
  <2> HIDE DEF e
  <2>2. /\ client' = e
        /\ \/ UNCHANGED files
           \/ files' = NoFiles /\ ~client'.controls
    BY <1>8, BecomesFiles DEF e
  <2>3. control'.begin = "failed" /\ control'.asked = control.asked
    BY <1>1, <1>8 DEF Starts, Control
  <2>4. WorkerFacts' /\ ProcessFacts' /\ Knows(client)'
    BY <1>2, <1>8, <2>1, <2>2, <2>3, ClientStepKeeps
  <2>5. ClientFacts'
    BY <2>1, <2>2, <2>3, <2>4 DEF ClientFacts
  <2>6. StopFacts'
    BY <1>4, <1>8, <2>1, <2>2
  <2> QED
    BY <1>1, <2>4, <2>5, <2>6 DEF ContractInv
<1>9. CASE StartSeesError
  <2> DEFINE c == [client EXCEPT !.error = files.blamed]
  <2>1. c \in Client /\ ~c.ready /\ Knows(c)
    BY <1>1, <1>3 DEF Client, Files, Knows, ProcessFacts
  <2>2. /\ control.begin = "starting" /\ Starts("failed")
        /\ \/ UNCHANGED helper /\ ClientBecomes([FinishExited(c) EXCEPT !.state = "Failed"])
           \/ TerminateFailedStart(c)
    BY <1>9 DEF StartSeesError
  <2> HIDE DEF c
  <2> QED
    BY <1>7, <1>8, <2>1, <2>2
<1>10. CASE StartSeesExit
  <2>1. PICK d \in SeesExit(client) : ClientBecomes([d EXCEPT !.state = "Failed"])
    BY <1>10 DEF StartSeesExit
  <2>2. PICK c \in Observed(client) : d = FinishExited(c)
    BY <2>1 DEF SeesExit
  <2>3. c \in Client /\ Knows(c) /\ ~c.ready
    BY <1>1, <1>3, ObservedLearns
  <2> QED
    BY <1>8, <1>10, <2>1, <2>2, <2>3 DEF StartSeesExit
<1>11. CASE StartGivesUp
  BY <1>1, <1>3, <1>7, <1>11 DEF StartGivesUp
<1> QED
  BY <1>5, <1>6, <1>9, <1>10, <1>11

\* What is shown is a snapshot the next look goes on from.
LEMMA ShownFrozen ==
  ASSUME ContractInv, control.begin = "started"
  PROVE  Frozen(Snapshot) /\ Snapshot \in Mapped
<1>1. client \in Client /\ client.ready /\ HelperTypeOK
  BY DEF ContractInv, ClientFacts, HelperInv, HelperTypeOK
<1>2. CASE control.waiter # "none"
  BY <1>1, <1>2, SnapshotMapped DEF ContractInv, StopFacts, Snapshot
<1>3. CASE control.waiter = "none"
  <2>1. Snapshot = MapSnapshot(client)
    BY <1>3 DEF Snapshot
  <2>2. Frozen(MapSnapshot(client))
    BY <1>1 DEF ContractInv, ClientFacts, Frozen, MapSnapshot, IsRunning, Client
  <2> QED
    BY <1>1, <2>1, <2>2, SnapshotMapped
<1> QED
  BY <1>2, <1>3

\* A look at a started helper.
LEMMA LookKeeps ==
  ASSUME ContractInv, control.begin = "started", UNCHANGED <<parent, worker, output, helper>>,
         NEW c \in Polled(client), ClientBecomes(c),
         control'.begin = "started", control'.asked = control.asked
  PROVE  /\ c \in Client /\ client' = c
         /\ WorkerFacts' /\ ProcessFacts' /\ ClientFacts'
         /\ \/ c.handle = client.handle /\ c.state = client.state /\ c.forced = client.forced
            \/ client.handle /\ ~c.handle
         /\ Faulted(client) => Faulted(c)
         /\ ~client.handle => c = client
<1>1. HelperTypeOK /\ ProcessFacts /\ Knows(client) /\ client \in Client /\ ClientFacts
  BY DEF ContractInv, HelperInv, HelperTypeOK, ClientFacts
<1>2. /\ c \in Client /\ Knows(c) /\ c.ready = client.ready
      /\ \/ /\ c.handle = client.handle /\ c.controls = client.controls /\ c.state = client.state
            /\ c.forced = client.forced
         \/ /\ client.handle /\ helper.pc = "exited" /\ ~c.handle /\ ~c.controls
            /\ c.state \in {"Completed", "Failed"} /\ (c.state = "Completed" => helper.zero)
      /\ (client.state = "Failed" => client.forced) /\ Faulted(client) => Faulted(c)
      /\ ~client.controls /\ ~client.handle => c = client
  BY <1>1, PolledLearns
<1>3. /\ client' = c
      /\ \/ UNCHANGED files
         \/ files' = NoFiles /\ ~client'.controls
  BY BecomesFiles
<1>4. WorkerFacts' /\ ProcessFacts' /\ Knows(client)'
  BY <1>2, <1>3, ClientStepKeeps
<1>5. ClientFacts'
  BY <1>1, <1>2, <1>3, <1>4 DEF ClientFacts
<1>6. client.handle /\ client.state = "Failed" => client.forced
  BY DEF ContractInv, StopFacts
<1>7. Faulted(client) => Faulted(c)
  <2>1. CASE client.handle
    BY <1>2, <1>6, <2>1
  <2>2. CASE ~client.handle
    BY <1>1, <1>2, <2>2 DEF ClientFacts
  <2> QED
    BY <2>1, <2>2
<1>8. ~client.handle => c = client
  BY <1>1, <1>2 DEF ClientFacts
<1> QED
  BY <1>2, <1>3, <1>4, <1>5, <1>7, <1>8

LEMMA ContractCalls ==
  ContractInv /\ (TakeSnapshot \/ RequestStop \/ BeginsToWait \/ Destroy \/ ParentExits)
    => ContractInv'
<1> SUFFICES ASSUME ContractInv,
                    TakeSnapshot \/ RequestStop \/ BeginsToWait \/ Destroy \/ ParentExits
             PROVE  ContractInv'
  OBVIOUS
<1>1. /\ HelperInv' /\ HelperInv /\ HelperTypeOK /\ files \in Files /\ helper \in Helper
      /\ client \in Client /\ control \in Control /\ ProcessFacts /\ Knows(client)
      /\ ClientFacts /\ StopFacts
  BY InvCalls DEF ContractInv, HelperInv, HelperTypeOK, ClientFacts
<1>2. CASE TakeSnapshot
  <2>1. PICK c \in Polled(client) : ClientBecomes(c)
    BY <1>2 DEF TakeSnapshot
  <2>2. /\ control.begin = "started" /\ control'.begin = "started" /\ control'.asked = control.asked
        /\ control'.tried = control.tried /\ control'.waiter = "none"
        /\ control.asked = control.tried
        /\ UNCHANGED <<parent, worker, output, helper>>
    BY <1>1, <1>2 DEF TakeSnapshot, OnlyClient, Control
  <2>3. /\ client' = c /\ WorkerFacts' /\ ProcessFacts' /\ ClientFacts'
        /\ \/ c.handle = client.handle /\ c.state = client.state /\ c.forced = client.forced
           \/ client.handle /\ ~c.handle
    BY <2>1, <2>2, LookKeeps
  <2>4. StopFacts'
    BY <1>1, <2>2, <2>3 DEF StopFacts
  <2> QED
    BY <1>1, <2>3, <2>4 DEF ContractInv
<1>3. CASE RequestStop
  <2>1. /\ control' = [control EXCEPT !.asked = TRUE] /\ UNCHANGED <<parent, worker, output, helper>>
        /\ ~control.asked /\ control.begin \in {"started", "failed"}
        /\ \/ /\ client.handle /\ client.ready
              /\ client' = [client EXCEPT !.state = "StopRequested"]
              /\ files' = [files EXCEPT !.stop = TRUE]
           \/ UNCHANGED <<client, files>>
    BY <1>3 DEF RequestStop, OnlyClient
  <2>2. /\ control'.asked /\ control'.begin = control.begin /\ control'.tried = control.tried
        /\ control'.waiter = control.waiter
    BY <1>1, <2>1 DEF Control
  <2>3. /\ client'.handle = client.handle /\ client'.controls = client.controls
        /\ client'.ready = client.ready /\ client'.error = client.error /\ client'.seen = client.seen
        /\ \/ client'.state = "StopRequested" /\ client.handle /\ client.ready
           \/ client' = client
    BY <1>1, <2>1 DEF Client
  <2>4. Knows(client')
    BY <1>1, <2>3 DEF Knows
  <2>5. WorkerFacts' /\ ProcessFacts' /\ Knows(client)'
    BY <1>1, <2>1, <2>2, <2>4, ClientStepKeeps
  <2>6. ClientFacts'
    BY <1>1, <2>1, <2>2, <2>3, <2>5 DEF ClientFacts
  <2>7. StopFacts'
    BY <1>1, <2>1, <2>2, <2>3 DEF StopFacts
  <2> QED
    BY <1>1, <2>5, <2>6, <2>7 DEF ContractInv
<1>4. CASE BeginsToWait
  <2>1. PICK c \in Polled(client), w \in {"none", "waiting"} :
          /\ ClientBecomes(c)
          /\ control' = [control EXCEPT !.tried = TRUE, !.waiter = w,
                           !.frozen = IF w = "none" THEN NotBegun ELSE MapSnapshot(c)]
    BY <1>4 DEF BeginsToWait
  <2>2. /\ control'.begin = control.begin /\ control'.asked = control.asked /\ control.asked
        /\ control'.tried /\ control'.waiter = w
        /\ w # "none" => control'.frozen = MapSnapshot(c)
        /\ UNCHANGED <<parent, worker, output, helper>> /\ ~control.tried /\ parent
    BY <1>1, <1>4, <2>1 DEF BeginsToWait, OnlyClient, Control
  <2>3. CASE control.begin = "started"
    <3>1. /\ client' = c /\ WorkerFacts' /\ ProcessFacts' /\ ClientFacts' /\ c \in Client
          /\ \/ c.handle = client.handle /\ c.state = client.state /\ c.forced = client.forced
             \/ client.handle /\ ~c.handle
      BY <2>1, <2>2, <2>3, LookKeeps
    <3>2. Frozen(MapSnapshot(c))'
      <4>1. /\ MapSnapshot(c).ready /\ MapSnapshot(c).fatal = FatalIssue(c)
            /\ MapSnapshot(c).running => ~MapSnapshot(c).clean /\ ~MapSnapshot(c).stopComplete
            /\ ~MapSnapshot(c).running => ~c.handle
        BY <2>2, <2>3, <3>1 DEF ClientFacts, MapSnapshot, IsRunning
      <4> QED
        BY <3>1, <4>1 DEF Frozen
    <3>3. StopFacts'
      BY <1>1, <2>2, <2>3, <3>1, <3>2 DEF StopFacts
    <3> QED
      BY <1>1, <3>1, <3>3 DEF ContractInv
  <2>4. CASE control.begin # "started"
    <3>1. control.begin = "failed" /\ ~client.ready
      BY <1>1, <2>2, <2>4 DEF StopFacts, ClientFacts, HelperInv, WaitBegun, Control
    <3>2. /\ c \in Client /\ Knows(c) /\ c.ready = client.ready
          /\ \/ /\ c.handle = client.handle /\ c.controls = client.controls /\ c.state = client.state
                /\ c.forced = client.forced
             \/ /\ client.handle /\ helper.pc = "exited" /\ ~c.handle /\ ~c.controls
                /\ c.state \in {"Completed", "Failed"} /\ (c.state = "Completed" => helper.zero)
      BY <1>1, PolledLearns
    <3>3. /\ client' = c
          /\ \/ UNCHANGED files
             \/ files' = NoFiles /\ ~client'.controls
      BY <2>1, BecomesFiles
    <3>4. WorkerFacts' /\ ProcessFacts' /\ Knows(client)'
      BY <2>2, <3>1, <3>2, <3>3, ClientStepKeeps
    <3>5. ClientFacts'
      BY <1>1, <2>2, <3>1, <3>2, <3>3, <3>4 DEF ClientFacts
    <3>6. StopFacts'
      BY <1>1, <2>2, <3>1, <3>2, <3>3 DEF StopFacts
    <3> QED
      BY <1>1, <3>4, <3>5, <3>6 DEF ContractInv
  <2> QED
    BY <2>3, <2>4
<1>5. CASE Destroy
  <2>1. /\ UNCHANGED <<parent, worker, output, files, helper, client>>
        /\ control'.begin = "gone" /\ control'.asked = control.asked /\ control'.tried = control.tried
        /\ control.tried /\ control'.frozen = Snapshot /\ control.begin \in {"started", "failed"}
    BY <1>1, <1>5 DEF Destroy, OnlyClient, Control
  <2>2. WorkerFacts' /\ ProcessFacts' /\ ClientFacts'
    BY <1>1, <2>1 DEF ContractInv, WorkerFacts, ProcessFacts, ClientFacts, Knows, Tells, CleanVerdict
  <2>3. client.ready => Snapshot.ready /\ (~Snapshot.running => ~Alive)
    <3>1. client.ready => control.begin = "started"
      BY <1>1, <2>1 DEF ClientFacts
    <3> QED
      BY <1>1, <3>1, ShownFrozen DEF Frozen, HelperInv, Reach
  <2>4. StopFacts'
    BY <1>1, <2>1, <2>3 DEF StopFacts, Alive
  <2> QED
    BY <1>1, <2>2, <2>4 DEF ContractInv
<1>6. CASE ParentExits
  <2>1. /\ UNCHANGED <<files, worker, output, client, control>> /\ (Alive' => Alive) /\ parent
        /\ \/ UNCHANGED helper
           \/ /\ helper'.pc = "exited" /\ helper'.failed = helper.failed
              /\ helper'.zero => helper.zero /\ helper.pc = "exited"
              /\ helper.pc = "exited" => helper'.zero = helper.zero
        /\ control.begin = "no" => UNCHANGED helper
    BY <1>1, <1>6 DEF ParentExits, Exits, Helper, Alive, ProcessFacts
  <2>2. ProcessFacts' /\ WorkerFacts' /\ ClientFacts'
    BY <1>1, <1>6, <2>1 DEF ParentExits, ContractInv, WorkerFacts, ProcessFacts, ClientFacts, Knows, Tells,
         CleanVerdict
  <2>3. StopFacts'
    BY <1>1, <2>1 DEF StopFacts, Frozen, MapSnapshot, FatalIssue, IsRunning
  <2> QED
    BY <1>1, <2>2, <2>3 DEF ContractInv
<1> QED
  BY <1>2, <1>3, <1>4, <1>5, <1>6

LEMMA ContractWaiter == ContractInv /\ Waiter => ContractInv'
<1> SUFFICES ASSUME ContractInv, Waiter PROVE ContractInv'
  OBVIOUS
<1>1. /\ HelperInv' /\ HelperInv /\ HelperTypeOK /\ files \in Files /\ helper \in Helper
      /\ client \in Client /\ control \in Control /\ ProcessFacts /\ Knows(client)
      /\ ClientFacts /\ StopFacts
  BY InvWaiter DEF ContractInv, HelperInv, HelperTypeOK, ClientFacts
<1>2. /\ UNCHANGED <<parent, worker, output>> /\ control.waiter = "waiting" /\ parent
      /\ \/ Waited
         \/ UNCHANGED control /\ client'.state = "StopRequested"
  BY <1>1 DEF Waiter, WaitIsOver, WaiterWritesStop, WaiterSeesExit, WaiterForces, OnlyClient, Client
<1>3. /\ control'.begin = control.begin /\ control'.asked = control.asked
      /\ control'.tried = control.tried /\ control'.frozen = control.frozen
      /\ control'.waiter \in {"waiting", "done"} /\ control.tried /\ control.asked
      /\ control'.waiter = "waiting" => client'.state = "StopRequested"
      /\ control.begin \in {"started", "failed", "gone"}
  BY <1>1, <1>2 DEF Waited, Control, StopFacts, HelperInv, WaitBegun
\* What is left to show of each case.
<1>4. ASSUME NEW c \in Client, client' = c, Knows(c), c.ready = client.ready,
             c.controls => c.handle,
             c.state \in {"Running", "StopRequested"} => c.handle,
             c.state = "Completed" => ~c.handle /\ helper'.zero,
             c.state \in {"Running", "StopRequested", "Completed", "Failed"} \/ c = client
               \/ c.state = client.state,
             \/ UNCHANGED files
             \/ files' = NoFiles /\ ~client'.controls
             \/ files' = [files EXCEPT !.stop = TRUE] /\ control'.asked,
             \/ UNCHANGED helper
             \/ /\ helper'.pc = "exited" /\ helper'.failed = helper.failed
                /\ helper'.zero => helper.zero /\ helper.pc = "exited"
                /\ helper.pc = "exited" => helper'.zero = helper.zero,
             Alive' => Alive,
             control.begin = "started" =>
               /\ c.handle /\ c.state = "Failed" => c.forced
               /\ Faulted(client) => Faulted(c)
               /\ c.handle => client.handle
               /\ ~client.handle => MapSnapshot(c) = MapSnapshot(client)
      PROVE  ContractInv'
  <2>1. WorkerFacts' /\ ProcessFacts' /\ Knows(client)'
    BY <1>2, <1>3, <1>4, ClientStepKeeps
  <2>2. ClientFacts'
    BY <1>1, <1>3, <1>4, <2>1 DEF ClientFacts
  <2>3. ASSUME control.begin = "started" PROVE Frozen(control.frozen)'
    <3>1. Frozen(control.frozen)
      BY <1>1, <1>2, <2>3 DEF StopFacts
    <3>2. /\ FatalIssue(client) # "none" => FatalIssue(c) # "none"
          /\ ~client.handle => ~c.handle /\ MapSnapshot(c) = MapSnapshot(client)
      BY <1>1, <1>4, <2>3, FaultedIssue
    <3>3. /\ control.frozen.ready
          /\ control.frozen.running => /\ ~control.frozen.clean /\ ~control.frozen.stopComplete
                                       /\ control.frozen.fatal # "none" => FatalIssue(c) # "none"
          /\ ~control.frozen.running => ~c.handle /\ control.frozen = MapSnapshot(c)
      BY <3>1, <3>2 DEF Frozen
    <3> QED
      BY <1>3, <1>4, <3>3 DEF Frozen
  <2>4. StopFacts'
    BY <1>1, <1>3, <1>4, <2>3 DEF StopFacts
  <2> QED
    BY <1>1, <2>1, <2>2, <2>4 DEF ContractInv
<1>5. CASE WaitIsOver
  <2> DEFINE c == Cleanup(client)
  <2>1. /\ c \in Client /\ c.handle = client.handle /\ ~c.handle /\ ~c.controls /\ c.ready = client.ready
        /\ c.state = client.state /\ c.error = client.error /\ c.seen = client.seen
        /\ c.health = client.health
    BY <1>1, <1>5 DEF WaitIsOver, Cleanup, Client
  <2>2. ClientBecomes(c) /\ UNCHANGED helper
    BY <1>5 DEF WaitIsOver
  <2> HIDE DEF c
  <2>3. /\ client' = c
        /\ \/ UNCHANGED files
           \/ files' = NoFiles /\ ~client'.controls
    BY <2>2, BecomesFiles
  <2>4. Knows(c) /\ (Faulted(client) => Faulted(c)) /\ MapSnapshot(c) = MapSnapshot(client)
    BY <1>1, <2>1 DEF Knows, Faulted, MapSnapshot, IsRunning, FatalIssue
  <2> QED
    BY <1>1, <1>4, <2>1, <2>2, <2>3, <2>4 DEF ClientFacts, Alive
<1>6. CASE WaiterWritesStop
  <2> DEFINE c == [client EXCEPT !.state = "StopRequested"]
  <2>1. /\ c \in Client /\ c.handle = client.handle /\ c.handle /\ c.ready = client.ready
        /\ c.controls = client.controls
        /\ c.state = "StopRequested" /\ c.error = client.error /\ c.seen = client.seen
        /\ c.health = client.health
    BY <1>1, <1>6 DEF WaiterWritesStop, Client
  <2>2. client' = c /\ UNCHANGED helper /\ files' = [files EXCEPT !.stop = TRUE]
    BY <1>6 DEF WaiterWritesStop
  <2> HIDE DEF c
  <2>3. control.begin = "started" => client.state # "Failed"
    BY <1>1, <1>2, <2>1 DEF StopFacts
  <2>4. Knows(c) /\ (control.begin = "started" => (Faulted(client) => Faulted(c)))
    BY <1>1, <2>1, <2>3 DEF Knows, Faulted
  <2> QED
    BY <1>1, <1>3, <1>4, <2>1, <2>2, <2>4 DEF ClientFacts, Alive
<1>7. ASSUME NEW c \in Client, Knows(c), c.ready = client.ready, c.handle = client.handle, client.handle,
             control.begin = "started" => (Faulted(client) => Faulted(c)),
             control.begin = "started" => (c.state = "Failed" => c.forced),
             NEW e \in Client, ~e.handle, ~e.controls, e.ready = c.ready, e.error = c.error, e.seen = c.seen,
             e.health = c.health,
             e.state \in {"Completed", "Failed"}, e.state = "Completed" => helper'.zero,
             c.state = "Failed" /\ c.forced => e.state = "Failed",
             ClientBecomes(e), Alive' => Alive,
             \/ UNCHANGED helper
             \/ /\ helper'.pc = "exited" /\ helper'.failed = helper.failed
                /\ helper'.zero => helper.zero /\ helper.pc = "exited"
                /\ helper.pc = "exited" => helper'.zero = helper.zero
      PROVE  ContractInv'
  <2>1. /\ client' = e
        /\ \/ UNCHANGED files
           \/ files' = NoFiles /\ ~client'.controls
    BY <1>7, BecomesFiles
  <2>2. Knows(e) /\ (control.begin = "started" => (Faulted(c) => Faulted(e)))
    BY <1>7 DEF Knows, Faulted
  <2> QED
    BY <1>4, <1>7, <2>1, <2>2
<1>8. CASE WaiterSeesExit
  <2>1. PICK e \in SeesExit(client) : ClientBecomes(e)
    BY <1>8 DEF WaiterSeesExit
  <2>2. PICK c \in Observed(client) : e = FinishExited(c)
    BY <2>1 DEF SeesExit
  <2>3. client.handle /\ UNCHANGED helper
    BY <1>8 DEF WaiterSeesExit
  <2>4. /\ c \in Client /\ Knows(c) /\ c.ready = client.ready /\ c.handle = client.handle
        /\ c.state = client.state /\ c.forced = client.forced /\ (Faulted(client) => Faulted(c))
    BY <1>1, ObservedLearns
  <2>5. control.begin = "started" => (c.state = "Failed" => c.forced)
    BY <1>1, <2>3, <2>4 DEF StopFacts
  <2>6. /\ e \in Client /\ ~e.handle /\ ~e.controls /\ e.ready = c.ready /\ e.error = c.error
        /\ e.seen = c.seen /\ e.health = c.health /\ e.state \in {"Completed", "Failed"}
        /\ e.state = "Completed" => helper.zero
        /\ c.forced => e.state = "Failed"
    BY <2>2, <2>4 DEF FinishExited, Client
  <2> QED
    BY <1>7, <2>1, <2>3, <2>4, <2>5, <2>6 DEF Alive
<1>9. CASE WaiterForces
  <2> DEFINE f == [client EXCEPT !.forced = TRUE, !.state = "Failed"]
  <2>1. /\ \/ UNCHANGED helper
           \/ /\ helper'.pc = "exited" /\ helper'.failed = helper.failed
              /\ helper'.zero => helper.zero /\ helper.pc = "exited"
              /\ helper.pc = "exited" => helper'.zero = helper.zero
        /\ Alive' => Alive
    BY <1>1, <1>9, TerminatedKeeps, TerminatedHelper DEF WaiterForces
  <2>2. f \in Client /\ f.handle = client.handle /\ f.controls = client.controls
        /\ f.ready = client.ready /\ f.state = "Failed" /\ f.forced /\ Knows(f) /\ client.handle
        /\ Faulted(f)
    BY <1>1, <1>9 DEF WaiterForces, Client, Knows, Faulted
  <2>3. IF helper'.pc = "exited"
          THEN \E c \in Observed(f) : ClientBecomes([FinishExited(c) EXCEPT !.state = "Failed"])
          ELSE ClientBecomes(f)
    BY <1>9 DEF WaiterForces
  <2> HIDE DEF f
  <2>4. CASE helper'.pc = "exited"
    <3>1. PICK c \in Observed(f) : ClientBecomes([FinishExited(c) EXCEPT !.state = "Failed"])
      BY <2>3, <2>4
    <3> DEFINE e == [FinishExited(c) EXCEPT !.state = "Failed"]
    <3>2. /\ c \in Client /\ Knows(c) /\ c.ready = client.ready /\ c.handle = client.handle
          /\ c.state = "Failed" /\ c.forced /\ Faulted(c)
      BY <1>1, <2>2, ObservedLearns
    <3>3. /\ e \in Client /\ ~e.handle /\ ~e.controls /\ e.ready = c.ready /\ e.error = c.error
          /\ e.seen = c.seen /\ e.health = c.health /\ e.state = "Failed"
      BY <3>2 DEF FinishExited, Client
    <3>4. ClientBecomes(e)
      BY <3>1
    <3> HIDE DEF e
    <3> QED
      BY <1>7, <2>1, <2>2, <3>2, <3>3, <3>4
  <2>5. CASE helper'.pc # "exited"
    <3>1. /\ client' = f
          /\ \/ UNCHANGED files
             \/ files' = NoFiles /\ ~client'.controls
      BY <2>3, <2>5, BecomesFiles
    <3>2. f.controls => f.handle
      BY <1>1, <2>2 DEF ClientFacts
    <3> QED
      BY <1>4, <2>1, <2>2, <3>1, <3>2
  <2> QED
    BY <2>4, <2>5
<1> QED
  BY <1>5, <1>6, <1>8, <1>9 DEF Waiter

LEMMA ContractNext == ContractInv /\ [HelperNext]_helperVars => ContractInv'
<1>1. ContractInv /\ UNCHANGED helperVars => ContractInv'
  BY DEF helperVars, ContractInv, HelperInv, HelperTypeOK, Reach, WaitBegun, Alive, WorkerFacts, ProcessFacts,
         ClientFacts, StopFacts, Knows, Tells, CleanVerdict, Frozen, MapSnapshot, FatalIssue, IsRunning
<1> QED
  BY <1>1, ContractWorker, ContractHelper, ContractStart, ContractCalls, ContractWaiter
  DEF HelperNext, Application, Over

LEMMA ContractHolds == HelperSpec => []ContractInv
BY ContractInit, ContractNext, PTL DEF HelperSpec

(***************************************************************************)
(* The contract. It sees nothing before the start has succeeded, then what *)
(* a snapshot says and what is in the capture directory.                   *)
(***************************************************************************)
Shows == control.begin \in {"started", "gone"} /\ client.ready

Unseen ==
  [ready |-> FALSE, running |-> TRUE, stopAsked |-> FALSE, stopComplete |-> FALSE,
   clean |-> FALSE, fatal |-> "none", pcap |-> "partial", records |-> FALSE,
   derivative |-> "open"]

\* What the contract sees of a snapshot s, a request a, and the directory o.
Told(s, a, o) ==
  [ready |-> s.ready, running |-> s.running, stopAsked |-> a,
   stopComplete |-> s.stopComplete, clean |-> s.clean, fatal |-> s.fatal,
   pcap |-> IF s.running THEN "partial" ELSE o.pcap,
   records |-> o.records,
   derivative |-> IF s.running /\ o.derivative = "published" THEN "open" ELSE o.derivative]

LEMMA SeenIs ==
  ASSUME HelperTypeOK
  PROVE  Seen = IF Shows THEN Told(Snapshot, control.asked, output) ELSE Unseen
<1>1. control.begin \in {"no", "starting", "started", "failed", "gone"}
  BY DEF HelperTypeOK, Control
<1>2. CASE Shows
  BY <1>1, <1>2 DEF Seen, Told, Shows
<1>3. CASE ~Shows
  BY <1>1, <1>3 DEF Seen, Unseen, Shows
<1> QED
  BY <1>2, <1>3

LEMMA SeenIsNext ==
  ASSUME HelperTypeOK'
  PROVE  Seen' = IF Shows' THEN Told(Snapshot', control'.asked, output') ELSE Unseen
<1>1. control'.begin \in {"no", "starting", "started", "failed", "gone"}
  BY DEF HelperTypeOK, Control
<1>2. CASE Shows'
  BY <1>1, <1>2 DEF Seen, Told, Shows
<1>3. CASE ~Shows'
  BY <1>1, <1>3 DEF Seen, Unseen, Shows
<1> QED
  BY <1>2, <1>3

LEMMA ToldType ==
  ASSUME NEW s \in Mapped, NEW a \in BOOLEAN, NEW o \in Output
  PROVE  Told(s, a, o) \in Contract!Capture
<1>1. /\ s.ready \in BOOLEAN /\ s.running \in BOOLEAN /\ s.stopComplete \in BOOLEAN
      /\ s.clean \in BOOLEAN /\ s.fatal \in Issues \cup {"none"}
      /\ o.records \in BOOLEAN
  BY DEF Mapped, Output, Issues
<1>2. /\ (IF s.running THEN "partial" ELSE o.pcap) \in {"partial", "published"}
      /\ (IF s.running /\ o.derivative = "published" THEN "open" ELSE o.derivative)
           \in {"open", "given_up", "published"}
  BY DEF Output
<1> QED
  BY <1>1, <1>2 DEF Told, Contract!Capture, Issues

LEMMA SameCapture ==
  ASSUME NEW x \in Contract!Capture, NEW y \in Contract!Capture,
         x.ready = y.ready, x.running = y.running, x.stopAsked = y.stopAsked,
         x.stopComplete = y.stopComplete, x.clean = y.clean, x.fatal = y.fatal,
         x.pcap = y.pcap, x.records = y.records, x.derivative = y.derivative
  PROVE  x = y
BY DEF Contract!Capture

\* A step of the contract, or none.
Allowed == \/ Contract!CaptureStep
           \/ Contract!CaptureAsked
           \/ UNCHANGED Seen

LEMMA StayingIsAllowed ==
  ASSUME HelperTypeOK, HelperTypeOK', Shows' <=> Shows,
         Shows => /\ Snapshot' = Snapshot /\ control'.asked = control.asked
                  /\ output' = output
  PROVE  Allowed
BY SeenIs, SeenIsNext DEF Allowed

LEMMA InitIsAllowed == HelperInit => Contract!CaptureInit
<1> SUFFICES ASSUME HelperInit PROVE Contract!CaptureInit
  OBVIOUS
<1>1. HelperTypeOK /\ ~Shows
  BY InvInit DEF HelperInit, HelperInv, Shows
<1> QED
  BY <1>1, SeenIs DEF Unseen, Contract!CaptureInit

\* The worker's steps are seen as far as they are published to the directory.
LEMMA WorkerIsAllowed ==
  ASSUME ContractInv, WorkerThread
  PROVE  Allowed
<1>1. /\ HelperTypeOK /\ HelperTypeOK' /\ output \in Output
      /\ WorkerLives /\ UNCHANGED <<parent, files, helper, client, control>>
  BY InvWorker DEF ContractInv, HelperInv, HelperTypeOK, WorkerThread, WorkerOpens, WorkerRecords,
         WorkerGivesUpDerivative, WorkerFaults, WorkerDrains, WorkerSeals, WorkerPublishes,
         WorkerThrows, OnlyWorker
<1>2. (Shows' <=> Shows) /\ Snapshot' = Snapshot /\ control' = control
  BY <1>1 DEF Shows, Snapshot, MapSnapshot, IsRunning, FatalIssue
<1>3. CASE ~Shows
  BY <1>1, <1>2, <1>3, StayingIsAllowed
<1>4. CASE Shows
  <2>1. Snapshot.ready /\ Snapshot.running /\ Snapshot \in Mapped
    <3>1. CASE control.begin = "started"
      BY <1>1, <3>1, ShownFrozen DEF Frozen, ContractInv, HelperInv, Reach, WorkerLives, Mapped
    <3>2. CASE control.begin # "started"
      BY <1>1, <1>4, <3>2, SnapshotMapped DEF Shows, ContractInv, StopFacts, Snapshot, WorkerLives, Mapped
    <3> QED
      BY <3>1, <3>2
  <2> DEFINE a == control.asked
             s == Snapshot
  <2>2. Seen = Told(s, a, output) /\ Seen' = Told(s, a, output')
    BY <1>1, <1>2, <1>4, SeenIs, SeenIsNext
  <2>3. \/ output' = output
        \/ output' = [output EXCEPT !.records = TRUE] /\ ~output.records
        \/ output' = [output EXCEPT !.derivative = "given_up"] /\ output.derivative = "open"
        \/ output' = [output EXCEPT !.pcap = "published"]
        \/ output' = [output EXCEPT !.derivative = IF @ = "open" THEN "published" ELSE @]
    BY DEF WorkerThread, WorkerOpens, WorkerRecords, WorkerGivesUpDerivative, WorkerFaults,
           WorkerDrains, WorkerSeals, WorkerPublishes, WorkerThrows
  <2>4. s.ready /\ s.running
    BY <2>1
  <2> HIDE DEF s, a
  <2>5. s \in Mapped /\ a \in BOOLEAN /\ output' \in Output
    BY <1>1, <2>1 DEF s, a, HelperTypeOK, Control
  <2> DEFINE old == Told(s, a, output)
             new == Told(s, a, output')
  <2>6. old \in Contract!Capture /\ new \in Contract!Capture
    BY <1>1, <2>5, ToldType
  <2>7. CASE output' = [output EXCEPT !.records = TRUE] /\ ~output.records
    <3>1. new = [old EXCEPT !.records = TRUE]
      <4> DEFINE x == [old EXCEPT !.records = TRUE]
      <4>1. x \in Contract!Capture
        BY <2>6 DEF Contract!Capture
      <4>2. output'.pcap = output.pcap /\ output'.records = TRUE /\ output'.derivative = output.derivative
        BY <1>1, <2>7 DEF Output
      <4>3. /\ x.ready = s.ready /\ x.running = s.running /\ x.stopAsked = a
            /\ x.stopComplete = s.stopComplete /\ x.clean = s.clean /\ x.fatal = s.fatal
            /\ x.pcap = old.pcap /\ x.derivative = old.derivative
        BY DEF Told
      <4>4. x.records = TRUE
        BY DEF Told
      <4>5. /\ new.ready = s.ready /\ new.running = s.running /\ new.stopAsked = a
            /\ new.stopComplete = s.stopComplete /\ new.clean = s.clean /\ new.fatal = s.fatal
            /\ new.pcap = old.pcap /\ new.derivative = old.derivative
        BY <4>2 DEF Told
      <4>6. new.records = TRUE
        BY <4>2 DEF Told
      <4> HIDE DEF x, new, old
      <4>7. new = x
        BY <2>6, <4>1, <4>3, <4>4, <4>5, <4>6, SameCapture
      <4> QED
        BY <4>7 DEF x
    <3>2. old.running /\ old.ready /\ ~old.records
      BY <2>4, <2>7 DEF Told
    <3> QED
      BY <2>2, <3>1, <3>2 DEF Allowed, Contract!CaptureStep, Contract!CaptureRecords
  <2>8. CASE output' = [output EXCEPT !.derivative = "given_up"] /\ output.derivative = "open"
    <3>1. new = [old EXCEPT !.derivative = "given_up"]
      <4>1. [old EXCEPT !.derivative = "given_up"] \in Contract!Capture
        BY <2>6 DEF Contract!Capture
      <4>2. output'.pcap = output.pcap /\ output'.records = output.records /\ output'.derivative = "given_up"
        BY <1>1, <2>8 DEF Output
      <4> QED
        BY <2>6, <4>1, <4>2, SameCapture DEF Told
    <3>2. old.running /\ old.ready /\ old.derivative = "open"
      BY <2>4, <2>8 DEF Told
    <3> QED
      BY <2>2, <3>1, <3>2 DEF Allowed, Contract!CaptureStep, Contract!DerivativeGivenUp
  <2>9. CASE output' = [output EXCEPT !.pcap = "published"]
    BY <1>1, <2>2, <2>4, <2>9 DEF Told, Output, Allowed
  <2>10. CASE output' = [output EXCEPT !.derivative = IF @ = "open" THEN "published" ELSE @]
    BY <1>1, <2>2, <2>4, <2>10 DEF Told, Output, Allowed
  <2> QED
    BY <2>2, <2>3, <2>7, <2>8, <2>9, <2>10 DEF Allowed
<1> QED
  BY <1>3, <1>4

\* A look at a started helper: it goes on, it names a fault, or it has ended.
LEMMA LookIsAllowed ==
  ASSUME ContractInv, ContractInv', control.begin = "started", control'.begin = "started",
         control'.asked = control.asked, output' = output, parent,
         UNCHANGED <<parent, worker, helper>>,
         NEW c \in Client, client' = c, Snapshot' = MapSnapshot(c),
         Faulted(client) => Faulted(c), ~client.handle => c = client
  PROVE  Allowed
<1> DEFINE s == Snapshot
           t == MapSnapshot(c)
           a == control.asked
           old == Told(s, a, output)
           new == Told(t, a, output)
<1>1. /\ HelperTypeOK /\ HelperTypeOK' /\ output \in Output /\ a \in BOOLEAN /\ client \in Client
      /\ s \in Mapped /\ t \in Mapped /\ Frozen(s)
  BY ShownFrozen, SnapshotType DEF ContractInv, HelperInv, HelperTypeOK, Control
<1>2. Shows /\ Shows'
  BY DEF ContractInv, ClientFacts, Shows
<1>3. Seen = old /\ Seen' = new
  BY <1>1, <1>2, SeenIs, SeenIsNext
<1>4. /\ c.ready /\ c.state \in {"Running", "StopRequested", "Completed", "Failed"}
      /\ c.state \in {"Running", "StopRequested"} => c.handle
      /\ c.state = "Completed" => ~c.handle /\ helper.zero
      /\ Knows(client)'
  BY DEF ContractInv, ClientFacts
<1>5. /\ t.ready = TRUE /\ t.running = c.handle /\ t.fatal = FatalIssue(c)
      /\ t.stopComplete = ~c.handle
      /\ t.clean => c.state = "Completed"
      /\ c.handle \in BOOLEAN
  BY <1>4 DEF MapSnapshot, IsRunning, Client
<1>6. s.ready = TRUE
  BY <1>1 DEF Frozen, Mapped
<1>7. CASE ~s.running
  <2>1. t = s
    BY <1>1, <1>7 DEF Frozen
  <2> QED
    BY <1>3, <2>1 DEF Allowed
<1>8. ASSUME s.running
      PROVE  /\ s.running = TRUE /\ s.clean = FALSE /\ s.stopComplete = FALSE
             /\ s.fatal # "none" => t.fatal # "none"
  <2>1. FatalIssue(client) # "none" => FatalIssue(c) # "none"
    BY <1>1, FaultedIssue
  <2> QED
    BY <1>1, <1>5, <1>8, <2>1 DEF Frozen, Mapped
<1>9. old \in Contract!Capture /\ new \in Contract!Capture
  BY <1>1, ToldType
<1>10. /\ old.ready = s.ready /\ old.running = s.running /\ old.stopAsked = a
       /\ old.stopComplete = s.stopComplete /\ old.clean = s.clean /\ old.fatal = s.fatal
       /\ old.records = output.records
       /\ s.running => /\ old.pcap = "partial"
                       /\ old.derivative = IF output.derivative = "published" THEN "open"
                                           ELSE output.derivative
  BY DEF Told
<1>11. /\ new.ready = t.ready /\ new.running = t.running /\ new.stopAsked = a
       /\ new.stopComplete = t.stopComplete /\ new.clean = t.clean /\ new.fatal = t.fatal
       /\ new.records = output.records
       /\ t.running => /\ new.pcap = "partial"
                       /\ new.derivative = IF output.derivative = "published" THEN "open"
                                           ELSE output.derivative
       /\ ~t.running => new.pcap = output.pcap /\ new.derivative = output.derivative
  BY DEF Told
<1>12. t.fatal \in Issues \cup {"none"} /\ t.clean \in BOOLEAN
  BY <1>1 DEF Mapped, Issues
<1> HIDE DEF s, t, a, old, new
<1>13. CASE s.running /\ t.running
  <2>1. /\ old.ready = TRUE /\ old.running = TRUE /\ old.stopComplete = FALSE /\ old.clean = FALSE
        /\ new.ready = TRUE /\ new.running = TRUE /\ new.stopComplete = FALSE /\ new.clean = FALSE
        /\ new.stopAsked = old.stopAsked /\ new.records = old.records /\ new.pcap = old.pcap
        /\ new.derivative = old.derivative
    BY <1>4, <1>5, <1>6, <1>8, <1>10, <1>11, <1>12, <1>13
  <2>2. CASE t.fatal = "none"
    <3>1. new.fatal = old.fatal
      BY <1>8, <1>10, <1>11, <1>13, <2>2
    <3>2. new = old
      BY <1>9, <2>1, <3>1, SameCapture
    <3> QED
      BY <1>3, <3>2 DEF Allowed
  <2>3. CASE t.fatal # "none"
    <3> DEFINE x == [old EXCEPT !.fatal = t.fatal]
    <3>1. /\ x.ready = old.ready /\ x.running = old.running /\ x.stopAsked = old.stopAsked
          /\ x.stopComplete = old.stopComplete /\ x.clean = old.clean /\ x.fatal = t.fatal
          /\ x.pcap = old.pcap /\ x.records = old.records /\ x.derivative = old.derivative
          /\ x \in Contract!Capture
      BY <1>9, <1>12 DEF Contract!Capture, Issues
    <3> HIDE DEF x
    <3>2. /\ new.ready = x.ready /\ new.running = x.running /\ new.stopAsked = x.stopAsked
          /\ new.stopComplete = x.stopComplete /\ new.clean = x.clean /\ new.fatal = x.fatal
          /\ new.pcap = x.pcap /\ new.records = x.records /\ new.derivative = x.derivative
      BY <1>11, <2>1, <3>1
    <3>3. new = x
      BY <1>9, <3>1, <3>2, SameCapture
    <3>4. Contract!CaptureFaultReported
      BY <1>3, <1>12, <2>1, <2>3, <3>3 DEF x, Contract!CaptureFaultReported, Issues
    <3> QED
      BY <3>4 DEF Allowed, Contract!CaptureStep
  <2> QED
    BY <2>2, <2>3
<1>14. CASE s.running /\ ~t.running /\ c.state = "Completed"
  <2>1. /\ worker.state = "completed" /\ worker.reason = "none" /\ worker.stop /\ ~helper.failed
        /\ output.pcap = "published" /\ output.derivative \in {"given_up", "published"}
    BY <1>1, <1>4, <1>14 DEF ContractInv, ProcessFacts, WorkerFacts, Output
  <2>2. a = TRUE
    BY <1>1, <2>1 DEF ContractInv, ProcessFacts, a
  <2>3. t.fatal = "none" /\ s.fatal = "none"
    <3>1. c.error = "none" /\ c.seen.fatal = "none"
      BY <1>4, <1>14, <2>1 DEF Knows, Tells
    <3>2. ~Faulted(c)
      BY <1>14, <3>1 DEF Faulted
    <3>3. t.fatal = "none"
      BY <1>5, <3>2, FaultedIssue
    <3> QED
      BY <1>8, <1>14, <3>3
  <2> DEFINE kept == old.derivative
             d == IF kept = "open" THEN "published" ELSE kept
             x == [old EXCEPT !.running = FALSE, !.stopComplete = TRUE, !.clean = t.clean,
                              !.pcap = "published", !.derivative = d]
  <2>kept. d \in {"open", "given_up", "published", "set_aside"}
    BY <1>9 DEF Contract!Capture
  <2>4. /\ x.ready = old.ready /\ x.running = FALSE /\ x.stopAsked = old.stopAsked
        /\ x.stopComplete = TRUE /\ x.clean = t.clean /\ x.fatal = old.fatal
        /\ x.pcap = "published" /\ x.records = old.records
        /\ x.derivative = d
        /\ x \in Contract!Capture
    <3> HIDE DEF d
    <3> QED
      BY <1>9, <1>12, <2>kept DEF Contract!Capture
  <2> HIDE DEF x
  <2>5. /\ new.ready = old.ready /\ new.running = FALSE /\ new.stopAsked = old.stopAsked
        /\ new.stopComplete = TRUE /\ new.clean = t.clean /\ new.fatal = old.fatal
        /\ new.pcap = "published" /\ new.records = old.records
        /\ new.derivative = d
    BY <1>5, <1>6, <1>10, <1>11, <1>14, <2>1, <2>3
  <2>6. new = x
    BY <1>9, <2>4, <2>5, SameCapture
  <2>7. old.running /\ old.stopAsked /\ old.fatal = "none"
    BY <1>10, <1>14, <2>2, <2>3
  <2>8. Contract!CaptureStops
    BY <1>3, <1>12, <2>6, <2>7 DEF x, Contract!CaptureStops
  <2> QED
    BY <2>8 DEF Allowed, Contract!CaptureStep, Contract!CaptureEnds
<1>15. CASE s.running /\ ~t.running /\ c.state # "Completed"
  <2>1. c.state = "Failed" /\ ~c.handle /\ t.stopComplete = TRUE /\ t.clean = FALSE
        /\ t.running = FALSE
    BY <1>4, <1>5, <1>12, <1>15
  <2>2. t.fatal # "none"
    BY <1>5, <2>1, FaultedIssue DEF Faulted
  <2>3. output.pcap = "published" => t.fatal \in {"capture_helper_lost", "storage_write_failed"}
    <3> SUFFICES ASSUME output.pcap = "published"
                 PROVE  t.fatal \in {"capture_helper_lost", "storage_write_failed"}
      OBVIOUS
    <3>1. worker.reason = "none"
      BY DEF ContractInv, WorkerFacts
    <3>2. c.seen.fatal = "none" /\ c.error \in {"none", "native_or_device_loss", "writer_failure"}
      BY <1>4, <3>1 DEF Knows, Tells
    <3>3. IssueOf["native_or_device_loss"] = "capture_helper_lost"
          /\ IssueOf["writer_failure"] = "storage_write_failed"
      BY DEF IssueOf
    <3>4. CASE c.error = "none"
      BY <1>5, <2>1, <3>2, <3>4 DEF FatalIssue
    <3>5. CASE c.error # "none"
      BY <1>5, <3>2, <3>3, <3>5 DEF FatalIssue
    <3> QED
      BY <3>4, <3>5
  <2> DEFINE x == [old EXCEPT !.running = FALSE, !.stopComplete = TRUE, !.fatal = t.fatal,
                              !.pcap = output.pcap, !.derivative = output.derivative]
  <2>4. /\ x.ready = old.ready /\ x.running = FALSE /\ x.stopAsked = old.stopAsked
        /\ x.stopComplete = TRUE /\ x.clean = old.clean /\ x.fatal = t.fatal
        /\ x.pcap = output.pcap /\ x.records = old.records /\ x.derivative = output.derivative
        /\ x \in Contract!Capture
    BY <1>1, <1>9, <1>12 DEF Contract!Capture, Output, Issues
  <2> HIDE DEF x
  <2>5. /\ new.ready = old.ready /\ new.running = FALSE /\ new.stopAsked = old.stopAsked
        /\ new.stopComplete = TRUE /\ new.clean = old.clean /\ new.fatal = t.fatal
        /\ new.pcap = output.pcap /\ new.records = old.records /\ new.derivative = output.derivative
    BY <1>5, <1>6, <1>8, <1>10, <1>11, <1>15, <2>1
  <2>6. new = x
    BY <1>9, <2>4, <2>5, SameCapture
  <2>7. output.derivative = "published" => output.pcap = "published" /\ old.derivative = "open"
    BY <1>10, <1>15 DEF ContractInv, WorkerFacts
  <2>8. /\ output.pcap \in {"partial", "published"}
        /\ output.derivative \in {old.derivative, "published"}
        /\ output.pcap = "published" => t.fatal \notin Contract!ObservedFaults
        /\ output.derivative = "published" => output.pcap = "published" /\ old.derivative = "open"
        /\ t.fatal \in Issues \cup {"capture_helper_lost"} /\ old.running
    BY <1>1, <1>10, <1>12, <1>15, <2>2, <2>3, <2>7 DEF Output, Contract!ObservedFaults
  <2>9. Contract!CaptureFails
    BY <1>3, <2>6, <2>8 DEF x, Contract!CaptureFails, Issues
  <2> QED
    BY <2>9 DEF Allowed, Contract!CaptureStep, Contract!CaptureEnds
<1> QED
  BY <1>7, <1>13, <1>14, <1>15

LEMMA HelperIsAllowed ==
  ASSUME ContractInv, HelperThread \/ HelperCrashes
  PROVE  Allowed
<1>1. /\ UNCHANGED <<output, client, control>> /\ HelperTypeOK /\ HelperTypeOK'
  BY InvHelper DEF ContractInv, HelperInv, HelperThread, HelperRound, HelperCrashes, HelperBoots,
     WritesReady, WritesHealth, SeesParentGone, SeesStopFile, LoopEnds, FinalHealth,
     ExitsWithVerdict, StatusFails, InLoop, OnlyHelper
<1> QED
  BY <1>1, StayingIsAllowed DEF Shows, Snapshot, MapSnapshot, IsRunning, FatalIssue

LEMMA StartIsAllowed ==
  ASSUME ContractInv,
         Launch \/ StartSeesReady \/ StartSeesError \/ StartSeesExit \/ StartGivesUp
  PROVE  Allowed
<1>1. /\ ContractInv' /\ HelperTypeOK /\ HelperTypeOK' /\ client \in Client /\ client' \in Client
      /\ control \in Control /\ output \in Output
  BY ContractStart DEF ContractInv, HelperInv, HelperTypeOK
<1>2. ~Shows /\ UNCHANGED <<worker, output>> /\ ~control.asked /\ control.waiter = "none"
  BY DEF Shows, ContractInv, HelperInv, WaitBegun, Launch, StartSeesReady, StartSeesError,
         StartSeesExit, StartGivesUp, OnlyClient
<1>3. CASE ~Shows'
  BY <1>1, <1>2, <1>3, StayingIsAllowed
<1>4. CASE Shows'
  <2>1. StartSeesReady
    BY <1>1, <1>4 DEF Shows, Starts, Control, Launch, StartSeesError, StartSeesExit, StartGivesUp
  <2> DEFINE c == client'
             t == MapSnapshot(c)
             new == Told(t, FALSE, output)
  <2>2. control'.begin = "started" /\ control'.waiter = "none" /\ control'.asked = FALSE
        /\ Starts("started")
    BY <1>1, <1>2, <2>1 DEF StartSeesReady, Starts, Control
  <2>3. Snapshot' = t
    BY <2>2 DEF Snapshot, MapSnapshot, IsRunning, FatalIssue
  <2>4. Seen = Unseen /\ Seen' = new
    BY <1>1, <1>2, <1>4, <2>2, <2>3, SeenIs, SeenIsNext
  <2>5. c.state = "Running" /\ c.handle /\ c.ready
    <3> DEFINE r == [client EXCEPT !.ready = TRUE, !.state = "Running"]
    <3>1. r \in Client /\ r.state = "Running" /\ r.ready
      BY <1>1 DEF Client
    <3>2. PICK d \in Observed(r) : ClientBecomes(d)
      BY <2>1 DEF StartSeesReady
    <3> HIDE DEF r
    <3>3. d.state = "Running" /\ d.ready
      BY <1>1, <3>1, ObservedKeeps
    <3>4. c = d
      BY <3>2 DEF ClientBecomes
    <3> QED
      BY <1>1, <3>3, <3>4 DEF ContractInv, ClientFacts
  <2>6. t \in Mapped /\ t.ready = TRUE /\ t.running = TRUE /\ t.stopComplete = FALSE /\ t.clean = FALSE
    BY <1>1, <2>5, SnapshotType DEF MapSnapshot, IsRunning, Client
  <2>7. t.fatal \in Issues \cup {"none"}
    BY <2>6 DEF Mapped, Issues
  <2> DEFINE kept == IF output.derivative = "published" THEN "open" ELSE output.derivative
             some == output.records
  <2>8. kept \in {"open", "given_up"} /\ some \in BOOLEAN
    BY <1>1 DEF Output
  <2>9. /\ new.ready = TRUE /\ new.running = TRUE /\ new.stopAsked = FALSE
        /\ new.stopComplete = FALSE /\ new.clean = FALSE /\ new.fatal = t.fatal
        /\ new.pcap = "partial" /\ new.records = some /\ new.derivative = kept
    BY <2>6 DEF Told
  <2>10. new \in Contract!Capture
    BY <1>1, <2>6, ToldType
  <2> HIDE DEF c, t, new, kept, some
  <2> DEFINE x == [Unseen EXCEPT !.ready = TRUE, !.fatal = t.fatal, !.records = some,
                                 !.derivative = kept]
  <2>11. Unseen \in Contract!Capture
    BY DEF Unseen, Contract!Capture
  <2>12. /\ x.ready = TRUE /\ x.running = TRUE /\ x.stopAsked = FALSE
         /\ x.stopComplete = FALSE /\ x.clean = FALSE /\ x.fatal = t.fatal
         /\ x.pcap = "partial" /\ x.records = some /\ x.derivative = kept
    BY <2>11 DEF Unseen
  <2>13. x \in Contract!Capture
    BY <2>7, <2>8, <2>11 DEF Contract!Capture, Issues
  <2> HIDE DEF x
  <2>14. new = x
    BY <2>9, <2>10, <2>12, <2>13, SameCapture
  <2>15. Unseen.running /\ ~Unseen.ready /\ Unseen.fatal = "none"
    BY DEF Unseen
  <2>16. Contract!CaptureBecomesReady
    BY <2>4, <2>7, <2>8, <2>14, <2>15 DEF x, Contract!CaptureBecomesReady, Issues
  <2> QED
    BY <2>16 DEF Allowed, Contract!CaptureStep
<1> QED
  BY <1>3, <1>4

LEMMA RequestIsAllowed ==
  ASSUME ContractInv, RequestStop
  PROVE  Allowed
<1>1. /\ ContractInv' /\ HelperTypeOK /\ HelperTypeOK' /\ client \in Client /\ client' \in Client
      /\ control \in Control /\ output \in Output
  BY ContractCalls DEF ContractInv, HelperInv, HelperTypeOK
<1>2. /\ control' = [control EXCEPT !.asked = TRUE] /\ output' = output /\ ~control.asked
      /\ control.begin \in {"started", "failed"}
      /\ \/ client.handle /\ client.ready /\ client' = [client EXCEPT !.state = "StopRequested"]
         \/ client' = client
  BY DEF RequestStop, OnlyClient
<1>3. control'.begin = control.begin /\ control'.waiter = control.waiter /\ control.waiter = "none"
      /\ control'.asked = TRUE /\ control.asked = FALSE
  BY <1>1, <1>2 DEF Control, ContractInv, StopFacts
<1>4. CASE control.begin = "failed"
  <2>1. ~Shows /\ ~Shows'
    BY <1>1, <1>3, <1>4 DEF Shows, ContractInv, ClientFacts
  <2> QED
    BY <1>1, <2>1, StayingIsAllowed
<1>5. CASE control.begin = "started"
  <2>1. Shows /\ Shows'
    BY <1>1, <1>3, <1>5 DEF Shows, ContractInv, ClientFacts
  <2>2. Snapshot = MapSnapshot(client) /\ Snapshot' = MapSnapshot(client')
    BY <1>3, <1>5 DEF Snapshot, MapSnapshot, IsRunning, FatalIssue
  <2>3. MapSnapshot(client') = MapSnapshot(client)
    <3>1. CASE client' = client
      BY <3>1
    <3>2. CASE client.handle /\ client' = [client EXCEPT !.state = "StopRequested"]
      <4>1. client.state = "Running"
        BY <1>2, <1>5, <3>2 DEF ContractInv, StopFacts
      <4>2. /\ client'.state = "StopRequested" /\ client'.handle = client.handle
            /\ client'.ready = client.ready /\ client'.health = client.health
            /\ client'.seen = client.seen /\ client'.error = client.error
        BY <1>1, <3>2 DEF Client
      <4> QED
        BY <3>2, <4>1, <4>2 DEF MapSnapshot, IsRunning, FatalIssue
    <3> QED
      BY <1>2, <3>1, <3>2
  <2> DEFINE s == MapSnapshot(client)
             old == Told(s, FALSE, output)
             new == Told(s, TRUE, output)
             x == [old EXCEPT !.stopAsked = TRUE]
  <2>4. Seen = old /\ Seen' = new
    BY <1>1, <1>2, <1>3, <2>1, <2>2, <2>3, SeenIs, SeenIsNext
  <2>5. old \in Contract!Capture /\ new \in Contract!Capture
    BY <1>1, SnapshotType, ToldType
  <2>6. /\ new.ready = old.ready /\ new.running = old.running /\ new.stopAsked = TRUE
        /\ new.stopComplete = old.stopComplete /\ new.clean = old.clean /\ new.fatal = old.fatal
        /\ new.pcap = old.pcap /\ new.records = old.records /\ new.derivative = old.derivative
    BY DEF Told
  <2> HIDE DEF s, old, new
  <2>7. /\ x.ready = old.ready /\ x.running = old.running /\ x.stopAsked = TRUE
        /\ x.stopComplete = old.stopComplete /\ x.clean = old.clean /\ x.fatal = old.fatal
        /\ x.pcap = old.pcap /\ x.records = old.records /\ x.derivative = old.derivative
        /\ x \in Contract!Capture
    BY <2>5 DEF Contract!Capture
  <2> HIDE DEF x
  <2>8. new = x
    BY <2>5, <2>6, <2>7, SameCapture
  <2> QED
    BY <2>4, <2>8 DEF x, Allowed, Contract!CaptureAsked, Contract!Stopped
<1> QED
  BY <1>2, <1>4, <1>5

LEMMA CallsAreAllowed ==
  ASSUME ContractInv, TakeSnapshot \/ BeginsToWait \/ Destroy \/ ParentExits
  PROVE  Allowed
<1>1. /\ ContractInv' /\ HelperTypeOK /\ HelperTypeOK' /\ client \in Client /\ client' \in Client
      /\ control \in Control /\ ClientFacts
  BY ContractCalls DEF ContractInv, HelperInv, HelperTypeOK
<1>2. ASSUME NEW c \in Polled(client), ClientBecomes(c), control.begin = "started",
             control'.begin = "started", control'.asked = control.asked,
             UNCHANGED <<parent, worker, output, helper>>, parent,
             control'.waiter = "none" \/ control'.frozen = MapSnapshot(c)
      PROVE  Allowed
  <2>1. /\ c \in Client /\ client' = c /\ (Faulted(client) => Faulted(c))
        /\ (~client.handle => c = client)
    BY <1>2, LookKeeps
  <2>2. MapSnapshot(client)' = MapSnapshot(c)
    BY <2>1 DEF MapSnapshot, IsRunning, FatalIssue
  <2>3. Snapshot' = MapSnapshot(c)
    BY <1>2, <2>2 DEF Snapshot
  <2> QED
    BY <1>1, <1>2, <2>1, <2>3, LookIsAllowed
<1>3. CASE TakeSnapshot
  <2>1. PICK c \in Polled(client) : ClientBecomes(c)
    BY <1>3 DEF TakeSnapshot
  <2> QED
    BY <1>1, <1>2, <1>3, <2>1 DEF TakeSnapshot, OnlyClient, Control
<1>4. CASE BeginsToWait
  <2>1. PICK c \in Polled(client), w \in {"none", "waiting"} :
          /\ ClientBecomes(c)
          /\ control' = [control EXCEPT !.tried = TRUE, !.waiter = w,
                           !.frozen = IF w = "none" THEN NotBegun ELSE MapSnapshot(c)]
    BY <1>4 DEF BeginsToWait
  <2>2. /\ control'.begin = control.begin /\ control'.asked = control.asked /\ control'.waiter = w
        /\ control.asked
        /\ w = "none" \/ control'.frozen = MapSnapshot(c)
        /\ UNCHANGED <<parent, worker, output, helper>> /\ parent /\ ~control.tried
    BY <1>1, <1>4, <2>1 DEF BeginsToWait, OnlyClient, Control
  <2>3. CASE control.begin = "started"
    BY <1>2, <2>1, <2>2, <2>3
  <2>4. CASE control.begin # "started"
    <3>1. control.begin # "gone"
      BY <2>2 DEF ContractInv, StopFacts
    <3>2. ~Shows /\ ~Shows'
      BY <2>2, <2>4, <3>1 DEF Shows
    <3> QED
      BY <1>1, <3>2, StayingIsAllowed
  <2> QED
    BY <2>3, <2>4
<1>5. CASE Destroy
  <2>1. /\ UNCHANGED <<output, client>> /\ control.begin \in {"started", "failed"}
        /\ control'.begin = "gone" /\ control'.frozen = Snapshot /\ control'.asked = control.asked
    BY <1>1, <1>5 DEF Destroy, OnlyClient, Control
  <2>2. (Shows' <=> Shows) /\ Snapshot' = Snapshot
    BY <1>1, <2>1 DEF Shows, ClientFacts, Snapshot
  <2> QED
    BY <1>1, <2>1, <2>2, StayingIsAllowed
<1>6. CASE ParentExits
  BY <1>1, <1>6, StayingIsAllowed DEF ParentExits, Shows, Snapshot, MapSnapshot, IsRunning, FatalIssue
<1> QED
  BY <1>3, <1>4, <1>5, <1>6

LEMMA WaiterIsAllowed ==
  ASSUME ContractInv, Waiter
  PROVE  Allowed
<1>1. /\ HelperTypeOK /\ HelperTypeOK' /\ client \in Client /\ control \in Control
      /\ ClientFacts /\ StopFacts
  BY InvWaiter DEF ContractInv, HelperInv, HelperTypeOK
<1>2. /\ output' = output /\ control.waiter = "waiting"
      /\ \/ Waited
         \/ UNCHANGED control
  BY DEF Waiter, WaitIsOver, WaiterWritesStop, WaiterSeesExit, WaiterForces, OnlyClient
<1>3. /\ control'.begin = control.begin /\ control'.asked = control.asked
      /\ control'.frozen = control.frozen /\ control'.waiter # "none"
  BY <1>1, <1>2 DEF Waited, Control
<1>4. client'.ready = client.ready
  <2>1. ASSUME NEW c \in Client, NEW d \in Observed(c)
        PROVE  FinishExited(d).ready = c.ready
               /\ [FinishExited(d) EXCEPT !.state = "Failed"].ready = c.ready
    <3>1. d \in Client /\ d.ready = c.ready
      BY <1>1, ObservedKeeps
    <3> QED
      BY <3>1 DEF FinishExited, Client
  <2>2. CASE WaitIsOver
    BY <1>1, <2>2 DEF WaitIsOver, ClientBecomes, Cleanup, Client
  <2>3. CASE WaiterWritesStop
    BY <1>1, <2>3 DEF WaiterWritesStop, Client
  <2>4. CASE WaiterSeesExit
    <3>1. PICK e \in SeesExit(client) : ClientBecomes(e)
      BY <2>4 DEF WaiterSeesExit
    <3>2. PICK d \in Observed(client) : e = FinishExited(d)
      BY <3>1 DEF SeesExit
    <3> QED
      BY <1>1, <2>1, <3>1, <3>2 DEF ClientBecomes
  <2>5. CASE WaiterForces
    <3> DEFINE f == [client EXCEPT !.forced = TRUE, !.state = "Failed"]
    <3>1. f \in Client /\ f.ready = client.ready
      BY <1>1 DEF Client
    <3>2. \/ \E d \in Observed(f) : ClientBecomes([FinishExited(d) EXCEPT !.state = "Failed"])
          \/ ClientBecomes(f)
      BY <2>5 DEF WaiterForces
    <3> HIDE DEF f
    <3> QED
      BY <2>1, <3>1, <3>2 DEF ClientBecomes
  <2> QED
    BY <2>2, <2>3, <2>4, <2>5 DEF Waiter
<1>5. Shows' <=> Shows
  BY <1>3, <1>4 DEF Shows
<1>6. Shows => Snapshot' = Snapshot
  BY <1>2, <1>3 DEF Shows, Snapshot
<1> QED
  BY <1>1, <1>2, <1>3, <1>5, <1>6, StayingIsAllowed

\* For any reasons: the helper process, the files and the control over them do what the
\* session relies on of its capture, and nothing else, whatever fails, ends or is late.
THEOREM HelperImplementsContract == HelperSpec => ImplementsCaptureControl
<1>1. ContractInv /\ [HelperNext]_helperVars => [Contract!CaptureStep \/ Contract!CaptureAsked]_Seen
  <2> SUFFICES ASSUME ContractInv, [HelperNext]_helperVars PROVE Allowed
    BY DEF Allowed
  <2>1. CASE UNCHANGED helperVars
    BY <2>1 DEF helperVars, Allowed, Seen, Snapshot, MapSnapshot, IsRunning, FatalIssue
  <2>2. CASE HelperNext
    BY <2>1, <2>2, WorkerIsAllowed, HelperIsAllowed, StartIsAllowed, RequestIsAllowed, CallsAreAllowed,
       WaiterIsAllowed DEF HelperNext, Application, Over
  <2> QED
    BY <2>1, <2>2
<1> QED
  BY <1>1, InitIsAllowed, ContractHolds, PTL DEF HelperSpec, ImplementsCaptureControl, Contract!CaptureSpec
=============================================================================
