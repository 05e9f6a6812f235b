# ABCurves Capture: a TLA+ verification of its capture and session core

ABCurves Capture records, on Windows, everything a USB mouse sends while a
participant plays a small aiming trainer. An unelevated application runs the
trainer and the session; an elevated helper process captures the USB packets
through the USBPcap driver. What the program promises is that a session called
*complete* really holds every packet of the certified mouse, and that one which
lost something says so. The modules here are about that promise.

Paths below are relative to `src/`, the root of the repository; the program's
code is in `src/src/`.

## 1. The system

| Component | State it keeps | Operations | Hard behaviour | What makes it correct |
|---|---|---|---|---|
| **Native capture object** `windows_capture/NativeUsbPcap` | native state and first failure, counters, bounded chunk queue, the overlapped read, the device handle | `Start`, `RequestStop`, `TryTakeChunk`/`WaitTakeChunk`, `StopAndDrain`, `Abort`; the reader thread | reader, consumer and stopper share a mutex; cancellation races completion; overflow; device removal | every byte accounted, stream order, bound, a clean stop delivers all that was read, first failure kept, stop terminates |
| **Capture pipeline** `acquisition/CaptureWorker` (`CapturePipeline`), `capture/StreamingPcapParser`, `capture/DevicePcapWriter` | parser buffer, exact device PCAP, report stream, anomaly journal, sealed/published | `ProcessChunk`, `Checkpoint`, `Seal`, `Publish`, `DrainEvidence` | chunks cut records anywhere; each writer fails on its own | raw PCAP is the exact prefix; optional products never disturb it and are never published with a hole |
| **Capture worker** `acquisition/CaptureWorker` (`CaptureWorker`) | run state, pending fatal reason, stop flags, snapshot | `Run` (consumer thread), `RequestStop` (controller thread), `Snapshot` | two threads plus the reader; stop before start; status read after an empty take | published iff clean; losses classified as losses; `Run` returns |
| **Capture helper process** `tools/capture_helper_main` | control files (descriptor, ready, health, stop, error), worker thread, session lease, parent tether | main loop, status publication, exit code | process boundary, file polling, parent death | asks the worker to stop once; reports the worker's verdict |
| **Helper client and recording control** `acquisition/CaptureHelperClient`, `CaptureHelperRecordingControl` | launch parameters, process handle, last health, stop future | `Start`, `Snapshot`, `RequestStop`, `StopAndWait`, `BeginCapture` | partial files, stale health, forced termination, asynchronous stop | a clean outcome is reported only from the helper's own clean verdict |
| **Certification probe and client** `acquisition/CertificationProbe*`, `tools/probe_helper_main` | bounded probe counters, probe process, result file | `Run`, `Start`, `Poll`, `Cancel` | elevated one-shot process, timeouts, cancellation | a probe never outlives its limits; one result per attempt |
| **Device discovery and certification** `device/*` | candidate mice, observations, certification stage | `CertificationFlow` submit/retry, correlation of activity with a device | devices change between enumeration and use | a certified mouse is exactly one physical device |
| **Recording session** `session/RecordingSession`, `session/FailurePolicy` | session state, capture readiness, requested final status, recovery mode, journals | `TryStart`, `AdvanceTo`, `SubmitRawInput`, `SetFocus`, `ManualPause`, `ReportIssue`, `Checkpoint`, `RequestParticipantStop`, `TryFinalize` | storage, integrity and capture failures at any moment, in any order; finalization waits for another process | `Complete` only with a clean published capture and no destructive issue; finalization happens once |
| **Session workspace, archive, recovery** `session/SessionWorkspace`, `SessionArchive`, `AbandonedSessionRecovery`, `CrashRecovery`, `CapturePrefixRecovery`, `SessionValidator` | session directory (partial, sealed), leases, archive | `Create`, `Seal`, `OpenAbandoned`, `RecoverAbandonedSessions`, archive publication | crash between any two file operations; another process still writing | a sealed directory is complete and immutable; recovery never touches a live session; an archive is of a sealed directory |
| **Journals** `session/AppendOnlyJsonl`, `GameplayJournal`, `ClockJournal` | append-only lines with sequence and CRC | `Append`, `Checkpoint`, `Finalize`, recovery | torn tail after a crash | only an incomplete tail is trimmed |
| **Trainer engine** `trainer/TrainerEngine`, `protocol/protocol_v1` | block and event position, stage, QPC deadlines | `Start`, `AdvanceTo`, `SubmitRawInput`, `AcknowledgeTargetPresented`, `Pause`, `Resume`, `SetFocused` | input and presentation race deadlines; pause anywhere | each target event recorded once, paused time never counts |
| **Participant application** `app/*` | flow stage, blockers, settings, highscores | UI events, message loop | environment changes, helper failures | progress only when nothing blocks; highscore never decreases |
| **Live report mirror, packet and report decoding** `capture/*` | file offsets; none | parsing | torn records | formats |
| **Derivation and export** `derive/*`, `export/*`, `tools/session_tool_main`, `research_export_main` | none (batch) | millisecond binning, axis inference, clock fit | boundaries | each report in exactly one bin |
| **Platform, rendering, audio, base** | handles | I/O | – | – |

How they interact: the driver completes the reader's overlapped read; the reader
queues chunks for the worker's consumer thread; the consumer feeds the pipeline
and, at the end, lets `StopAndDrain` ask the pipeline for its drain evidence
(a callback); the helper's main thread polls the worker's snapshot, writes the
control files and asks the worker to stop; the client in the application reads
the control files; the recording control turns that into the snapshot the
recording session observes on every tick; the session drives the trainer and the
journals, requests the helper's stop, and finalizes into the workspace, which
seals the directory and publishes the archive. A later start of the application
recovers the sessions a crash abandoned.

## 2. Plan

1. Capture core, in this order: `NativeUsbPcap` (reader, queue, stop, abort, driver),
   `CapturePipeline` (products of the stream), `CaptureWorker` (their composition),
   with `CaptureWorkerProofs`. **Done.**
2. `RecordingSession`: the session coordinator against any capture snapshot, with
   the failure policy and the trainer (`TrainerEngine`, `CaptureControl`); the promise is
   "the final status is never better than what happened". **Done.**
3. `HelperControl`, an implementation of `CaptureControl`: client, control files, helper process and recording control
   around an abstract worker (a verdict and a stop). **Done**, with `HelperControlProofs`.
4. `SessionStore`: leases, directory states, seal, archive, crash and recovery by a
   second process; abstract specification `SessionPublication`, an atomic publication of a
   session. **Done**, with `SessionStoreProofs`.
5. The participant's side and what the session is made of, all **done**:
   * `TargetProtocol` and `TrainerTimeline` (`protocol/protocol_v1`, `trainer/TrainerEngine`): the
     generator and the trainer in time, shown to implement the untimed `TrainerEngine`.
   * `ParticipantFlow` and `ParticipantApplication` (`app/*`): the run, composed with
     `RecordingSession`, so that it can be asked what happens when a pause for one reason is
     resumed under another.
   * `CertificationProbe`, `ProbeControl`, `CertificationFlow` and their composition
     `ParticipantSetup` (`acquisition/CertificationProbe*`, `tools/probe_helper_main`,
     `device/CertificationFlow`, `app/*`): the check of the mouse.
   * `SessionJournals` (`session/AppendOnlyJsonl`, `GameplayJournal`, `ClockJournal`, the journal side
     of `RecordingSession`): what `SessionStore` takes as one journal.
   * `MillisecondDeriver` (`derive/*`) and `ResearchExport` (`export/*`): what becomes of a
     session afterwards.
6. Theorems. **Done**: `CaptureWorkerProofs`, `SessionStoreProofs`, `SessionJournalsProofs`,
   `HelperControlProofs`, `ResearchExportProofs` (the export and the derivation), `ParticipantApplicationProofs` (the session and
   the application over it), `ParticipantSetupProofs`, `TrainerTimelineProofs`.
7. Still open, in this order: `ParticipantSettings`; the live report mirror.

An abstract specification of the capture stack worth stating is a channel that
either publishes the whole stream or fails; `CaptureWorker` refines it through
`CompleteIsWhatIsPublished`.

## 3. The capture core

### NativeUsbPcap

`NativeUsbPcap.tla` is `NativeUsbPcapCapture`. The PCAP byte stream is numbered
from 1, and a chunk is the interval of positions it carries, so that loss,
repetition and reordering can be stated. `rpc` is the reader thread's place in
`ReaderLoop` (one action between two of its observations of shared state or of
the driver); `queue`, `queuedBytes`, `bytesRead`, `delivered`, `discarded`,
`overflowed` are the queue and its counters; `state`, `stopRequested`,
`stopAttempted`, `stopSucceeded`, `quiet`, `readerFinished` the status. `spc` is the
place of the thread in `StopAndDrain` or `Abort`. Everything done under one hold of
the mutex is one step; what happens between two holds is two.

| Code | Actions |
|---|---|
| `ReaderLoop`, `HandleCompletion`, `EnqueueRead`, `StopFiltering`, `CancelPendingRead` | `ReaderTop`, `ReaderBegin`, `ReaderHandle` (`HandleEmpty`, `EnqueueFits`, `EnqueueOverflows`, `EnqueueThrows`), `ReaderWait`, `ReaderStopFilter`, `ReaderFinal`, `ReaderCancel`, `ReaderAwait`, `ReaderExit` |
| `Start` | `Start` (no other thread exists before it succeeds, so it is one step) |
| `RequestStop` | `RequestStop` |
| `TryTakeChunk`, `WaitTakeChunk` | `TakeChunk`; a wait that returns nothing changes nothing here |
| `StopAndDrain` | `StopBegin("drain")`, `StopJoin`, `StopReport` |
| `Abort`, destructor | `StopBegin("abort")`, `AbortFinish` |
| USBPcap driver (external) | `DeviceTraffic`, `PendedReadCompletesEmpty`, `DeviceRemoved` |

The driver is modelled from how the code uses it: a ring that fills while filtering is on,
one outstanding read that completes with ring bytes, empty, failed or cancelled.
A *pended* read may complete empty at any time, also while filtering is still on, as the
comment at `NativeUsbPcap.cpp:410-413` says. `staleEdge` is a history variable: the read in flight
had completed empty before the filter was closed (`ReaderStopFilter` sets it, nothing reads it but
the properties).

Abstracted: the transient `Opening`/`Configuring` states inside `Start` (the only
other observer, the worker's snapshot, is not looked at by any other step), the counters
that only report (`read_operations`, `chunks_*`, `peak_queued_bytes`), messages and
Win32 codes other than the classes the code tells apart.

### CapturePipeline

The stream is a sequence of *units*: the PCAP global header, then records, each of
a kind that decides what the code does with it. Every unit has `UnitBytes` bytes; a
read cuts the stream anywhere, so `ChunkArrives` computes what the parser completes
(`RecordsBetween`) and when a fault shows (`FramingFault`: a bad length is seen with the
first bytes of its record — the code needs the 16 bytes of the record header — so
the fault may be seen before the record is whole). `pcap`, `reports`, `anomalies` hold the unit
numbers written; `durable` is how much of the device PCAP the last flush covered. A decoded
record writes at most one report here.

### CaptureWorker

`CaptureWorker.tla` composes both: `WorkerReader` and `WorkerDriver` are the native
object's thread and driver; `WorkerStep` is `Run`, cut where the code reads something
another thread writes (the loop head's flag, the take, the status, the join);
`ControllerStop` is `RequestStop` in its two steps, the store of the flag and the
call that reaches the source when it is already started. A chunk's records are
processed one per step.

### Runs of the capture core

| Run | What is asked | Bounds | Result |
|---|---|---|---|
| `native` | `UndeliveredIsQueued` (accounting, order, bound), `CleanEndLeavesNothing`, `FirstFailureKept`, `StopEndsReader`, against any client and driver | 4 bytes, reads of 2, queue of 3: a chunk can fill, exactly fit, or overflow the queue, and a stop can find 0, 1 or 2 chunks queued | holds, 28 812 states |
| `stale_edge` | `CleanStopIsLossless`: a clean stop delivered every byte the driver produced | 2 bytes, one read | violated: the quiet edge is a completion older than the filter stop |
| `worker` | `ProductsFollowStream`, `CompleteIsWhatIsPublished` and `RunReturns` (`Run` returns after a stop or a removal) over four streams, one sound and three that are refused at different places | up to 3 units of 2 bytes, reads of 3 and a queue of 4: records straddle reads, the queue overflows | holds, 1 596 518 states |

A property of a run may be a conjunction of named parts, each with its own comment in
the module: `UndeliveredIsQueued` is `TypeOK`, `ByteAccounting`, `QueueIsStreamInOrder` and
`QueueBound`; `CleanEndLeavesNothing` is `CleanStopMissesOnlyStaleEdge` and `CleanReaderLeavesNoRead`;
`ProductsFollowStream` is `CaptureTypeOK`, `RawIsExactPrefix` and `DerivativesFollowRaw`;
`CompleteIsWhatIsPublished` is `PublishedIsComplete` and `CompletedMeansPublished`.

The native bound is enough because the code compares chunk sizes with what is left
of one queue and keeps no other history: the cases are "fits", "fits exactly" and "does
not fit" with zero, one or two queued chunks, all reached. The worker's streams hold
two records with reports, the first with an anomaly as well, and each of the four ways a stream is refused,
with cuts at each of the two positions inside a unit. The kinds left out (a truncated or undecodable
record, one of another endpoint) write less than a noted one.

Fairness: weak fairness of the reader thread and, for the worker, of the consumer
thread. Both are OS threads that are never suspended by the program; every wait in them has
a timeout (`read_poll_interval`, `consumer_poll_interval`, `cancellation_timeout`),
so they keep taking steps. Nothing is assumed of the driver, the device or the
controller. `CHECK_DEADLOCK` is on in these runs: the worker stops only after `Run` has
returned (`WorkerReturned`).

One thing was met on the way that no run refutes. A stop that reaches the source
directly (`CaptureWorker.cpp:587-590`) can end the reader before the loop head has seen the
flag, and is then reported as "native reader ended without a stop request".

One thing is refuted. The quiet edge is inferred from a completion that may be older than the filter
stop: the wait times out, the pended read completes empty, traffic reaches the ring, `StopFiltering`
succeeds, and the next wait returns the old completion, which `HandleCompletion` takes for "positive
evidence that the kernel ring reached its quiet edge" (`NativeUsbPcap.cpp:410-418`). The stop is then
called clean, and a capture may be published, over bytes that are still in the ring: run `stale_edge`. It
needs a driver that completes a pended read empty while filtering, which the same comment says this one
does. `CleanStopMissesOnlyStaleEdge` and `PublishedIsComplete`, which hold, except this case
and no other, and say what is kept in it as well: all that was read is delivered and published. Two disagreements with what the
repository says of the worker are in section 10.

## 4. Proofs about the capture core

The first part of `CaptureWorkerProofs.tla` is about the capture object: for every value of the constants satisfying
`NativeAssumption`, `NativeSpec` implies `[]TypeOK`, `[]ByteAccounting`,
`[](QueueIsStreamInOrder /\ QueueBound)`, `[]CleanReaderLeavesNoRead`,
`FirstFailureKept` and `[]CleanStopMissesOnlyStaleEdge`. The theorems
`NothingUndeliveredIsLost` and `CleanEndIsEmpty` put them together as the properties of the
run, `UndeliveredIsQueued` and `CleanEndLeavesNothing`.

The argument. None of these is inductive alone. `NativeInvariant` strengthens them with
the relation between the reader's position and the overlapped read (a read is outstanding only in
`wait`, `stopping`, `final`, `cancel`, `await`), with `fetched = bytesRead + ioBytes` as long as no
read was dropped, and with the shape of the queue as consecutive intervals. The theorem
about a clean stop needs, besides, that `quiet` is only set with the filter stopped and with the ring
empty or the edge stale: an empty completion that a reader behind the filter stop looks at came after
that stop, from a ring that nothing fills any more, or `ReaderStopFilter` found it there. Each proof has one step per action; the queue facts are lemmas over sequences
of intervals (append, tail) stated once.

The second part proves `ProductsFollowStream`, `CompletedMeansPublished` and
`CompleteIsWhatIsPublished` for the composition, for every stream and every size of
units, reads and queue.

The worker is one client of the native object: `WorkerIsNativeClient` shows that every step of
reader, consumer, controller and driver is a step of `NativeNext` or leaves `nativeVars` alone, so
`NativeInv` and `DrainInv` come from the first part and are not proved a
second time. What `WorkerInv` adds is:

* `TrafficInv`: the bytes the worker has parsed are those the object delivered;
* `ProductInv`: the raw records are the next ones of the stream (`RawRun`); as long as nothing failed,
  those written and those still to do are together the records the bytes complete, in order
  (`ParseInv`), and every report belongs to its record (`Follows`, `ReportsInv`);
* `VerdictInv`: what Run has decided at each of its steps, and what that says of the files.

`RawIsExactPrefix` alone is not inductive because what is written next was parsed earlier, with the bytes
known then: that is what `ParseInv` carries. A step does one of five things to the products (`Keeps`,
`Parses`, `ParseFails`, `Writes`, `WriteFails`), and there is one lemma for each, so that the actions are looked at
only once (`StepKinds`). Cutting chunks anywhere is arithmetic of division, in lemmas of their
own (`ArrivedBounds`, `ArrivedGrows`, `FaultFree`, `RecordsBetweenArrive`). A publication is complete because a clean
drain left the ring and the queue empty (`DrainInv`) and sealing asks for a record boundary.

Only model-checked: liveness (`StopEndsReader`, `RunReturns`: fairness is outside what the prover handles).

## 5. The session core

### What the modules stand for

`RecordingSession.tla` EXTENDS two modules: `TrainerEngine`, the trainer it owns, and
`CaptureControl`, the capture side it watches. One step is one call of the application's
thread (`RecordingSession.h:153-155`: the methods are called by one thread, the
capture runs concurrently), so helper steps (`CaptureMoves`) and disk faults
(`DiskFails`) fall between any two calls.

**TrainerEngine** has no variables: a trainer is a record, and each operation gives the
*set* of records it can leave. Time and the camera are abstracted: `AdvanceTo` may pass any
chain of deadlines that can be due, from the state it finds, so one call may resolve a target,
finish its tail, end the block, count down and prepare the next target, or end the plan, as
`AdvanceTo`'s loop does (`TrainerEngine.cpp:332-360`). `fresh` is what is left of the time
abstraction: before its first presentation a block has its whole time, so its
countdown always ends in a target. `MaxEvents` bounds the targets of a run (a
trainer that used them up waits in its countdown or delay).

**CaptureControl** is a contract: the steps are all the ways in which the session can
see `MapCaptureHelperSnapshot` change its mind. A helper becomes ready (what happened since it
opened the device may come with it), counts records, gives a derivative up, names a fatal
issue (overrunning the stop deadline, `shutdown_failed`, is one: fatal, and still running),
fails with what was published or not, or stops: published, and clean unless the last
health status was stale. A helper that saw its own fault keeps the PCAP partial; one
that was lost after it published, or could not write a last status, did not. `HelperControl` is shown to
implement it (section 6). `RecoverCapturePrefix` is the function of that name.

| Code | In the model |
|---|---|
| `ObserveCapture` | the step `ObserveCapture`; every call that begins with it is guarded by its finding nothing (`Call`), since such a call does nothing else when it finds something. The second look at the end of `AdvanceTo` is this step taken next |
| `DrainFinalizedTrainerRecords` | `drained`, the number of events and blocks handed over; `Drain` completes it, a storage failure leaves it anywhere in `Between` |
| `HandleStorageFailure`, `HandleIntegrityFailure`, `BeginStop`, `BeginDestructiveStop` | operators of the same names; a call that can write has a branch with each failure |
| the public calls | `TryStart`, `AdvanceSession` (`AdvanceTo`), `SubmitPacket` (`SubmitRawInput`), `PresentTarget`, `SetFocus`, `ManualPause`, `ResumeAfterRecoverableIssue` (also `ManualResume`), `ReportInterruption` / `ReportDiagnostic` / `ReportStorageLow` (`ReportIssue` by action; the only destructive issue the application itself reports is low storage, `ParticipantApplication.cpp:815-841`), `ClockAnchorFails`, `RequestParticipantStop` |
| `TryFinalize` | one step: the status settled (`NotClean`, `NotPublished`), recovery or validation, the last drain, the seal, or the failure of any of these. Nothing of the session runs during it and the helper is gone (`CaptureCanFinalize`) |
| `Checkpoint`, `MaybeCheckpoint` | no state of the model but their failure, a branch of the calls |

`warned` is "`warning_count_` is not zero", the only thing the status looks at. A record that
fails validation at a drain is left out with a warning, so a drain may set it. `broken` is the
sticky failure of a journal's stream (`AppendOnlyJsonl.cpp:72`), which makes its later
`Finalize` fail.

### Runs

| Run | What is asked | Bounds | Result |
|---|---|---|---|
| `session` | `SealTellsTheTruth` (`CompleteIsEarned`, `UnpublishedIsCaptureLost`, `VerifiedMeansRecords`), `SealedJournalIsWhole`, `PlayIsGuarded` (`SessionTypeOK`, `PlayNeedsFocus`, `StoppedMeansStill`), `PauseOutlivesFocus`; `SessionEnds`: every stop is finalized and a fatal issue ends the session | 2 blocks, 2 events, 2 fatal issues | holds, 670 244 states |
| `derivative` | `docs/FAILURE_POLICY.md:47-52`: a failed derivative does not end a raw capture | 1 block, 1 event | violated |

Two blocks and two events are enough to have an event before and one after each pause, one in
each block or two in one, and a block that ends with and without an event; the session compares
counters only for "anything left to drain" and "the last block". The two issues are one
that the helper saw happen to the capture (an overflow) and one that is its own (a write
failure, after which the PCAP may still have been published); `capture_helper_lost` is always
there: the classes `ObserveCapture` and `IsCaptureLossIssue` tell apart.

Fairness: `ObserveCapture`, `AdvanceSession` and `TryFinalize`, which `Tick` drives on
every frame; and `HelperEnds`: a stop that was asked for ends the helper, because
`StopAndWait` waits for it and terminates it after the deadline. Without the last one
(`shutdown_failed` for ever) the application gives up and leaves the directory to the next
launch. No fairness of the participant, of readiness, or of faults is assumed.

The deadlock check is on: a session that is over stutters (`SessionOver`).

* `derivative` — a derivative the helper gave up leaves a `.partial` file, and the
  inventory of the seal refuses any. The sound capture beside it is not sealed.

### Proofs

The first part of `ParticipantApplicationProofs` proves, for every plan of blocks, every bound on events and every
set of faults the helper may name, the invariants of the run `session` and its
action property `PauseOutlivesFocus`. The only assumption is `TrainerAssumption` (a plan has at
least one block). The inductive invariant is `SessionInv`, the conjunction of

* `SessionTypeOK` and `SoundTrainer`: a trainer that is not complete has a block left, and one
  with a live target has room for its event, so that finalizing keeps the counters in their
  types (`StoreFinalizedEvent`, `CompleteBlock`);
* `StartInv`: a session that waits has an idle trainer with the focus, any later open session
  has one that was started; without it `SetFocus` could leave the trainer's focus behind;
* `PlayNeedsFocus` and `StoppedMeansStill`, which are inductive given the others;
* `CompletionInv`: the status `complete` is asked for only over a completed trainer, and what
  then makes recovery necessary is a fatal issue, which takes that status away in
  `TryFinalize`: the middle term between the completion and the seal, with the helper's faults
  in between;
* `ResultInv`: under a result the session is finalized and the helper gone, so neither the
  capture, the journal nor the trainer moves again.

The lemmas go from the bottom: what each operation of the trainer does to a sound trainer
(`Played`: it keeps its focus, and one that stands still stays as it is), what the capture's
steps cannot do (a named fault is never taken back, a published PCAP stays), what each way
of ending a call does to `SessionInv` (`GoesStep`, `StopStep`, `StorageFailureStep`,
`AnnotationStep`), then one lemma per kind of call. `PauseOutlivesFocus` needs only that a paused
trainer's clock does not move. `SealAlwaysTellsTheTruth` and `PlayIsAlwaysGuarded`
put the parts together as the run's properties. `SessionEnds` is only model-checked: liveness under fairness is outside the proof system's reach.

## 6. The helper and its control

### What the module stands for

`HelperControl.tla` has the two processes and the files between them. The helper process has
two threads, the worker (`CaptureWorker::Run`, reduced to how it can end: the detailed
module is `CaptureWorker`) and the control thread (`CaptureMain`'s loop and verdict). The
application has two as well: the one that calls the recording control, and the one that
waits for the end (`stop_future_`).

| State | Code |
|---|---|
| `parent` | the application's process, to which the helper is tethered |
| `files` | `ready.json`, `health.json`, `error.json`, `stop.json`: absent, created but not whole, whole, or never to be whole (`WriteNewFile` uses `CREATE_NEW`, then fills); the later health statuses and the stop file are replaced atomically |
| `helper` | where `CaptureMain` is, `stop_origin` set or not, `control_error` set or not, the exit code |
| `worker`, `output` | the worker's published state and reason; the PCAP and the derivative |
| `client` | `CaptureHelperClient`: `state_`, `process_`, `controls_created_`, `ready_`, `health_`, `error_`, `forced_termination_` |
| `control` | `CaptureHelperRecordingControl`: begun, started or failed, `stop_called_`, `stop_future_`, the frozen snapshot |

| Code | Actions |
|---|---|
| the loop of `CaptureMain` | `WritesReady`, `WritesHealth`, `StatusFails`, `SeesParentGone`, `SeesStopFile`, `LoopEnds` |
| after the loop | `FinalHealth`, `ExitsWithVerdict` (`WriteErrorIfPossible`) |
| `wmain`, the start of `CaptureMain` | `HelperBoots`: all refusals are one outcome, an `invalid_configuration` error |
| `Start` | `Launch`, then `StartSeesReady`, `StartSeesError`, `StartSeesExit` or `StartGivesUp` |
| `Snapshot` | `TakeSnapshot` (what the client remembers may change) and the operator `Snapshot` (what is answered) |
| `RequestStop` of the control | `RequestStop`, then `BeginsToWait` |
| `StopAndWait` on its thread | `WaitIsOver`, `WaiterWritesStop`, `WaiterSeesExit`, `WaiterForces` |
| the two destructors | `Destroy`, after which the waiter runs once more |
| end of the application, crash or not, with or without the kill job | `ParentExits` |

Operators such as `Observed` (`ObserveHealthAndError`) give the set of clients an
operation can leave: a status file may be read or not, an unreadable health file leaves
the error file unread, and a poll of the process may fail. `Terminated` is
`TerminateProcess` with the wait after it: gone, or not proven gone.

Abstracted: deadlines (a wait may give up at any time), the counters of the health status,
capability and identity checks (this client only writes stop files with the capability it was given; a
stop file that stays unreadable for two seconds is a branch of `SeesStopFile`), and the
launch, which either yields a process and its handle or nothing.

### The refinement

`Seen` maps a state to the record `capture` of `CaptureControl`, and
`ImplementsCaptureControl` is `Contract!CaptureSpec` under it. Before the start has
succeeded the contract is in its initial state (a failed start never reaches a session).
While the snapshot says running, what the worker has published is not the session's
to see: the mapping keeps it partial until the helper is known to be gone, because the
session looks at the files only then. The contract's steps thus happen when the
client learns of them. This is what makes the `session` runs and the theorems
of `ParticipantApplicationProofs` statements about the real helper.

### Runs

| Run | What is asked | Bounds | Result |
|---|---|---|---|
| `helper` | `WriterIsKnown` (`HelperTypeOK`, `ControlsOutliveHelper`, `NotRunningMeansGone`); the refinement; `HelperEndsUnforced`: an orphaned helper, and one whose stop file is there, end by themselves | one reason of the worker beside those the helper adds | holds, 331 671 states |

There is one helper and one file of each kind, so nothing is bounded but the reasons; the code
tells two apart only in the table `IssueOf`, and one that maps to a reported fault beside
the helper's own are all the cases.

Fairness: `HelperRound` (the control thread, which never blocks longer than its 50 ms sleep),
each of the worker's own steps, and the waiting thread. `StatusFails`, `WorkerFaults`, crashes and
everything the application does have none: the helper must end without them. The
deadlock check is on; the end of both processes stutters (`Over`).

A start that gives up on a helper which could not be terminated makes the control answer
`stop_complete` for a process that is alive, which `RecordingSession.h:58-59` excludes. Nobody asks it
today, because `RecordingSession::Create` rethrows.

### Theorems

All are about `HelperSpec` for every `WorkerReasons`; the only assumption is that the worker's own
reasons have a name in `IssueOf` (`HelperAssumption`).

`HelperControlProofs` proves `[]HelperStaysInReach` and `[]NotRunningMeansGone`, together `[]WriterIsKnown`, from `HelperInv`: the
types, and two facts that neither property states. A process that lives is one the
client has a handle of, and the client has no handle without its control files (`Reach`); the frozen
copy of a snapshot that says "not running" was made when the process was gone, and only a launch
makes one again (`WaitBegun`). `NotRunningMeansGone` alone is not inductive: it says nothing of a
client that is about to be asked.

It also proves the refinement, `HelperSpec => ImplementsCaptureControl`. Every step
is a step of the contract or a stutter only because of what the parts know of each other, which is
`ContractInv`:

* `WorkerFacts`: a published PCAP and a fault of the run exclude each other, a derivative is never
  published before the PCAP, and a worker drains without a fault only when it was told to stop.
* `ProcessFacts`: exit code 0 is that of a completed worker under a control thread without fault; a
  stop that reaches the worker while the application lives is one the session asked for, or counts
  as a fault of the helper; the error file blames nothing that would contradict a published PCAP.
* `ClientFacts`: what the client read from the files is so, and the files still say it as long as
  they are there. This is what makes a named fault stay named although the health status is
  read again and again.
* `StopFacts`: where the client can be while a stop is asked for, waited for or over, and that a
  frozen snapshot is one the next look can go on from.

The heart is `LookIsAllowed`: one look at the helper (`TakeSnapshot`, `BeginsToWait`), which may jump over
any number of the helper's own steps, is the contract's `CaptureFaultReported`, `CaptureStops` or
`CaptureFails`. A `Completed` client was asked to stop and never named a fault, and a fault
the session is told of never comes with a PCAP that was published after it was seen. Together with
the theorems about the session, which assume only the contract, what is proved of the recording
session holds with this helper under it. `HelperEndsUnforced`, a liveness property, is
only model-checked.

## 7. The session on disk

### What the module stands for

`SessionStore.tla` is one session directory, its lease file and its archive, and all the
processes that may touch them: the participant's application that records the session
(`Owner`), its elevated helper, and any number of later launches of the application, each of
which scans for abandoned sessions once (`ParticipantApplication::StartAbandonedSessionRecovery`).
A step is one file operation, because a process can end between any two.

| State | Code |
|---|---|
| `pc` | where the owner is in `Create`, recording, `TryFinalize` and `Seal`; where a launch is in `RecoverAbandonedSession` or `RecoverMissingArchive`, up to the same `Seal` |
| `helper` | where `wmain` of the helper is, as far as the lease and the files of the capture go |
| `lease` | who has `<session>.lease` open: writers share it, a recovery has it alone |
| `disk.dir` | no directory, `<session>.partial`, `<session>` |
| `disk.files` | for the capture and for the journals: the `.partial` file, the final file, those set aside as `.unverified` |
| `disk.manifest`, `sums`, `complete` | `manifest.json` (status, and whether it claims authoritative evidence), `checksums.sha256`, `COMPLETE` |
| `disk.stray` | a temporary of `AtomicWriteFile` that a killed process left |
| `disk.archive`, `draft` | the published archive; what a process has under a temporary name |
| `quiet` | history only: the launch that found everybody else gone, and that no process has joined and no fault has hit since |

| Code | Actions |
|---|---|
| `SessionWorkspace::Create`, then `RecordingSession::Create` | `AcquireWriterLease`, `CreateDirectory`, `PersistFirstManifest`, `CreateFails`, `LaunchHelper` |
| recording | `OwnerRecords`, `HelperBoots`, `HelperOpensCapture`, `HelperRecords`, `HelperPublishes`, `HelperEnds` |
| `TryFinalize`, file side | `BeginFinalization`, then what a launch does too, from `RecoverPrefix` on |
| `RecoverAbandonedSessions` | `Scan`, `OpenAbandoned`, `OpenSealed` |
| `RecoverAbandonedSession` | `Quarantine`, `RecoverPrefix`, `ValidateRecovered`, `RecoverJournals`, `PreserveUnknownPartials` |
| `SessionWorkspace::Seal` | `SealManifest`, `SealChecksums`, `SealComplete`, `SealMove` |
| `CreateSessionArchive` | `WriteArchive`, `PublishArchive` |
| exceptions, the operating system, the end of a process | `StepRefused` (the code itself refuses), `StepFails` (a file operation fails), `ProcessEnds` |

A file is a number of whole records and a tail: clean, torn, or bytes that no reader accepts;
`sound` is what the semantic validators will say of it. Both may turn out anyhow when its
writer dies (`Died`); the records before the tail are on disk, since a checkpoint flushed them.

Abstracted: the PCAP stands for all files of the capture that are recovered like it (PCAP,
reports, anomalies), one journal for all journals; `Complete` and `CompleteWithWarnings` are
one status; the retries of `MoveFile`, the temporary of the archive writer (the scan rejects
it, it is no directory) and `recovery.json` are left out. The power does not fail: what a
process has flushed stays.

### The abstract specification

`SessionPublication` is what somebody sees who only looks at the output root: a directory
appears once, under its final name, and never changes; then an archive appears once, with
exactly that directory in it. `ImplementsPublication` maps the sealed directory and the
published archive to its two variables.

### Run

| Run | What is asked | Bounds | Result |
|---|---|---|---|
| `store` | `SealedIsTrue` (`StoreTypeOK`, `SealedIsWhole`, `EvidenceIsReal`); `RecoveryIsAlone`; `LaunchRepairs`; `RecordsSurvive`; the refinement | 3 launches, 1 record | holds, 771 855 states |

Three launches let two recoveries die, the second in what the first left, and a third repair
it, or two run at once beside a slow helper. One record tells "some evidence" from "none", and a
lost one from a kept one. The deadlock check is on; when everybody is gone the
system stutters (`Deserted`). No fairness is assumed: `LaunchRepairs` speaks of a launch that
has come to its end.

`LaunchRepairs` leaves out a directory whose owner died before its first manifest was
written: `OpenAbandoned` refuses it on every launch, and it stays. It holds no record.

### Proofs

`SessionStoreProofs` proves all five properties for every set of launches and every
number of records, from the one assumption that the names of the processes differ. The
argument is in layers, each used by the next:

1. `ControlInv` — who is where and who holds the lease: a launch at work holds it alone, and a
   process that writes holds it. Nothing of the disk is needed. It gives `RecoveryIsAlone`.
2. `DataTypes` — the types of the data; `WriteFilesEffect` and `ArtifactOps` say once what a
   step on one file does.
3. `PlaceInv` — the name of the directory at each step, that the helper is gone when the owner
   finalizes, and that a draft is the session as it is. Every step is then either one of
   the two publications or changes nothing visible (`Promised`), which is the refinement.
4. `ContentInv` — `SettledAt(step)`: what the process that has come to a step has made of
   the directory (no partial capture after the prefix, no bad file after the journals, then the
   manifest, the checksums, `COMPLETE`). It survives because of layer 1: whoever else could
   undo it does not work. A sealed directory has been through all the steps, hence
   `SealedIsWhole` and `EvidenceIsReal`.
5. `CaptureInv` — while the helper writes there is never a partial and a final capture,
   so its publication replaces nothing; the lemmas `Keeps...` say that no other file
   operation loses records. Hence `RecordsSurvive`.
6. `HoldersInv` and `RepairInv` — the lease has no holder who is not at work, and beside an
   undisturbed launch nobody is, so it gets the lease and none of its steps is refused
   (`NothingRefused`, from layer 4). Hence `LaunchRepairs`.

That a launch comes to its end at all is not claimed: it would be liveness under fairness.

## 8. The participant's side

### The trainer in time (TargetProtocol, TrainerTimeline)

`TargetProtocol` is what `protocol_v1` decides: the ordered blocks, the generator of targets with
its lifecycle (begin a block, prepare, resolve, end), the radii and the dwell a target gets
from its pattern, role and the locked sensitivity, the resolution of a target (score, tail, delay),
and `RealizedTargetAccepted`, the validation every realized target passes on its way into the
journal. Sizes are counts at the scale of the sensitivity, rounded as the code rounds them; a
random draw takes an end of its range.

`TrainerTimeline` is `TrainerEngine` with its deadlines, in milliseconds. A deadline is kept as what is
left of it and a recorded moment as its age, so that the state space does not grow with time.

| Code | In the model |
|---|---|
| `AdvanceTo` | `AdvanceTo`: the deadlines that are due are handled in the order they fall due (`NextDeadline`) |
| `NextDwellCompletionQpc` | `NextDwellCompletion`, over the movements since the camera is inside |
| `SubmitRawInput`, `AcknowledgeTargetPresented` | `RawInput`, `Presented`: the clock moves to the call first |
| `PauseForTechnicalInterruption`, `StartResumeCountdown`, `SetFocused` | `Pauses`, `Resumes`, `Focuses` |
| finalization of an event, of a block | `Finalized`, `StoreFinalizedEvent`, `CompleteBlock` and the result records |

A call of the generator that the code would answer by throwing sets `refused`, and
`GeneratorNeverRefuses` says that no order of calls does. Of the geometry only whether the camera is
inside the target is kept.

**The refinement.** `ImplementsTrainer` takes a timed trainer to the record `TrainerEngine` keeps (state,
reason, focus, the numbers of events and blocks, and `fresh`) and says that whatever an
operation leaves behind is among what the operation of the untimed trainer may leave. The
recording session is modelled with the untimed one, so this is what ties its runs
and theorems to the deadlines. It is stated as an action property because `TrainerEngine` has no
variables of its own.

| Run | What is asked | Bounds | Result |
|---|---|---|---|
| `trial` | `TargetsAgree` (of `GeneratorAgrees` and `AcceptedUnlessCoarse`), `DwellEndsAtFirstQuiet`, `ResultsAreEarned`, `ImplementsTrainer` | sensitivity 0.37, a tickle block and a dwell block of 600 ms, 2 events, 2 movements of 2 counts inside a target, either end of a range | holds, 332 767 states |

600 ms hold a target that is resolved and one that the end of the block cuts off; 150 ms between
calls are less than a dwell and more than its quiet window, so that deadlines fall before,
between and after calls. None, one or both movements in a window add up to below, at and above the quiet sum.

*Sensitivity.* That the journal accepts every target (`TargetsAreAccepted`) is what the two tables of the protocol are for, and it
is not so at every sensitivity the protocol takes. The generator scales a radius drawn from the exact range, at most
94.44 counts for a static target; the validation scales a bound that was rounded to 94 before (`protocol_v1.cpp:447`). Where one
count at sensitivity 1 is several, half a count of tolerance is too little: at 0.20 a radius of 472 counts is drawn
against a bound of 471, and the event is left out of the journal. `CoarseSensitivities` are the 33 hundredths
at which this happens, and `AcceptedUnlessCoarse` says that it does at no other. The run has 0.37, which lies between two of
them; the theorems below cover the whole range, and section 10
tells how to see the refusal.

`CHECK_DEADLOCK` is `FALSE` here because a run may have used up its events with the trainer waiting
for the presentation of the next.

**Proofs.** `TrainerTimelineProofs` proves the four properties of the run `trial` for any plan, any duration of a block the protocol
allows, any times between calls, movements of any size and any number of events (`MaxMoves` and `MaxEvents` only
bound the behaviours): `TargetsAgreeHolds` (from `GeneratorIsInStep` and `TargetsFitUnlessCoarse`), `DwellEndsAtFirstQuietHolds`, `ResultsAreEarnedHolds`
and `TimelineImplementsTrainer`. The assumptions are `TimelineAssumption` (a strictly increasing plan of existing blocks, as the
engine's constructor asks) and `SensitivityAssumption`, the protocol's own range; `PatternAssumption` has no constant in it, a fact
about the table of blocks that TLC evaluates.

*The tables.* `DrawAgrees` compares the two tables pattern by pattern. From 0.45 on the tolerance covers the distance of every bound from
the range (`Fits`, `RadiusFits`); at the eleven values of `Middle` below it the roundings fall right and are computed (`FitsBetween`).
`CoarseIsRefused` computes for each of the others a draw that is refused, so `TargetsFitUnlessCoarse` excepts no sensitivity it need not.

The inductive invariant is `EngineInv`: the trainer is new, or `RunInv`. It is stated of any engine, because inside a
call the clock takes the trainer through states no step ends in. Its parts are

* `StateInv`: what each state of the trainer means for the generator, the pending and the live target. The generator's
  next role must be known in every state without a target (`Between`), in a tail (`Tailing`), and of the target that is out
  (`Proper`); `TickleAlternates` alone does not say what the generator remembers.
* `Recorded`: each event was drawn for a block of the plan, earned what it was given and follows the event before it, and each
  result is the tally of its block. A score is counted at the resolution and its event recorded at the end of
  the tail, or of the interruption: `OpenScore` is the difference.
* `FreshInv`: block time is consumed only after a target of the block was presented. The untimed trainer remembers just that,
  and no run of it may end a block that is still fresh.

*The dwell window.* `CompletionFacts` is about the loop alone: for movements in the order they were made, what it returns is a quiet
moment and every earlier one from the first possible on is not. One round moves to where the last movement of the window whose loss
makes it quiet leaves it; until then the window holds at least what is still too much (`LaterFacts`), and each round
leaves a movement behind for good, so that there are never more rounds than movements and one (`QuietFromFacts`). The sums
are recursive functions; what is needed of them goes by a smallest counterexample (`HasLeast`, `StepByStep`).

*A call.* `DeadlineKeeps` has one lemma for each kind of deadline. Each lowers `Rank`, which is at most five, so a call makes
at most five transitions; `AdvanceKeeps` concludes that no call is refused for the number of them (the code allows 128), and
that the five rounds of `AdvanceTo` leave nothing out. `Reaches` is what the transitions of one call can add up to: at
most the end of one event, of one block and the preparation of one target.

*The refinement.* `Abstract` takes a timed trainer to an untimed one; `AdvanceSeen` says that what a call reaches, the untimed
clock reaches too, `PauseSeen`, `ResumeSeen`, `FocusSeen`, `PresentationSeen` and `PacketSeen` that what the operation
then does, the untimed one does, and `TimelineImplementsTrainer` puts them together under `EngineInv`.

### The application over a session (ParticipantFlow, ParticipantApplication)

`ParticipantFlow` is the pure state machine of that name: an event moves the flow or is rejected.
`ParticipantApplication` EXTENDS it and `RecordingSession`, so the application calls the real session model,
with the helper's contract beneath. A handler of a window message decides on the flow at once, and its
calls into the session follow one by one (`todo`), because the helper moves between any two; the
next message waits for them, since there is one thread. `mouse` keeps a selected mouse
apart from what the application knows of it: after a removal and a return the handle differs until the
scan, on a thread of its own, has found it.

| Code | Actions |
|---|---|
| focus, `WM_SIZE`, display change, power | `HandleFocus`, `Minimize`, `Resize`, `DisplayChanges`, `Suspend`, `WakeUp` |
| rendering | `RenderFails`, `RetryGraphics`, `Present` |
| device arrival, removal, `StartLiveInputRebind` | `Unplug`, `Plug`, `ScanSees`, `PollLiveInputRebind`, `Packet` |
| the participant | `StartRecordingAsync`, `BeginTrainerCountdown`, `PauseTrainer`, `ResumeTrainer`, `FinishAndSave`, `Cancels`, `Done`, `HandleClose` |
| the tick | `PollRecordingBootstrap`, `DriveRecording`, then `NextCall` |

| Run | What is asked | Bounds | Result |
|---|---|---|---|
| `participant` | `ToldTheTruth`, `ClosedMeansSettled`, `FlowFollowsSession`, `CloseEnds` | one block of one event; one disturbance of the window, display, power, renderer or mouse, and whatever undoes it | holds, 492 124 states |

One disturbance beside a helper that may be lost, a disk that may fail, low storage, pauses
by the participant and a close at any time is what the run affords; what undoes it (the focus
back, the window restored, the mouse plugged in again) is not counted. With two disturbances, out of
a run's time, the three invariants still hold (4.4 million states), and what the two do to each
other is where section 10 reports disagreements. Fairness: handlers return (`WF` of
`NextCall`), the tick comes each time the message queue is empty, however often messages come (`SF`
of `PollRecordingBootstrap` and `DriveRecording`), a posted close is delivered (`SF`), and a helper that was
asked to stop ends. Nothing is assumed of the participant. The deadlock check is on; a closed window
stutters (`AppOver`).

**Proofs.** `ParticipantApplicationProofs` proves `TheTruthIsTold`, `ClosedIsSettled` and `FlowAlwaysFollows` for every plan of
blocks, set of faults and number of disturbances (`Interruptions`), which the run can only take as one; what is
assumed is `TrainerAssumption` and `CaptureAssumption`, as for the session. `ApplicationUsesSession` says that every step
of the application is a step of `SessionNext` or leaves the session alone, so the theorems about the session hold under the
application, and its invariant `SessionInv` is the first conjunct of the one here, `AppInv`. The others:

* `RecordingInv`: a recording session never has a paused trainer. A call that only moves the session on sets
  its state from the trainer's, so without this a tick could pause a session nobody paused.
* `OutcomeInv`: what the participant was told is so of the state and the result of the session. It is kept because a
  session that is over stays as it is (`ClosedStays`); `TheTruthIsTold` follows from it.
* `MadeInv`, `EndInv`: how far the making of the session is, and that an end which was shown or allowed is one. Without the
  clause that a close request has put the flow on its way to an end, the branch of `DriveRecording` that gives up a helper which outlived its
  deadline would allow the close of a session nobody ends.
* `BlockInv`: whatever keeps the game from being played (the window, its size, the mouse) is one of the flow's
  blockers, and a flow with blockers waits.
* `TodoInv`, the heart: while a handler is making its calls the flow and the session disagree, so `FlowFollowsSession` alone is not
  inductive. The calls still to be made say how the difference ends: nothing follows a call of `FinalCalls`, a focus that is told
  is the window's, a report or a manual pause comes with a flow that is to run only if a
  resume comes last, and a resume that finds the session paused applies, because the session's focus is the window's by then.

There is one lemma per handler. What a handler does to the flow is in lemmas about the operators of `ParticipantFlow` (`StepEffect` to
`ToldEffect`), what its calls do to the session in `PerformEffect`, and what a list of calls promises when it is joined
or its head is made in `CallsJoin` and `CallsTail`. `CloseEnds` is about fairness and stays with the run.

### The check of the mouse (CertificationProbe, ProbeControl, CertificationFlow, ParticipantSetup)

| Module | Code | State |
|---|---|---|
| `CertificationProbe` | `acquisition/CertificationProbe` | `source`: the reader with its queue, a contract of `NativeUsbPcap`; `work`: the chunks the worker took and the reason it gives up |
| `ProbeControl` | `tools/probe_helper_main`, `acquisition/CertificationProbeClient` | `parent`, `files` (ready, cancel, result, its temporary), `helper`, `client` |
| `CertificationFlow` | `device/CertificationFlow` | none: the coordinator is a record, `Prepare`, `SubmitProbe`, `Retry` and `CancelCertification` are operators |
| `ParticipantSetup` | `app/ParticipantApplication` up to the configured run, `app/ParticipantUi` | `flow`, `cert`, `setup`, and the history `gesture` |

`BestWholeRootStream` chooses the stream that is the mouse from the counts of each stream (payload
changes, then completions, then the hint of the topology), and `EvidenceOf` what the coordinator is told; the
coordinator chooses again in `SubmitProbe` (`Stronger`, `Winner`). `ProbeAndFlowAgree` says that the two,
written apart, never disagree.

| Code | Actions |
|---|---|
| `CertificationProbeWorker::Run` | `WorkerStarts`, `WorkerTakes`, `WorkerLooks`, `DrainTimesOut`, `WorkerFinishes`; the reader: `ReaderDelivers`, `ReaderEnds` |
| `ProbeMain` | `HelperBoots`, `HelperTellsReady`, `HelperSeesParentGone`, `HelperSeesCancel`, `HelperLeavesLoop`, `HelperPublishes`, `HelperDies` |
| the client | `StartsProbe`, `RequestsCancel`, `PollObserves` and `PollDecides` (a snapshot looks at the files, then at the process: two steps), `LeaveWaits`, `LeaveTerminates` |
| screens and messages | `AcceptPrivacy`, `RefreshMouseList`, `PollInventoryScan`, `SelectMouse`, `StartCertification`, `RetryCertification`, `ChooseDifferentMouse`, `Cancels`, `Configures`, `Done`, `HandleClose`, `MouseActs`, `Dies` |

| Run | What is asked | Bounds | Result |
|---|---|---|---|
| `certification` | `CertifiedIsEarned`, `ProbeAndFlowAgree`, `ProbeLeavesNothing`, `CheckEnds` | one mouse, two streams, one route, one chunk of four kinds, two checks | holds, 673 407 states |

The two streams are the mouse, at an address other than the one the topology reports and on an endpoint
that is not listed, and a quiet device at the hinted address: the case in which hint, activity and
routes contradict each other. Two checks let the second begin in what the first left. One chunk per
probe means that the byte limit is not reached, and probes of one exact address
are left out: the application always asks for the whole root. A click is answered on the screen it
was made on; in the code it is resolved against the screen drawn last (`ParticipantApplication.cpp:1300`), so
that no step here follows a stale one. Fairness: the loop polls (`WF`), the worker's thread takes its turns
(`WF`), and what happens a bounded number of times, a file written, a message delivered, the duration of the
probe over, is not put off for ever (`SF`). Nothing is assumed of the participant or of crashes.

**Proofs.** `ParticipantSetupProofs` proves `EarnedCertification`, `ProbeAlwaysAgrees` and `NothingIsLeft`, the three safety
properties of the run, for any streams, endpoints and routes, any chunks with any counts, any inventories and any number
of checks. The assumptions are `ProbeAssumption` (streams and endpoints are finitely many numbers, an
enumerated route names an endpoint or none, there is at least one) and that the placeholder for "no mouse" is
not in an inventory.

The first part is about the pure operators. `FiniteHasTop` gives every finite set of streams or items a first element of
an order that is total and transitive, and so makes the `CHOOSE` of `TopOf` and `Winner` mean something
(`BestIsObserved`, `WinnerIsActive`); `SumIsNatural` makes the counts, which are folds, numbers. Both are inductions over
the size of a set, done by taking a smallest counterexample. `ResultSays` and `Submitted` say what a result and a
certification contain, and `CertifiedByResult` joins them: the coordinator's lock is the probe's stream because all items carry
one identity, and the stream with the best score is one the evidence shows active, also when the
evidence had to be widened to the whole device (`EvidenceOfStream`).

The second part is the inductive invariant, `SetupInv`. Beside the types it has `ProbeInv` (each chunk sent is queued or
was taken, and a probe that ends without a reason ended with the reader stopped and nothing queued: an overflow or a
loss between the last take and the last look leaves its reason first), `HelperInv` (the file holds the
result of the probe that is over, and nobody touches it again), `ClientInv` (the client's result is that of the
file, seen after a whole ready file), `FlowInv` (which screens a probe can be under, and what the coordinator
waits for there) and `MouseInv` (no scan can take the selected mouse away before the settings; what was
sampled is of this probe). Steps that disturb the same parts share a lemma (`ControlStays`, `ClientLooks`,
`HelperStep`, `EndsStep`, `PutAway`). `CheckEnds`, a liveness property, is only model-checked.

### The journals (SessionJournals)

The files `SessionStore` takes as one journal, each with its writer: `events`, `blocks`, `lifecycle`
(which stands for lifecycle, pauses, focus and presentation, written alike), the optional
`witness`, and the clock `anchors`. A call of the session is a list of file operations (`todo`), each a
step of its own that may fail; what a failed one leaves of the file is any prefix
behind the last flush, perhaps torn (`Remains`), and so is what a crash leaves (`Survivors`).

| Code | In the model |
|---|---|
| `AppendOnlyJsonlWriter` | `Succeeds`, `Fails` (a stream that failed never writes again), `Checkpoints`, `Publishes`, `StaysUnfinished` |
| `DrainFinalizedTrainerRecords`, `ValidateEvent`, `ValidateBlock` | `DrainRecords`: a record that does not validate is left out and annotated |
| `TryAppendRawInputWitness`, `DisableRawInputWitness` | `RawInputWitness`, `DisableRawInputWitness` |
| `Checkpoint`, `Finalize` of the two journals, `HandleStorageFailure` | `FileStep`, `StepFails`, `StorageFails` |
| `RecoverJsonlPartial`, `AppendOnlyJsonlReader`, `RecoverJournal` | `Trimmed`, `FramesRead`, `RecordsRead`, `Recovered` |

| Run | What is asked | Bounds | Result |
|---|---|---|---|
| `journals` | `RecoveryKeepsCheckpoints`, `RecordsAreAccountedFor`, `WitnessNeverGates` | 2 events (one interrupted before its presentation, one the protocol refuses), 1 block, 1 other line per journal | holds, 1 255 593 states |

`RecoveryKeepsCheckpoints` quantifies over what a crash may leave in every state, so no crash is
needed among the steps. Two events let an exclusion fall before and after a
record. Not modelled: records over 4 MiB, and the seal, which refuses the partial file of a witness
whose removal failed too (`GameplayJournal.cpp:668`).

**Proofs.** `SessionJournalsProofs` proves all three, `RecoveryAlwaysKeepsCheckpoints`,
`WitnessNeverGatesASession` and `RecordsAreAlwaysAccountedFor`, for all sets of records and all bounds, from no
assumption. The inductive invariant of the first two,
`JournalInv`, has three parts. `ControlTypes`: the trainer, the cursors and the list of operations. `JournalsSound`, of
each journal: its file holds a prefix of the lines its writer accepted, numbered from zero, each
record one that validated when it was drained; the file is whole while the stream is
open, and a closed one is not torn. This survives a growing trainer (`SoundGrows`), and there is one lemma per operation of the
writer. `GateInv`: until the journals are finished, each writer that is open still has its rename ahead in `todo`, and only
the witness closes otherwise (`Advances`).

The third relates two journals and the trainer, and only at the end. `AccountInv` adds to `JournalInv` what is true all along:
`CountsInv`, that the records before the cursor are, of each journal, either among its lines or excluded by an
annotation (`Accounts`), and `FinishInv`, that a finished file has all lines its writer accepted and that a session that
finishes its journals has drained or still has the drain ahead. For the accounts a step is one of four: it
writes nothing that counts, an annotation, a record, or an exclusion (`QuietStep`, `NoteStep`, `RecordStep`,
`ExclusionStep`); each has a lemma over sequences (`AccountsNote`, `AccountsRecord`, `AccountsExclusion`), and
`NextKinds` says which action is which.

### After the session (MillisecondDeriver, ResearchExport)

`MillisecondDeriver` is the algorithm that turns decoded reports into consecutive bins, with numbers that end
where `std::int64_t` ends: `FloorParts` divides as the language does and corrects it, and every checked sum and
product may stop the derivation. Its state is the point the two passes have reached (`stage`, `at`, `bins`), so that
they can be compared with references that know neither: the sums over the reports of an interval
and the movement up to a moment.

| Code | Actions |
|---|---|
| `ReportStreamReader::Next` | `Read` |
| `CoveringBinRange`, the layout | `LayOut` |
| the first pass, `MarkInclusiveBinSpan` | `BinReport`, `AllBinned` |
| the second pass: sort, replay, axes, crosshair | `Integrate` |

`UncertaintyIsMarked` is weaker than one would wish: a bin that starts with the buttons of a marked bin
may show an edge that did not happen and carries no mark itself. Only Y is kept of the four sums, the quality
marks of the reports themselves are left out, and the reports come with decreasing sequence numbers
as well, which the deriver handles and the reader of a stream refuses.

`ResearchExport` is `ExportResearchSession`: validation, reading and derivation before anything is
written, then the directories above the output, the staging directory beside it, nine artifacts in order and one
rename. Each export is a process (`pc`, `written`). A path is the sequence of its names, so that one output can
lie inside another; `dirs` holds the directories there are, each with the export that created it (`by`) and the files
directly in it. The tables are names, and what the validation and the readers find is a record (`source`).

| Code | Actions |
|---|---|
| validation, placement, reading | `Validate`, `PlaceOutput`, `ReadSource` |
| `create_directories(output_parent)` | `CreateParents`; it may fail half way, and nobody undoes it |
| the staging directory | `Inspect`, `CreateStaging` (two steps: another export may come between) |
| artifacts, inventory and manifest | `WriteArtifact`; where the staging directory has gone, `AtomicWriteFile` makes it again (`Recreates`) |
| `rename`, with all that is in the directory | `Publish` (`AfterRename`) |
| `remove_all`, which may fail half way | `RemoveStaging` (`PartlyRemoved`) |

The code refuses only an output inside the source, and one that exists. What follows from that:

- An output inside another one's published directory is allowed. It adds a directory there and changes nothing else
  (`PublishedStays`).
- An output inside another one's staging directory is allowed as well, and there the other export's rename or
  `remove_all` takes the directories of the inner one along. `Enclosed` names these exports; nothing is promised of
  them: the inner export can lose its tables, make its directory again for `clock_fit.json` and end without an error, so that
  `EveryExportIsWhole`, the documented result, does not hold (section 10).
- Directories created above an output stay when the export fails. `FailuresLeaveNothing` therefore allows a
  failed export empty directories in `Above(p)`, and none at all when the source cannot be exported.

| Run | What is asked | Bounds | Result |
|---|---|---|---|
| `after_session` | `RowsAreExact` (`ReportsAreBinnedOnce`, `CrosshairIntegratesTime`), `UncertaintyIsMarked` | 4 reports at 4 moments on both sides of zero, bins of 3, numbers from -13 to 13, an aligned and a persisted origin | holds, 1 392 168 states with the exports |
| | `PublishedIsWhole`, `FailuresLeaveNothing`, `PublishedStays` | 2 exports, 6 places (an output, its staging name, one inside each, one with two missing parents, one inside the source), 7 sources | holds, 496 940 of these |

The derivation and the exports share no state, and an export asks of its derivation only whether it succeeded
(`source.dense`). `MCAfterSession` therefore explores each while the other has not begun.

Four reports give a regression over several bins, a second one inside it and a report on each side. The sequence number of the first
is fixed (`FirstIncreases`): only differences from it matter. Bins of 3 in
a range that does not begin at an edge make each of the checked operations fail. `CHECK_DEADLOCK` is `FALSE` because both end.

Two exports give places with a common staging name, one in the other, and apart, and with each the meeting of every step of one with every step
of the other. Each artifact is written in one step; a fault leaves the directory to the removal.

**Proofs.** `ResearchExportProofs` proves the three safety properties of the export for any number of exports, any places
and any source. `ExportInv` is inductive. Of an export that is not enclosed it says (`Orderly`): before it has
created its staging directory, or once it has removed it, it owns empty directories above its output only
(`IdleOwnsParents`); while it writes it owns its staging directory, too, which holds the first `written`
artifacts (`WriterOwnsStaging`); what it has finished is whole (`FinishedIsWhole`). The argument is that of two actors. Every
step of an export takes or changes directories within its own staging directory only, and what is new is its own or came
from there (`Touches`). `Apart` shows from the names alone that nothing an unenclosed export owns stands within
the staging directory of another unless it is that very directory, and never for an enclosed one; then `NotTaken`
says no step takes what another unenclosed export owns, and `OthersKeep` that its part of the invariant stays. Each action
adds what it does to its own part (`Keeps`). A directory that stood before the exports cannot stand in a staging
directory, as that would have stood before as well (`StandingIsClosed`). The assumptions are that outputs and the
directories that stand are paths, outputs have a parent, and the directories above one that stands do stand.

The second half of `ResearchExportProofs` proves both properties of the derivation, for every width of a bin, every range
of the numbers, every persisted origin and streams of any length. The arithmetic comes first: the corrected quotient is the
floor (`FloorPartsAreFloor`), so `IndexOf` names the bin whose half-open interval holds the time, and no other one
does (`IndexOfIsTheBin`, `TheBinIsTheIndex`). Sums are folds over finite sets that the library says little of, and the
lemmas about them (`SumOneMore`, `SumOfUnion`, `SumOfChange`), like those about the replay (`ReplayHasSteps`), go by
a smallest counterexample, because an induction theorem cannot be instantiated. `DeriverInv` is inductive: in the
first pass `Binned(at - 1)` says of the first reports what the rows say of all in the end, and that each contradiction has
marked its span; in the second, every row before `at` is `Integrated`: it starts as the row before it ended, its
crosshair is that of the time, and `TellsInOrder` says of its edges what the order of the sequence numbers says. With
that `RowsAreExact` is a matter of sets of reports. `UncertaintyIsMarked` needs one more argument, `UnmarkedTells`:
the stream passes a bin that is not marked only upward and never comes back (`CleanIsPassedUpward`,
`CleanIsNotRevisited`), so the reports of such a bin follow each other in the stream as in the replay (`CleanIsInOrder`);
and if the last earlier bin with reports is not marked either, it ends with the report directly before, and the empty rows between
hand its buttons on (`EmptyRowsHandOn`). The assumption is that the constants are numbers and a bin has a width.
`Group` is any order of a bin's reports that ascends in `Before`; it exists because they are finitely many
(`CanBeSorted`) and there is only one, since `Before` never ties, so it is what the stable sort leaves.

## 9. Not modelled

* Packet, HID and report formats, JSON, checksums and the ZIP writer: conversions whose outcomes the
  modules take as kinds of record or of failure.
* Device enumeration and topology (`device/UsbTopologyResolver` and others): queries of Windows APIs, which enter as
  the inventories a scan may find.
* The live report mirror, an ephemeral diagnostic file, and the settings and highscores, small files the
  application reads and replaces.
* The fit of the clocks: floating point, which TLC has no counterpart of.
* The contents of the exported tables, and the command-line tools: batch readers of sealed archives.
* Rendering, audio, layout and window handling: pure I/O.
* Vendored `third_party` code.

## 10. Disagreements that are not runs

These were met while modelling; the properties are in the modules, and each is
reproduced by a configuration with the constants given here and the property as its INVARIANT.

* **A healthy stop can lose its last chunk.** `docs/TESTING.md:35` has a normal full run seal everything.
  `CaptureWorker.cpp:720` combines an earlier empty take with a later look at `reader_finished`; the reader's last
  chunk can fall between the two. The loop ends, nobody takes the chunk, `StopAndDrain` waits for its
  deadline and reports a loss. `MCCaptureWorker` with `MaxBytes`, `ReadChunkBytes` and
  `QueueBytes` 4, `UnitBytes = 2` and the streams `CleanStreams`, `LoopEndsOnEmptyQueue`. Nothing is published wrongly.
* **Records before a fault are not all preserved.** The comment at `CaptureWorker.cpp:672-673` promises the complete
  records before a malformed one. `TakeRecords` throws away those of the same chunk, so the checkpoint
  has nothing to preserve. `MCCaptureWorker` with `MaxBytes`, `ReadChunkBytes` and the queue bound 6 and the streams
  `FaultStreams`, `RecordsBeforeFaultArePreserved`.
* **An interruption can end a complete run as interrupted.** `docs/FAILURE_POLICY.md:26-32` calls interruptions
  recoverable. A pause first moves the clock; if that completes the run, the trainer is complete and the
  session paused, and a resume that comes before the next tick throws (`RecordingSession.cpp:925`).
  `MCRecordingSession` with `Blocks = 1` and `MaxEvents = 1`, `InterruptionsKeepSession`.
* **Nested pauses.** `participant_flow_tests.cpp:190` and `docs/FAILURE_POLICY.md:26-32` have nested pauses not resume too early. The
  session pauses and resumes by focus alone, so that a return of the focus can let the trainer play under a flow that is
  still paused for another reason. `MCParticipantApplication` with `Interruptions = 2`, `PausedFlowHoldsTrainer`.
* **A mouse lost between two scans.** `docs/FAILURE_POLICY.md:28-29` has a lost mouse pause the trainer. If it is unplugged again
  while a scan that saw it present is being answered (`ParticipantApplication.cpp:803-815`), nothing looks for
  it any more. The same module and bound, `LostInputIsNoticed`.
* **TRY AGAIN after a failed check does nothing.** `docs/USER_GUIDE.md:41` has a denied permission retried and
  `participant_flow_tests.cpp:105` calls it retryable. `MarkCertificationAttemptFailed`
  (`ParticipantApplication.cpp:573-588`) submits evidence that `CertificationFlow` answers with `preparation_failed`, from which
  `Retry` refuses; the action (1296-1299) ignores that and shows the ready screen, whose BEGIN CHECK returns at once
  (362-368). `MCParticipantSetup` with the constants of `MCParticipantSetup.cfg` but `MaxChecks = 1`, `TryAgainChecksAgain`.
* **At low sensitivities some targets are left out of the journal.** The protocol takes a sensitivity of "0.01..3.00"
  (`protocol_v1.cpp:532`) and `docs/DATA_CONTRACT.md:73-77` has every target recorded, while the validation refuses some that the
  generator draws ("realized target does not match its protocol-v1 scenario", `protocol_v1.cpp:447-455`) at 0.01 to 0.31, 0.34 and
  0.38. `CoarseIsRefused` proves it of each of these and `TargetsFitUnlessCoarse` that there is no other. `MCTrainerTimeline` with
  `Sensitivity = 20`, the plan `OneStaticBlock` and `MaxEvents = 1`, `TargetsAreAccepted`.
* **An export inside the staging directory of another loses its tables.** `docs/RESEARCH_EXPORT.md:10` restricts an output only so:
  it "must not exist and cannot be inside the sealed session", and the code (`ResearchExport.cpp:747-753`) checks the same. So it may
  lie in the staging directory another export has made. When that one renames (863) or removes (866) it between two
  writes of the inner export, what was written goes; `AtomicWriteFile` makes the directories again for `clock_fit.json`
  (`AtomicFile.cpp:46`), the copies succeed, the inventory lists what is there, and the export ends without an error over a directory
  without the nine artifacts of that document. `MCAfterSession` with `MayDie = FALSE`, `EveryExportIsWhole`.
