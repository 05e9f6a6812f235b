---------------------------- MODULE CaptureWorker ----------------------------
(***************************************************************************)
(* The capture worker: the consumer thread (Run) that moves chunks from    *)
(* the native capture object to the pipeline, seals, drains and publishes, *)
(* and the controller thread that asks it to stop. It composes the reader  *)
(* thread and driver of NativeUsbPcap with CapturePipeline.                *)
(***************************************************************************)
EXTENDS NativeUsbPcap, CapturePipeline

VARIABLES
  wpc,            \* the position in Run
  sourceStarted,  \* source_started_
  stopFlag,       \* stop_requested_ of the worker
  stopForwarded,  \* local: the stop was handed to the source
  received,       \* local: WaitTakeChunk returned a chunk
  pendingReason,  \* pending_reason, then the result's fatal_reason
  wstate,         \* the published snapshot's state
  ctl             \* the controller in RequestStop: "idle", "stored" or "sent"

workerVars  == <<wpc, sourceStarted, stopFlag, stopForwarded, received,
                 pendingReason, wstate, ctl>>
captureVars == <<nativeVars, pipelineVars, workerVars>>

FatalReasons == {"None", "InvalidConfiguration", "QueueOrByteLoss",
                 "NativeOrDeviceLoss", "DeviceIdentityChanged", "PcapFraming",
                 "WriterFailure"}
WorkerStates == {"Idle", "Starting", "Running", "StopRequested", "Draining",
                 "Publishing", "Completed", "Failed"}
WorkerPcs    == {"start", "started", "loop", "take", "process", "salvage", "abort",
                 "aborting", "flush", "status", "seal", "drain", "join", "report",
                 "publish", "done"}

(***************************************************************************)
(* Classification.                                                         *)
(***************************************************************************)
\* FailureForNativeState: a counted loss outranks the state.
FailureForNativeState ==
  IF overflowed \/ discarded # 0 \/ state = "QueueOverflow" THEN "QueueOrByteLoss"
  ELSE IF IsFailureState(state) THEN "NativeOrDeviceLoss" ELSE "None"

\* FailureForStopReport, over the report StopAndDrain just made: the guard, hence
\* bytes_accounted, is filled only when the queue was empty.
FailureForStopReport ==
  IF \/ overflowed \/ discarded # 0
     \/ delivered # bytesRead
     \/ (IF snapshotEmpty THEN sourceBytes ELSE 0) # bytesRead
     \/ ~snapshotEmpty
  THEN "QueueOrByteLoss" ELSE "NativeOrDeviceLoss"

FailureForPipelineError(error) ==
  CASE error = "PcapFraming"    -> "PcapFraming"
    [] error = "DeviceIdentity" -> "DeviceIdentityChanged"
    [] OTHER                    -> "WriterFailure"

\* The first fatal reason is the one Run returns.
FirstReason(reason) == IF pendingReason = "None" THEN reason ELSE pendingReason

(***************************************************************************)
(* Run: starting.                                                          *)
(***************************************************************************)
WorkerStart ==
  /\ wpc = "start"
  /\ \/ /\ Start
        /\ IF state' = "Capturing"
             THEN wpc' = "started" /\ UNCHANGED pendingReason
             ELSE wpc' = "abort" /\ pendingReason' = "NativeOrDeviceLoss"
        /\ wstate' = "Starting"
     \/ /\ wpc' = "done" /\ pendingReason' = "InvalidConfiguration"
        /\ wstate' = "Failed"
        /\ UNCHANGED nativeVars
  /\ UNCHANGED <<pipelineVars, sourceStarted, stopFlag, stopForwarded, received, ctl>>

WorkerStarted ==
  /\ wpc = "started" /\ wpc' = "loop"
  /\ sourceStarted' = TRUE /\ wstate' = "Running"
  /\ UNCHANGED <<nativeVars, pipelineVars, stopFlag, stopForwarded, received,
                 pendingReason, ctl>>

(***************************************************************************)
(* Run: the consumer loop.                                                 *)
(***************************************************************************)
\* Mutant: a stop stored before the source was started is never forwarded.
WorkerLoopDeaf ==
  /\ wpc = "loop" /\ wpc' = "take"
  /\ UNCHANGED <<nativeVars, pipelineVars, sourceStarted, stopFlag, stopForwarded,
                 received, pendingReason, wstate, ctl>>

\* The head of the loop forwards a stop once.
WorkerLoop ==
  /\ wpc = "loop" /\ wpc' = "take"
  /\ IF stopFlag /\ ~stopForwarded
       THEN RequestStop /\ stopForwarded' = TRUE /\ wstate' = "StopRequested"
       ELSE UNCHANGED <<nativeVars, stopForwarded, wstate>>
  /\ UNCHANGED <<pipelineVars, sourceStarted, stopFlag, received, pendingReason, ctl>>

\* What an exception of ProcessChunk does: framing and identity faults attempt a
\* last checkpoint before the abort.
PipelineThrew(error) ==
  /\ wpc' = IF error \in {"PcapFraming", "DeviceIdentity"} THEN "salvage" ELSE "abort"
  /\ pendingReason' = FailureForPipelineError(error)

WorkerTake ==
  /\ wpc = "take"
  /\ \/ /\ TakeChunk /\ received' = TRUE
        /\ \/ ChunkArrives(delivered', "none") /\ wpc' = "process" /\ UNCHANGED pendingReason
           \/ \E error \in ErrorKinds :
                ChunkArrives(delivered', error) /\ PipelineThrew(error)
     \/ /\ queue = <<>> /\ received' = FALSE
        /\ wpc' = "flush"
        /\ UNCHANGED <<nativeVars, pipelineVars, pendingReason>>
  /\ UNCHANGED <<sourceStarted, stopFlag, stopForwarded, wstate, ctl>>

WorkerProcess ==
  /\ wpc = "process"
  /\ \/ todo = <<>> /\ wpc' = "flush" /\ UNCHANGED <<pipelineVars, pendingReason>>
     \/ RecordRetained /\ UNCHANGED <<wpc, pendingReason>>
     \/ \E error \in ErrorKinds : RecordFails(error) /\ PipelineThrew(error)
  /\ UNCHANGED <<nativeVars, sourceStarted, stopFlag, stopForwarded, received,
                 wstate, ctl>>

\* The last checkpoint after a framing or identity fault; its failure is ignored.
WorkerSalvage ==
  /\ wpc = "salvage" /\ wpc' = "abort"
  /\ Checkpoint \/ CheckpointFails
  /\ UNCHANGED <<nativeVars, sourceStarted, stopFlag, stopForwarded, received,
                 pendingReason, wstate, ctl>>

\* source_.Abort(), then the failed result.
WorkerAbort ==
  /\ \/ wpc = "abort" /\ StopBegin("abort") /\ wpc' = "aborting"
        /\ UNCHANGED <<sourceStarted, wstate>>
     \/ wpc = "aborting" /\ AbortFinish /\ wpc' = "done"
        /\ sourceStarted' = FALSE /\ wstate' = "Failed"
  /\ UNCHANGED <<pipelineVars, stopFlag, stopForwarded, received, pendingReason, ctl>>

\* The periodic durable flush, when its time has come.
WorkerFlush ==
  /\ wpc = "flush"
  /\ \/ wpc' = "status" /\ UNCHANGED <<pipelineVars, pendingReason>>
     \/ wpc' = "status" /\ Checkpoint /\ UNCHANGED pendingReason
     \/ wpc' = "abort" /\ CheckpointFails /\ pendingReason' = "WriterFailure"
  /\ UNCHANGED <<nativeVars, sourceStarted, stopFlag, stopForwarded, received,
                 wstate, ctl>>

\* The condition that ends the loop.
LoopIsOver == ~received /\ readerFinished

\* One look at the native status: a failure stops the source; a finished reader
\* ends the loop, if the last take came back empty.
WorkerStatus ==
  LET failed == FailureForNativeState # "None" /\ pendingReason = "None"
      reason == IF failed THEN FailureForNativeState ELSE pendingReason
  IN /\ wpc = "status"
     /\ IF failed
          THEN RequestStop /\ stopForwarded' = TRUE
          ELSE UNCHANGED <<nativeVars, stopForwarded>>
     /\ pendingReason' = IF LoopIsOver /\ ~stopForwarded' /\ reason = "None"
                         THEN "NativeOrDeviceLoss" ELSE reason
     /\ wpc' = IF LoopIsOver THEN "seal" ELSE "loop"
     /\ wstate' = IF LoopIsOver \/ stopForwarded' THEN "Draining" ELSE "Running"
     /\ UNCHANGED <<pipelineVars, sourceStarted, stopFlag, received, ctl>>

(***************************************************************************)
(* Run: sealing, draining, publishing.                                     *)
(***************************************************************************)
WorkerSeal ==
  /\ wpc = "seal" /\ wpc' = "drain"
  /\ \/ Seal /\ UNCHANGED pendingReason
     \/ \E error \in ErrorKinds :
          /\ SealFails(error)
          /\ pendingReason' = FirstReason(FailureForPipelineError(error))
  /\ UNCHANGED <<nativeVars, sourceStarted, stopFlag, stopForwarded, received,
                 wstate, ctl>>

\* StopAndDrain, and what its report means.
WorkerDrain ==
  /\ \/ wpc = "drain" /\ StopBegin("drain") /\ wpc' = "join"
        /\ UNCHANGED <<sourceStarted, pendingReason>>
     \/ wpc = "join" /\ StopJoin /\ wpc' = "report"
        /\ UNCHANGED <<sourceStarted, pendingReason>>
     \/ /\ wpc = "report" /\ StopReport(DrainEvidence)
        /\ wpc' = "publish"
        /\ sourceStarted' = FALSE
        /\ pendingReason' = IF clean' THEN pendingReason
                            ELSE FirstReason(FailureForStopReport)
  /\ UNCHANGED <<pipelineVars, stopFlag, stopForwarded, received, wstate, ctl>>

\* Mutant: the products are published whatever the drain said.
WorkerPublishAlways ==
  /\ wpc = "publish" /\ wpc' = "done"
  /\ IF sealed THEN Publish /\ wstate' = "Completed"
               ELSE wstate' = "Failed" /\ UNCHANGED pipelineVars
  /\ UNCHANGED pendingReason
  /\ UNCHANGED <<nativeVars, sourceStarted, stopFlag, stopForwarded, received, ctl>>

\* Publication happens only when nothing went wrong before it.
WorkerPublish ==
  /\ wpc = "publish" /\ wpc' = "done"
  /\ \/ /\ pendingReason = "None" /\ Publish
        /\ wstate' = "Completed" /\ UNCHANGED pendingReason
     \/ /\ pendingReason = "None" /\ PublishFails
        /\ wstate' = "Failed" /\ pendingReason' = "WriterFailure"
     \/ /\ pendingReason # "None"
        /\ wstate' = "Failed" /\ UNCHANGED <<pipelineVars, pendingReason>>
  /\ UNCHANGED <<nativeVars, sourceStarted, stopFlag, stopForwarded, received, ctl>>

WorkerStep ==
  \/ WorkerStart \/ WorkerStarted \/ WorkerLoop \/ WorkerTake \/ WorkerProcess
  \/ WorkerSalvage \/ WorkerAbort \/ WorkerFlush \/ WorkerStatus \/ WorkerSeal
  \/ WorkerDrain \/ WorkerPublish

(***************************************************************************)
(* The controller's RequestStop: store the flag, then reach the source     *)
(* directly if it is already started.                                      *)
(***************************************************************************)
ControllerStop ==
  /\ \/ ctl = "idle" /\ ctl' = "stored" /\ stopFlag' = TRUE
        /\ UNCHANGED nativeVars
     \/ /\ ctl = "stored" /\ ctl' = "sent"
        /\ IF sourceStarted THEN RequestStop ELSE UNCHANGED nativeVars
        /\ UNCHANGED stopFlag
  /\ UNCHANGED <<pipelineVars, wpc, sourceStarted, stopForwarded, received,
                 pendingReason, wstate>>

\* The driver produces whole units of this run's stream.
WorkerDriver ==
  /\ DriverStep(IF produced + UnitBytes <= StreamBytes THEN {UnitBytes} ELSE {})
  /\ UNCHANGED <<pipelineVars, workerVars>>

WorkerReader == ReaderStep /\ UNCHANGED <<pipelineVars, workerVars>>

WorkerInit ==
  /\ NativeInit /\ PipelineInit
  /\ wpc = "start" /\ sourceStarted = FALSE
  /\ stopFlag = FALSE /\ stopForwarded = FALSE /\ received = FALSE
  /\ pendingReason = "None" /\ wstate = "Idle" /\ ctl = "idle"

\* Run has returned: the system may stop here, and only here.
WorkerReturned == wpc = "done" /\ UNCHANGED captureVars

WorkerNext ==
  WorkerDriver \/ WorkerReader \/ WorkerStep \/ ControllerStop \/ WorkerReturned

\* The reader and the consumer are threads that keep running; nothing obliges the
\* device to produce traffic or the controller to stop.
WorkerSpec ==
  /\ WorkerInit /\ [][WorkerNext]_captureVars
  /\ WF_captureVars(WorkerReader) /\ WF_captureVars(WorkerStep)

(***************************************************************************)
(* What the worker promises.                                               *)
(***************************************************************************)
Retainable(kind) == kind \notin {"foreign", "badPacket", "badLength"}
Reported(kind)   == kind \in {"mouse", "noted"}

\* Type invariant of the worker's and the pipeline's own state.
CaptureTypeOK ==
  /\ wpc \in WorkerPcs /\ wstate \in WorkerStates /\ pendingReason \in FatalReasons
  /\ sourceStarted \in BOOLEAN /\ stopFlag \in BOOLEAN
  /\ stopForwarded \in BOOLEAN /\ received \in BOOLEAN
  /\ ctl \in {"idle", "stored", "sent"}
  /\ units \in Streams /\ sourceBytes \in 0..StreamBytes
  /\ todo \in Seq(2..Len(units)) /\ pcap \in Seq(2..Len(units))
  /\ reports \in Seq(2..Len(units)) /\ anomalies \in Seq(2..Len(units))
  /\ durable \in 0..Len(pcap)
  /\ writer \in {"none", "open", "final"} /\ writerFailed \in BOOLEAN
  /\ reportStream \in {"none", "open", "final"}
  /\ journal \in {"none", "open", "final"}
  /\ sealed \in BOOLEAN /\ published \in BOOLEAN

\* The device PCAP is the exact run of the certified device's records from the
\* first one on: no gap, no repetition, and nothing of another device, although
\* chunks cut records anywhere and faults end the run anywhere.
RawIsExactPrefix ==
  /\ \A i \in 1..Len(pcap) : pcap[i] = i + 1 /\ Retainable(units[i + 1])
  /\ pcap # <<>> => Len(pcap) < Arrived(delivered)

\* A published capture is complete: everything the reader read is in the durable
\* device PCAP, across every interleaving of driver, reader, consumer, and controller,
\* and that is everything the device produced unless the quiet edge of the stop was a
\* stale one; a report stream that still exists beside it holds the reports of the raw
\* records, of all of them and of no others.
PublishedIsComplete ==
  published =>
    /\ fetched = UnitBytes * (Len(pcap) + 1)
    /\ staleEdge \/ produced = fetched
    /\ writer = "final" /\ durable = Len(pcap)
    /\ reportStream = "final" =>
         \A j \in 1..Len(pcap) :
           (\E i \in 1..Len(reports) : reports[i] = pcap[j]) <=> Reported(units[pcap[j]])

\* A derivative never speaks of a record that is not in the raw PCAP, never
\* twice of the same one, and always in stream order.
DerivativesFollowRaw ==
  \A product \in {reports, anomalies} :
    \A i \in 1..Len(product) :
      /\ \E j \in 1..Len(pcap) : product[i] = pcap[j]
      /\ i > 1 => product[i - 1] < product[i]

\* Whatever is written stays true to the stream: the raw records exactly, the
\* derivatives after them, in every well-typed state.
ProductsFollowStream == CaptureTypeOK /\ RawIsExactPrefix /\ DerivativesFollowRaw

\* Run calls a capture clean only if StopAndDrain did and the products are out.
CompletedMeansPublished ==
  wpc = "done" => /\ (wstate = "Completed") <=> published
                  /\ (pendingReason = "None") <=> published
                  /\ published => clean

\* What is out is complete, and Run's verdict says whether it is.
CompleteIsWhatIsPublished == PublishedIsComplete /\ CompletedMeansPublished

\* Once Run began it returns when a stop is asked for, at any moment and even before
\* the source was started, and when the device goes away without anybody asking.
RunReturns == []<>(wpc # "start" /\ (stopFlag \/ ~attached) => wpc = "done")

(***************************************************************************)
(* What comments and messages of the code say, and the runs refute.        *)
(***************************************************************************)
\* Run leaves its loop without a failure only after the queue was emptied.
LoopEndsOnEmptyQueue ==
  wpc = "seal" /\ pendingReason = "None" => queue = <<>>

\* After a framing fault every complete device record before it is preserved.
RecordsBeforeFaultArePreserved ==
  wpc = "done" /\ pendingReason = "PcapFraming" /\ units[1] = "header" =>
    \A i \in 2..Arrived(sourceBytes) :
      (\A j \in 2..i : Retainable(units[j])) => i - 1 <= Len(pcap)
=============================================================================
