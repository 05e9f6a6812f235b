---------------------------- MODULE NativeUsbPcap ----------------------------
(***************************************************************************)
(* The native USBPcap capture object: one reader thread that owns the      *)
(* overlapped read, a bounded queue of byte chunks, and the operations its *)
(* client calls (Start, RequestStop, WaitTakeChunk, StopAndDrain, Abort).  *)
(*                                                                         *)
(* The PCAP byte stream is numbered from 1, so a chunk is the interval of  *)
(* positions it carries and loss, duplication and reordering are visible.  *)
(* The USBPcap driver is external: it is a ring that fills while filtering *)
(* is on and that completes the one outstanding read.                      *)
(***************************************************************************)
EXTENDS Integers, Sequences

CONSTANTS
  MaxBytes,        \* bound on the bytes the device ever produces
  ReadChunkBytes,  \* NativeUsbPcapOptions.read_chunk_bytes
  QueueBytes       \* NativeUsbPcapOptions.consumer_queue_bytes

ASSUME NativeAssumption ==
  /\ MaxBytes \in Nat
  /\ ReadChunkBytes \in Nat \ {0}
  /\ QueueBytes \in Nat \ {0}

VARIABLES
  \* the driver (external)
  filter,          \* "off", "on" or "stopped"
  produced,        \* bytes the driver has put in its ring so far
  fetched,         \* bytes it has handed to completed reads so far
  attached,        \* the device is still there
  io, ioBytes,     \* the overlapped read and the bytes it completed with
  \* the reader thread
  rpc,             \* its position in ReaderLoop
  \* status and queue, guarded by the mutex
  state, stopRequested, stopAttempted, stopSucceeded, quiet, readerFinished,
  queue, queuedBytes, bytesRead, delivered, discarded, overflowed,
  \* the thread that stops the capture
  spc,             \* its position in StopAndDrain or Abort
  snapshotEmpty,   \* StopAndDrain's report.consumer_queue_empty
  handle,          \* "none", "open", "closed" or "leaked" (CloseHandle failed)
  stopCompleted, clean,
  staleEdge        \* history: the read in flight had completed empty before the
                   \* filter was closed, and was looked at afterwards

driverVars == <<filter, produced, fetched, attached, io, ioBytes>>
statusVars == <<state, stopRequested, stopAttempted, stopSucceeded, quiet,
                readerFinished>>
queueVars  == <<queue, queuedBytes, bytesRead, delivered, discarded, overflowed>>
stopVars   == <<spc, snapshotEmpty, handle, stopCompleted, clean,
                staleEdge>>
nativeVars == <<driverVars, rpc, statusVars, queueVars, stopVars>>

FailureStates == {"AccessDenied", "DeviceUnavailable", "ConfigurationFailed",
                  "DeviceLost", "QueueOverflow", "StopFilteringFailed",
                  "CancellationFailed", "DrainFailed", "InternalError"}
NativeStates  == FailureStates \cup
                 {"Idle", "Capturing", "StopRequested", "Draining", "Stopped"}
ReaderPcs     == {"off", "top", "begin", "handle", "wait", "stopping", "final",
                  "cancel", "await", "exit", "finished"}

IsFailureState(s) == s \in FailureStates
LesserOf(a, b)    == IF a < b THEN a ELSE b
RingBytes         == produced - fetched
Chunk             == [lo : Nat, hi : Nat]
ChunkSize(c)      == c.hi - c.lo + 1
\* Mutant: SetFailure overwrites.
AfterAnyFailure(s) == s
\* SetFailure: the first failure is kept.
AfterFailure(s)   == IF IsFailureState(state) THEN state ELSE s

(***************************************************************************)
(* The driver.                                                             *)
(***************************************************************************)
\* n captured bytes reach the ring; a pended read takes them at once.
DeviceTraffic(n) ==
  /\ filter = "on" /\ attached
  /\ produced + n <= MaxBytes
  /\ produced' = produced + n
  /\ IF io = "pending"
       THEN /\ io' = "completed"
            /\ ioBytes' = LesserOf(ReadChunkBytes, RingBytes + n)
            /\ fetched' = fetched + ioBytes'
       ELSE UNCHANGED <<io, ioBytes, fetched>>
  /\ UNCHANGED <<filter, attached, rpc, statusVars, queueVars, stopVars>>

\* A pended read completes successfully with nothing to deliver, as the comment in
\* HandleCompletion says it may both while filtering is active and afterwards.
PendedReadCompletesEmpty ==
  /\ io = "pending" /\ RingBytes = 0
  /\ io' = "completed" /\ ioBytes' = 0
  /\ UNCHANGED <<filter, produced, fetched, attached, rpc, statusVars,
                 queueVars, stopVars>>

\* The device goes away; the pended read fails or is cancelled under us.
DeviceRemoved ==
  /\ attached /\ attached' = FALSE
  /\ IF io = "pending" THEN io' \in {"failed", "cancelled"} ELSE UNCHANGED io
  /\ UNCHANGED <<filter, produced, fetched, ioBytes, rpc, statusVars, queueVars,
                 stopVars>>

DriverStep(traffic) ==
  \/ \E n \in traffic : DeviceTraffic(n)
  \/ PendedReadCompletesEmpty
  \/ DeviceRemoved

(***************************************************************************)
(* The reader thread.                                                      *)
(***************************************************************************)
\* StopFiltering: the IOCTL is issued once, later calls repeat its answer.
StopFilteringOk ==
  /\ stopAttempted => stopSucceeded
  /\ stopAttempted' = TRUE /\ stopSucceeded' = TRUE
  /\ filter' = "stopped"
  /\ UNCHANGED state

StopFilteringFails ==
  /\ stopAttempted => ~stopSucceeded
  /\ stopAttempted' = TRUE /\ stopSucceeded' = FALSE
  /\ state' = AfterFailure("StopFilteringFailed")
  /\ UNCHANGED filter

\* Mutant: the loop head does not look at the stop flag.
ReaderTopDeaf ==
  /\ rpc = "top" /\ rpc' = "begin"
  /\ UNCHANGED <<driverVars, statusVars, queueVars, stopVars>>

\* The head of the loop: a requested stop closes the filter before the next read.
ReaderTop ==
  /\ rpc = "top"
  /\ \/ ~stopRequested /\ rpc' = "begin"
        /\ UNCHANGED <<state, stopAttempted, stopSucceeded, filter>>
     \/ stopRequested /\ StopFilteringOk /\ rpc' = "begin"
     \/ stopRequested /\ StopFilteringFails /\ rpc' = "exit"
  /\ UNCHANGED <<produced, fetched, attached, io, ioBytes, stopRequested, quiet,
                 readerFinished, queueVars, stopVars>>

\* BeginRead: immediate data, an immediate empty completion, a pended read, or
\* an error from the driver.
ReaderBegin ==
  /\ rpc = "begin"
  /\ \/ /\ attached /\ RingBytes > 0
        /\ io' = "completed"
        /\ ioBytes' = LesserOf(ReadChunkBytes, RingBytes)
        /\ fetched' = fetched + ioBytes'
        /\ rpc' = "handle"
        /\ UNCHANGED state
     \/ /\ attached /\ RingBytes = 0
        /\ \/ io' = "completed" /\ rpc' = "handle"
           \/ io' = "pending" /\ rpc' = "wait"
        /\ ioBytes' = 0
        /\ UNCHANGED <<fetched, state>>
     \/ /\ \E s \in {"DeviceLost", "InternalError"} :
             /\ s = "DeviceLost" => ~attached
             /\ state' = AfterFailure(s)
        /\ rpc' = "exit"
        /\ UNCHANGED <<io, ioBytes, fetched>>
  /\ UNCHANGED <<filter, produced, attached, stopRequested, stopAttempted,
                 stopSucceeded, quiet, readerFinished, queueVars, stopVars>>

\* Mutant: any empty read after the stop request counts as the quiet edge.
HandleEmptyEarly ==
  /\ ioBytes = 0
  /\ IF stopRequested
       THEN quiet' = TRUE /\ rpc' = "exit"
       ELSE UNCHANGED quiet /\ rpc' = "top"
  /\ UNCHANGED <<state, stopRequested, queueVars>>

\* HandleCompletion of an empty read: the quiet edge once the filter is closed.
HandleEmpty ==
  /\ ioBytes = 0
  /\ IF stopRequested /\ stopSucceeded
       THEN quiet' = TRUE /\ rpc' = "exit"
       ELSE UNCHANGED quiet /\ rpc' = "top"
  /\ UNCHANGED <<state, stopRequested, queueVars>>

\* EnqueueRead within the bound: the chunk joins the queue.
EnqueueFits ==
  /\ ioBytes > 0
  /\ ioBytes <= QueueBytes - LesserOf(QueueBytes, queuedBytes)
  /\ queue' = Append(queue, [lo |-> bytesRead + 1, hi |-> bytesRead + ioBytes])
  /\ queuedBytes' = queuedBytes + ioBytes
  /\ bytesRead' = bytesRead + ioBytes
  /\ rpc' = "top"
  /\ UNCHANGED <<quiet, state, stopRequested, delivered, discarded, overflowed>>

\* EnqueueRead beyond the bound: the bytes are counted, dropped and the capture
\* stops.
EnqueueOverflows ==
  /\ ioBytes > QueueBytes - LesserOf(QueueBytes, queuedBytes)
  /\ bytesRead' = bytesRead + ioBytes
  /\ discarded' = discarded + ioBytes
  /\ overflowed' = TRUE
  /\ state' = "QueueOverflow"
  /\ stopRequested' = TRUE
  /\ rpc' = "exit"
  /\ UNCHANGED <<quiet, queue, queuedBytes, delivered>>

\* The chunk cannot be allocated: ReaderLoop's catch clause ends the thread
\* before the bytes were counted.
EnqueueThrows ==
  /\ ioBytes > 0
  /\ state' = AfterFailure("InternalError")
  /\ rpc' = "exit"
  /\ UNCHANGED <<quiet, stopRequested, queueVars>>

ReaderHandle ==
  /\ rpc = "handle"
  /\ HandleEmpty \/ EnqueueFits \/ EnqueueOverflows \/ EnqueueThrows
  /\ io' = "none" /\ ioBytes' = 0
  /\ UNCHANGED <<filter, produced, fetched, attached, stopAttempted,
                 stopSucceeded, readerFinished, stopVars>>

\* WaitRead in the capture phase; a timeout matters only once a stop is wanted.
ReaderWait ==
  /\ rpc = "wait"
  /\ \/ io = "completed" /\ rpc' = "handle" /\ UNCHANGED <<io, state>>
     \/ /\ io \in {"failed", "cancelled"}
        /\ \E s \in {"DeviceLost", "InternalError"} :
             /\ io = "cancelled" => s = "DeviceLost"
             /\ state' = AfterFailure(s)
        /\ io' = "none" /\ rpc' = "exit"
     \/ /\ io = "pending" /\ stopRequested
        /\ rpc' = "stopping" /\ UNCHANGED <<io, state>>
  /\ UNCHANGED <<filter, produced, fetched, attached, ioBytes, stopRequested,
                 stopAttempted, stopSucceeded, quiet, readerFinished, queueVars,
                 stopVars>>

\* The wait timed out, then StopFiltering is called: the read may have completed
\* in between.
ReaderStopFilter ==
  /\ rpc = "stopping"
  /\ \/ StopFilteringOk /\ rpc' = "final"
     \/ StopFilteringFails /\ rpc' = "exit"
  /\ staleEdge' = (staleEdge \/ (filter # "stopped" /\ io = "completed" /\ ioBytes = 0))
  /\ UNCHANGED <<produced, fetched, attached, io, ioBytes, stopRequested, quiet,
                 readerFinished, queueVars, spc, snapshotEmpty, handle, stopCompleted,
                 clean>>

\* One more quiet interval for the read that was pending at the filter stop.
ReaderFinal ==
  /\ rpc = "final"
  /\ \/ io = "completed" /\ rpc' = "handle" /\ UNCHANGED <<io, quiet, state>>
     \/ /\ io = "failed" /\ io' = "none" /\ rpc' = "exit"
        /\ \E s \in {"DeviceLost", "CancellationFailed"} : state' = AfterFailure(s)
        /\ UNCHANGED quiet
     \/ /\ io = "cancelled" /\ io' = "none" /\ rpc' = "exit"
        /\ quiet' = TRUE /\ UNCHANGED state
     \/ io = "pending" /\ rpc' = "cancel" /\ UNCHANGED <<io, quiet, state>>
  /\ UNCHANGED <<filter, produced, fetched, attached, ioBytes, stopRequested,
                 stopAttempted, stopSucceeded, readerFinished, queueVars, stopVars>>

\* CancelIoEx: accepted, refused because the read is already done, or failing.
\* A read that does not answer in time stays pending.
ReaderCancel ==
  /\ rpc = "cancel"
  /\ \/ io = "pending" /\ io' \in {"cancelled", "pending"} /\ rpc' = "await"
        /\ UNCHANGED state
     \/ io # "pending" /\ rpc' = "await" /\ UNCHANGED <<io, state>>
     \/ rpc' = "exit" /\ state' = AfterFailure("CancellationFailed") /\ UNCHANGED io
  /\ UNCHANGED <<filter, produced, fetched, attached, ioBytes, stopRequested,
                 stopAttempted, stopSucceeded, quiet, readerFinished, queueVars,
                 stopVars>>

\* The wait for the cancelled read: drained, raced by a completion, failed, or
\* timed out with the read still outstanding.
ReaderAwait ==
  /\ rpc = "await"
  /\ \/ /\ io = "cancelled" /\ io' = "none" /\ rpc' = "exit"
        /\ quiet' = TRUE /\ UNCHANGED state
     \/ io = "completed" /\ rpc' = "handle" /\ UNCHANGED <<io, quiet, state>>
     \/ /\ io = "failed" /\ io' = "none" /\ rpc' = "exit"
        /\ \E s \in {"DeviceLost", "CancellationFailed"} : state' = AfterFailure(s)
        /\ UNCHANGED quiet
     \/ /\ io = "pending" /\ rpc' = "exit"
        /\ state' = AfterFailure("CancellationFailed") /\ UNCHANGED <<io, quiet>>
  /\ UNCHANGED <<filter, produced, fetched, attached, ioBytes, stopRequested,
                 stopAttempted, stopSucceeded, readerFinished, queueVars, stopVars>>

\* The end of ReaderLoop: close the filter if a stop was asked for, then publish
\* reader_finished.
ReaderExit ==
  /\ rpc = "exit"
  /\ rpc' = "finished" /\ readerFinished' = TRUE
  /\ \/ /\ ~stopRequested
        /\ state' = AfterFailure("Draining")
        /\ UNCHANGED <<stopAttempted, stopSucceeded, filter>>
     \/ /\ stopRequested
        /\ stopAttempted => stopSucceeded
        /\ stopAttempted' = TRUE /\ stopSucceeded' = TRUE
        /\ filter' = "stopped"
        /\ state' = AfterFailure("Draining")
     \/ stopRequested /\ StopFilteringFails
  /\ UNCHANGED <<produced, fetched, attached, io, ioBytes, stopRequested, quiet,
                 queueVars, stopVars>>

ReaderStep ==
  \/ ReaderTop \/ ReaderBegin \/ ReaderHandle \/ ReaderWait \/ ReaderStopFilter
  \/ ReaderFinal \/ ReaderCancel \/ ReaderAwait \/ ReaderExit

(***************************************************************************)
(* The client's operations.                                                *)
(***************************************************************************)
\* Start: the setup either reaches a running reader or leaves a failure state
\* with the handle closed again.
Start ==
  /\ state = "Idle" /\ spc = "idle"
  /\ \/ /\ state' = "Capturing" /\ filter' = "on" /\ rpc' = "top"
        /\ handle' = "open"
        /\ UNCHANGED <<stopAttempted, stopSucceeded>>
     \/ /\ state' \in {"AccessDenied", "DeviceUnavailable"}
        /\ UNCHANGED <<filter, rpc, handle, stopAttempted, stopSucceeded>>
     \/ /\ state' = "ConfigurationFailed"
        /\ handle' \in {"none", "closed", "leaked"}
        /\ UNCHANGED <<filter, rpc, stopAttempted, stopSucceeded>>
     \/ \* filtering began, then the read event or the reader thread failed
        /\ state' \in {"ConfigurationFailed", "InternalError"}
        /\ stopAttempted' = TRUE /\ stopSucceeded' \in BOOLEAN
        /\ filter' = IF stopSucceeded' THEN "stopped" ELSE "on"
        /\ handle' \in {"closed", "leaked"}
        /\ UNCHANGED rpc
  /\ UNCHANGED <<produced, fetched, attached, io, ioBytes, stopRequested, quiet,
                 readerFinished, queueVars, spc, snapshotEmpty, stopCompleted,
                 clean, staleEdge>>

\* RequestStop's effect on the shared flags.
StopFlagged ==
  /\ stopRequested' = TRUE
  /\ state' = IF state = "Capturing" THEN "StopRequested" ELSE state

RequestStop ==
  /\ StopFlagged
  /\ UNCHANGED <<driverVars, rpc, stopAttempted, stopSucceeded, quiet,
                 readerFinished, queueVars, stopVars>>

\* Mutant: the newest chunk is taken first.
TakeNewestChunk ==
  /\ queue # <<>>
  /\ queue' = SubSeq(queue, 1, Len(queue) - 1)
  /\ queuedBytes' = queuedBytes - ChunkSize(queue[Len(queue)])
  /\ delivered' = delivered + ChunkSize(queue[Len(queue)])
  /\ UNCHANGED <<driverVars, rpc, statusVars, bytesRead, discarded, overflowed,
                 stopVars>>

\* WaitTakeChunk / TryTakeChunk returning a chunk.
TakeChunk ==
  /\ queue # <<>>
  /\ queue' = Tail(queue)
  /\ queuedBytes' = queuedBytes - ChunkSize(Head(queue))
  /\ delivered' = delivered + ChunkSize(Head(queue))
  /\ UNCHANGED <<driverVars, rpc, statusVars, bytesRead, discarded, overflowed,
                 stopVars>>

\* The first half of StopAndDrain and of Abort: request the stop ...
StopBegin(next) ==
  /\ spc = "idle" /\ ~stopCompleted
  /\ StopFlagged
  /\ spc' = next
  /\ UNCHANGED <<driverVars, rpc, stopAttempted, stopSucceeded, quiet,
                 readerFinished, queueVars, snapshotEmpty, handle, stopCompleted,
                 clean, staleEdge>>

\* ... join the reader, and give the consumer until the deadline to empty the
\* queue.
StopJoin ==
  /\ spc = "drain"
  /\ rpc \in {"off", "finished"}
  /\ snapshotEmpty' = (queuedBytes = 0)
  /\ spc' = "report"
  /\ UNCHANGED <<driverVars, rpc, statusVars, queueVars, handle, stopCompleted,
                 clean, staleEdge>>

\* DestroyContextAndClose.
CloseHandleStep ==
  handle' \in IF handle = "open" THEN {"closed", "leaked"} ELSE {handle}

\* The rest of StopAndDrain: the semantic guard runs only over an empty queue and
\* must account for every byte; then the handle is closed and the verdict is
\* stored. evidence is what the guard returns.
StopReport(evidence) ==
  LET guardPassed == /\ snapshotEmpty
                     /\ evidence.boundary /\ evidence.writerClean
                     /\ evidence.accounted = bytesRead
                     /\ delivered = bytesRead
      closeFailed == handle = "open" /\ handle' = "leaked"
  IN /\ spc = "report"
     /\ CloseHandleStep
     /\ clean' = /\ ~IsFailureState(state) /\ ~closeFailed
                 /\ stopAttempted /\ stopSucceeded /\ quiet
                 /\ guardPassed /\ handle' = "closed"
                 /\ ~overflowed /\ discarded = 0
     /\ state' = IF clean' THEN "Stopped" ELSE AfterFailure("DrainFailed")
     /\ stopCompleted' = TRUE
     /\ spc' = "idle"
     /\ UNCHANGED <<driverVars, rpc, stopRequested, stopAttempted, stopSucceeded,
                    quiet, readerFinished, queueVars, snapshotEmpty, staleEdge>>

\* The rest of Abort: whatever is queued is discarded.
AbortFinish ==
  /\ spc = "abort"
  /\ rpc \in {"off", "finished"}
  /\ discarded' = discarded + queuedBytes
  /\ queue' = <<>> /\ queuedBytes' = 0
  /\ state' = AfterFailure("DrainFailed")
  /\ CloseHandleStep
  /\ spc' = "idle"
  /\ UNCHANGED <<driverVars, rpc, stopRequested, stopAttempted, stopSucceeded,
                 quiet, readerFinished, bytesRead, delivered, overflowed,
                 snapshotEmpty, stopCompleted, clean, staleEdge>>

NativeInit ==
  /\ filter = "off" /\ produced = 0 /\ fetched = 0 /\ attached = TRUE
  /\ io = "none" /\ ioBytes = 0
  /\ rpc = "off"
  /\ state = "Idle" /\ stopRequested = FALSE
  /\ stopAttempted = FALSE /\ stopSucceeded = FALSE /\ quiet = FALSE
  /\ readerFinished = FALSE
  /\ queue = <<>> /\ queuedBytes = 0 /\ bytesRead = 0 /\ delivered = 0
  /\ discarded = 0 /\ overflowed = FALSE
  /\ spc = "idle" /\ snapshotEmpty = FALSE /\ handle = "none"
  /\ stopCompleted = FALSE /\ clean = FALSE /\ staleEdge = FALSE

NativeNext ==
  \/ DriverStep(1..MaxBytes)
  \/ ReaderStep
  \/ Start \/ RequestStop \/ TakeChunk
  \/ StopBegin("drain") \/ StopBegin("abort")
  \/ StopJoin
  \/ \E boundary, writerClean \in BOOLEAN, accounted \in 0..MaxBytes :
       StopReport([boundary |-> boundary, writerClean |-> writerClean,
                   accounted |-> accounted])
  \/ AbortFinish

NativeSpec == NativeInit /\ [][NativeNext]_nativeVars /\ WF_nativeVars(ReaderStep)

(***************************************************************************)
(* What the object promises.                                               *)
(***************************************************************************)
\* Type invariant.
TypeOK ==
  /\ filter \in {"off", "on", "stopped"}
  /\ produced \in 0..MaxBytes /\ fetched \in 0..produced
  /\ attached \in BOOLEAN
  /\ io \in {"none", "pending", "completed", "failed", "cancelled"}
  /\ ioBytes \in 0..ReadChunkBytes
  /\ rpc \in ReaderPcs
  /\ state \in NativeStates
  /\ stopRequested \in BOOLEAN /\ stopAttempted \in BOOLEAN
  /\ stopSucceeded \in BOOLEAN /\ quiet \in BOOLEAN /\ readerFinished \in BOOLEAN
  /\ queue \in Seq(Chunk)
  /\ queuedBytes \in Nat /\ bytesRead \in Nat
  /\ delivered \in Nat /\ discarded \in Nat /\ overflowed \in BOOLEAN
  /\ spc \in {"idle", "drain", "report", "abort"}
  /\ snapshotEmpty \in BOOLEAN
  /\ handle \in {"none", "open", "closed", "leaked"}
  /\ stopCompleted \in BOOLEAN /\ clean \in BOOLEAN /\ staleEdge \in BOOLEAN

\* Every byte the reader counted is delivered, queued or counted as discarded,
\* whatever the interleaving of the reader, the consumer, a stop and an abort.
ByteAccounting == bytesRead = delivered + queuedBytes + discarded

\* The queue holds exactly the stream positions after the delivered ones, in
\* order and without a gap: no chunk is lost, repeated or reordered on its way.
QueueIsStreamInOrder ==
  \A i \in 1..Len(queue) :
    /\ queue[i].lo <= queue[i].hi
    /\ queue[i].lo = IF i = 1 THEN delivered + 1 ELSE queue[i - 1].hi + 1
    /\ i = Len(queue) => queue[i].hi = delivered + queuedBytes

\* The consumer queue never holds more than its bound.
QueueBound == queuedBytes <= QueueBytes

\* Between the reader and the consumer nothing is lost, repeated, reordered or counted
\* twice, and the bound holds, in every well-typed state.
UndeliveredIsQueued ==
  TypeOK /\ ByteAccounting /\ QueueIsStreamInOrder /\ QueueBound

\* A stop that StopAndDrain calls clean ("native filter, kernel read, queue, parser,
\* and writer drained cleanly") lost nothing: every byte the driver put in its ring
\* was handed to the consumer. The code does not keep this, see the next property.
CleanStopIsLossless == clean => delivered = produced

\* What a clean stop does keep: every byte that was read reached the consumer, and
\* bytes stay behind in the driver's ring in one case only, when the read that counted
\* as the quiet edge had completed empty before the filter was closed.
CleanStopMissesOnlyStaleEdge ==
  clean => delivered = fetched /\ (staleEdge \/ fetched = produced)

\* A reader that ends without a failure leaves no read outstanding, so the
\* buffer it frees is no longer the driver's.
CleanReaderLeavesNoRead ==
  readerFinished /\ ~IsFailureState(state) => io = "none"

\* Neither end called clean leaves anything behind: no byte in the driver's ring unless
\* the quiet edge was a stale one, and no read into a buffer that is freed.
CleanEndLeavesNothing == CleanStopMissesOnlyStaleEdge /\ CleanReaderLeavesNoRead

\* The first failure is the one that stays in the status, although EnqueueRead
\* writes its own without looking.
FirstFailureKept == [][IsFailureState(state) => state' = state]_nativeVars

\* A stop request ends the reader: it never waits for traffic that may not come.
StopEndsReader == stopRequested /\ rpc # "off" ~> readerFinished
=============================================================================
