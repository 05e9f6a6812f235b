------------------------- MODULE CaptureWorkerProofs -------------------------
(***************************************************************************)
(* Proofs about the capture object and the capture worker, for every       *)
(* amount of traffic, every stream, every size of units, reads, chunks and *)
(* queue, and every interleaving of the threads with the driver. The first *)
(* part is about the native object alone. The worker is one client of it,  *)
(* so its invariants hold there as well; the second part adds what the     *)
(* consumer does with the chunks.                                          *)
(***************************************************************************)
EXTENDS CaptureWorker, SequenceTheorems, TLAPS


(***************************************************************************)
(* The queue invariant. Besides the properties the runs check, it says     *)
(* where queued chunks end, that an empty queue counts no byte, and that   *)
(* nothing was discarded while the reader still enqueues: otherwise the    *)
(* next chunk would not continue the stream.                               *)
(***************************************************************************)
QueueEndsInside   == \A i \in 1..Len(queue) : queue[i].hi <= delivered + queuedBytes
EmptyQueueIsZero  == queue = <<>> => queuedBytes = 0
NoLossWhileActive == rpc \notin {"exit", "finished"} => discarded = 0
NothingBeforeStart == rpc = "off" => queuedBytes = 0

QueueInv ==
  /\ ByteAccounting /\ QueueIsStreamInOrder /\ QueueBound
  /\ QueueEndsInside /\ EmptyQueueIsZero /\ NoLossWhileActive /\ NothingBeforeStart

\* The actions that leave the counters and the queue alone.
QueueUntouched ==
  UNCHANGED <<queue, queuedBytes, bytesRead, delivered, discarded>>

\* The first chunk starts right after the delivered bytes and ends within the
\* queued ones, so taking it never makes a counter negative.
LEMMA HeadBounds ==
  ASSUME TypeOK, QueueInv, queue # <<>>
  PROVE  /\ Len(queue) \in Nat \ {0}
         /\ Head(queue) = queue[1]
         /\ Head(queue) \in Chunk
         /\ Head(queue).lo = delivered + 1
         /\ ChunkSize(Head(queue)) \in Nat \ {0}
         /\ ChunkSize(Head(queue)) <= queuedBytes
<1>1. queue \in Seq(Chunk) /\ delivered \in Nat /\ queuedBytes \in Nat
  BY DEF TypeOK
<1>2. Len(queue) \in Nat \ {0} /\ Head(queue) = queue[1] /\ queue[1] \in Chunk
  BY <1>1
<1>3. queue[1].lo = delivered + 1 /\ queue[1].lo <= queue[1].hi
  BY <1>2 DEF QueueInv, QueueIsStreamInOrder
<1>4. queue[1].hi <= delivered + queuedBytes
  BY <1>2 DEF QueueInv, QueueEndsInside
<1>5. queue[1].lo \in Nat /\ queue[1].hi \in Nat
  BY <1>2 DEF Chunk
<1> QED
  BY <1>1, <1>2, <1>3, <1>4, <1>5 DEF ChunkSize

\* SetFailure stores one of the states.
LEMMA AfterFailureType ==
  ASSUME TypeOK, NEW s \in NativeStates
  PROVE  AfterFailure(s) \in NativeStates
BY DEF TypeOK, AfterFailure

\* What closing the filter can do to the variables it writes.
LEMMA StopFilteringType ==
  ASSUME TypeOK, StopFilteringOk \/ StopFilteringFails
  PROVE  /\ stopAttempted' \in BOOLEAN /\ stopSucceeded' \in BOOLEAN
         /\ filter' \in {"off", "on", "stopped"}
         /\ state' \in NativeStates
<1>1. stopAttempted' \in BOOLEAN /\ stopSucceeded' \in BOOLEAN
  BY DEF StopFilteringOk, StopFilteringFails
<1>2. filter' \in {"off", "on", "stopped"}
  BY DEF TypeOK, StopFilteringOk, StopFilteringFails
<1>3. "StopFilteringFailed" \in NativeStates
  BY DEF NativeStates, FailureStates
<1>4. state' \in NativeStates
  BY <1>3, AfterFailureType DEF TypeOK, StopFilteringOk, StopFilteringFails
<1> QED
  BY <1>1, <1>2, <1>4

\* Type correctness is preserved by every step.
LEMMA TypeStep ==
  ASSUME TypeOK, QueueInv, [NativeNext]_nativeVars
  PROVE  TypeOK'
<1> USE NativeAssumption
<1>1. ASSUME NEW n \in 1..MaxBytes, DeviceTraffic(n) PROVE TypeOK'
  BY <1>1 DEF TypeOK, DeviceTraffic, RingBytes, LesserOf, statusVars, queueVars, stopVars
<1>2. CASE PendedReadCompletesEmpty
  BY <1>2 DEF TypeOK, PendedReadCompletesEmpty, statusVars, queueVars, stopVars
<1>3. CASE DeviceRemoved
  <2>1. attached' \in BOOLEAN
    BY <1>3 DEF DeviceRemoved
  <2>2. io' \in {"none", "pending", "completed", "failed", "cancelled"}
    BY <1>3 DEF DeviceRemoved, TypeOK
  <2> QED
    BY <1>3, <2>1, <2>2 DEF TypeOK, DeviceRemoved, statusVars, queueVars, stopVars
<1>4. CASE ReaderTop
  <2>1. rpc' \in ReaderPcs
    BY <1>4 DEF ReaderTop, ReaderPcs
  <2>2. \/ StopFilteringOk \/ StopFilteringFails
        \/ UNCHANGED <<state, stopAttempted, stopSucceeded, filter>>
    BY <1>4 DEF ReaderTop
  <2>3. /\ stopAttempted' \in BOOLEAN /\ stopSucceeded' \in BOOLEAN
        /\ filter' \in {"off", "on", "stopped"} /\ state' \in NativeStates
    BY <2>2, StopFilteringType DEF TypeOK
  <2> QED
    BY <1>4, <2>1, <2>3 DEF TypeOK, ReaderTop, queueVars, stopVars
<1>5. CASE ReaderBegin
  BY <1>5 DEF TypeOK, ReaderBegin, RingBytes, LesserOf, AfterFailure,
              NativeStates, FailureStates, IsFailureState, ReaderPcs, queueVars, stopVars
<1>6. CASE ReaderHandle
  <2>1. CASE HandleEmpty
    <3>1. rpc' \in ReaderPcs /\ quiet' \in BOOLEAN
      BY <2>1 DEF TypeOK, HandleEmpty, ReaderPcs
    <3> QED
      BY <1>6, <2>1, <3>1 DEF TypeOK, ReaderHandle, HandleEmpty, queueVars, stopVars
  <2>2. CASE EnqueueFits
    BY <1>6, <2>2 DEF TypeOK, ReaderHandle, EnqueueFits, Chunk, ReaderPcs, stopVars
  <2>3. CASE EnqueueOverflows
    BY <1>6, <2>3 DEF TypeOK, ReaderHandle, EnqueueOverflows, ReaderPcs, NativeStates,
                      FailureStates, stopVars
  <2>4. CASE EnqueueThrows
    BY <1>6, <2>4 DEF TypeOK, ReaderHandle, EnqueueThrows, ReaderPcs, AfterFailure,
                      NativeStates, FailureStates, IsFailureState, queueVars, stopVars
  <2> QED
    BY <1>6, <2>1, <2>2, <2>3, <2>4 DEF ReaderHandle
<1>7. CASE ReaderWait
  BY <1>7 DEF TypeOK, ReaderWait, AfterFailure, NativeStates, FailureStates,
              IsFailureState, ReaderPcs, queueVars, stopVars
<1>8. CASE ReaderStopFilter
  <2>1. rpc' \in ReaderPcs
    BY <1>8 DEF ReaderStopFilter, ReaderPcs
  <2>2. /\ stopAttempted' \in BOOLEAN /\ stopSucceeded' \in BOOLEAN
        /\ filter' \in {"off", "on", "stopped"} /\ state' \in NativeStates
    BY <1>8, StopFilteringType DEF ReaderStopFilter
  <2> QED
    BY <1>8, <2>1, <2>2 DEF TypeOK, ReaderStopFilter, queueVars, stopVars
<1>9. CASE ReaderFinal
  <2>1. rpc' \in ReaderPcs
    BY <1>9 DEF ReaderFinal, ReaderPcs
  <2>2. io' \in {"none", "pending", "completed", "failed", "cancelled"}
    BY <1>9 DEF ReaderFinal, TypeOK
  <2>3. quiet' \in BOOLEAN
    BY <1>9 DEF ReaderFinal, TypeOK
  <2>4. {"DeviceLost", "CancellationFailed"} \subseteq NativeStates
    BY DEF NativeStates, FailureStates
  <2>5. state' \in NativeStates
    BY <1>9, <2>4, AfterFailureType DEF ReaderFinal, TypeOK
  <2> QED
    BY <1>9, <2>1, <2>2, <2>3, <2>5 DEF TypeOK, ReaderFinal, queueVars, stopVars
<1>10. CASE ReaderCancel
  BY <1>10 DEF TypeOK, ReaderCancel, AfterFailure, NativeStates, FailureStates,
               IsFailureState, ReaderPcs, queueVars, stopVars
<1>11. CASE ReaderAwait
  <2>1. rpc' \in ReaderPcs
    BY <1>11 DEF ReaderAwait, ReaderPcs
  <2>2. io' \in {"none", "pending", "completed", "failed", "cancelled"}
    BY <1>11 DEF ReaderAwait, TypeOK
  <2>3. quiet' \in BOOLEAN
    BY <1>11 DEF ReaderAwait, TypeOK
  <2>4. {"DeviceLost", "CancellationFailed"} \subseteq NativeStates
    BY DEF NativeStates, FailureStates
  <2>5. state' \in NativeStates
    BY <1>11, <2>4, AfterFailureType DEF ReaderAwait, TypeOK
  <2> QED
    BY <1>11, <2>1, <2>2, <2>3, <2>5 DEF TypeOK, ReaderAwait, queueVars, stopVars
<1>12. CASE ReaderExit
  <2>1. rpc' \in ReaderPcs /\ readerFinished' \in BOOLEAN
    BY <1>12 DEF ReaderExit, ReaderPcs
  <2>2. stopAttempted' \in BOOLEAN /\ stopSucceeded' \in BOOLEAN
    BY <1>12 DEF ReaderExit, TypeOK, StopFilteringFails
  <2>3. filter' \in {"off", "on", "stopped"}
    BY <1>12 DEF ReaderExit, TypeOK, StopFilteringFails
  <2>4. {"Draining", "StopFilteringFailed"} \subseteq NativeStates
    BY DEF NativeStates, FailureStates
  <2>5. state' \in NativeStates
    BY <1>12, <2>4, AfterFailureType DEF ReaderExit, StopFilteringFails
  <2> QED
    BY <1>12, <2>1, <2>2, <2>3, <2>5 DEF TypeOK, ReaderExit, queueVars, stopVars
<1>13. CASE Start
  <2>1. rpc' \in ReaderPcs /\ filter' \in {"off", "on", "stopped"}
    BY <1>13 DEF Start, TypeOK, ReaderPcs
  <2>2. stopAttempted' \in BOOLEAN /\ stopSucceeded' \in BOOLEAN
    BY <1>13 DEF Start, TypeOK
  <2>3. state' \in NativeStates
    BY <1>13 DEF Start, NativeStates, FailureStates
  <2>4. handle' \in {"none", "open", "closed", "leaked"}
    BY <1>13 DEF Start, TypeOK
  <2> QED
    BY <1>13, <2>1, <2>2, <2>3, <2>4 DEF TypeOK, Start, queueVars
<1>14. CASE RequestStop
  BY <1>14 DEF TypeOK, RequestStop, StopFlagged, NativeStates, driverVars, queueVars, stopVars
<1>15. CASE TakeChunk
  <2>1. queue \in Seq(Chunk) /\ queue # <<>>
    BY <1>15 DEF TypeOK, TakeChunk
  <2>2. Tail(queue) \in Seq(Chunk)
    BY <2>1
  <2>3. /\ queuedBytes - ChunkSize(Head(queue)) \in Nat
        /\ delivered + ChunkSize(Head(queue)) \in Nat
    BY <2>1, HeadBounds DEF TypeOK
  <2> QED
    BY <1>15, <2>2, <2>3 DEF TypeOK, TakeChunk, driverVars, statusVars, stopVars
<1>16. ASSUME NEW next \in {"drain", "abort"}, StopBegin(next) PROVE TypeOK'
  BY <1>16 DEF TypeOK, StopBegin, StopFlagged, NativeStates, driverVars, queueVars
<1>17. CASE StopJoin
  BY <1>17 DEF TypeOK, StopJoin, driverVars, statusVars, queueVars
<1>18. ASSUME NEW evidence, StopReport(evidence) PROVE TypeOK'
  BY <1>18 DEF TypeOK, StopReport, CloseHandleStep, AfterFailure, NativeStates,
               FailureStates, IsFailureState, driverVars, queueVars
<1>19. CASE AbortFinish
  BY <1>19 DEF TypeOK, AbortFinish, CloseHandleStep, AfterFailure, NativeStates,
               FailureStates, IsFailureState, driverVars
<1>20. CASE UNCHANGED nativeVars
  BY <1>20 DEF TypeOK, nativeVars, driverVars, statusVars, queueVars, stopVars
<1> QED
  BY <1>1, <1>2, <1>3, <1>4, <1>5, <1>6, <1>7, <1>8, <1>9, <1>10, <1>11, <1>12,
     <1>13, <1>14, <1>15, <1>16, <1>17, <1>18, <1>19, <1>20
     DEF NativeNext, DriverStep, ReaderStep

\* A step that leaves the queue and its counters alone, and does not wake a
\* finished reader, keeps the queue invariant.
LEMMA QueueKept ==
  ASSUME QueueInv, QueueUntouched,
         rpc' \notin {"exit", "finished"} => rpc \notin {"exit", "finished"},
         rpc' = "off" => rpc = "off"
  PROVE  QueueInv'
BY DEF QueueInv, QueueUntouched, ByteAccounting, QueueIsStreamInOrder, QueueBound,
       QueueEndsInside, EmptyQueueIsZero, NoLossWhileActive, NothingBeforeStart

\* A reader step enqueues, overflows or leaves the queue alone.
LEMMA ReaderQueueCases ==
  ASSUME ReaderStep
  PROVE  \/ rpc = "handle" /\ (EnqueueFits \/ EnqueueOverflows)
         \/ /\ QueueUntouched
            /\ rpc' \notin {"exit", "finished"} => rpc \notin {"exit", "finished"}
            /\ rpc' # "off"
<1>1. CASE ReaderTop
  BY <1>1 DEF ReaderTop, QueueUntouched, queueVars
<1>2. CASE ReaderBegin
  BY <1>2 DEF ReaderBegin, QueueUntouched, queueVars
<1>3. CASE ReaderHandle
  <2>1. CASE HandleEmpty \/ EnqueueThrows
    BY <1>3, <2>1 DEF ReaderHandle, HandleEmpty, EnqueueThrows, QueueUntouched, queueVars
  <2> QED
    BY <1>3, <2>1 DEF ReaderHandle
<1>4. CASE ReaderWait
  BY <1>4 DEF ReaderWait, QueueUntouched, queueVars
<1>5. CASE ReaderStopFilter
  BY <1>5 DEF ReaderStopFilter, QueueUntouched, queueVars
<1>6. CASE ReaderFinal
  BY <1>6 DEF ReaderFinal, QueueUntouched, queueVars
<1>7. CASE ReaderCancel
  BY <1>7 DEF ReaderCancel, QueueUntouched, queueVars
<1>8. CASE ReaderAwait
  BY <1>8 DEF ReaderAwait, QueueUntouched, queueVars
<1>9. CASE ReaderExit
  BY <1>9 DEF ReaderExit, QueueUntouched, queueVars
<1> QED
  BY <1>1, <1>2, <1>3, <1>4, <1>5, <1>6, <1>7, <1>8, <1>9 DEF ReaderStep

\* A chunk that fits continues the stream where the queue ends.
LEMMA EnqueueKeepsQueueInv ==
  ASSUME TypeOK, QueueInv, rpc = "handle", EnqueueFits
  PROVE  QueueInv'
<1> DEFINE new == [lo |-> bytesRead + 1, hi |-> bytesRead + ioBytes]
<1>1. /\ queue \in Seq(Chunk) /\ new \in Chunk
      /\ bytesRead \in Nat /\ delivered \in Nat /\ queuedBytes \in Nat
      /\ ioBytes \in Nat /\ ioBytes > 0 /\ QueueBytes \in Nat
  BY NativeAssumption DEF TypeOK, EnqueueFits, Chunk
<1>2. /\ queue' = Append(queue, new)
      /\ queuedBytes' = queuedBytes + ioBytes /\ bytesRead' = bytesRead + ioBytes
      /\ delivered' = delivered /\ discarded' = discarded /\ rpc' = "top"
  BY DEF EnqueueFits
<1>3. discarded = 0 /\ bytesRead = delivered + queuedBytes
  BY <1>1 DEF QueueInv, NoLossWhileActive, ByteAccounting, TypeOK
<1>4. /\ Len(queue') = Len(queue) + 1
      /\ Len(queue) \in Nat
      /\ \A i \in 1..Len(queue) : queue'[i] = queue[i]
      /\ queue'[Len(queue) + 1] = new
  BY <1>1, <1>2
<1>5. QueueIsStreamInOrder'
  <2>1. \A i \in 1..Len(queue) :
          /\ queue[i].lo <= queue[i].hi
          /\ queue[i].lo = IF i = 1 THEN delivered + 1 ELSE queue[i - 1].hi + 1
          /\ i = Len(queue) => queue[i].hi = delivered + queuedBytes
    BY DEF QueueInv, QueueIsStreamInOrder
  <2>2. new.lo = IF Len(queue) = 0 THEN delivered + 1 ELSE queue[Len(queue)].hi + 1
    <3>1. CASE queue = <<>>
      BY <1>1, <1>3, <3>1 DEF QueueInv, EmptyQueueIsZero
    <3>2. CASE queue # <<>>
      BY <1>1, <1>3, <1>4, <2>1, <3>2
    <3> QED
      BY <3>1, <3>2
  <2> SUFFICES ASSUME NEW i \in 1..(Len(queue) + 1)
               PROVE  /\ queue'[i].lo <= queue'[i].hi
                      /\ queue'[i].lo = IF i = 1 THEN delivered + 1 ELSE queue'[i - 1].hi + 1
                      /\ i = Len(queue) + 1 => queue'[i].hi = delivered + queuedBytes + ioBytes
    BY <1>1, <1>2, <1>4 DEF QueueIsStreamInOrder
  <2>3. CASE i \in 1..Len(queue)
    <3>1. queue'[i] = queue[i]
      BY <1>4, <2>3
    <3>2. i # 1 => queue'[i - 1] = queue[i - 1]
      BY <1>4, <2>3
    <3> QED
      BY <1>4, <2>1, <2>3, <3>1, <3>2
  <2>4. CASE i = Len(queue) + 1
    <3>1. queue'[i] = new
      BY <1>4, <2>4
    <3>2. Len(queue) # 0 => queue'[i - 1] = queue[Len(queue)]
      BY <1>4, <2>4
    <3> QED
      BY <1>1, <1>3, <1>4, <2>2, <2>4, <3>1, <3>2
  <2> QED
    BY <1>4, <2>3, <2>4
<1>6. QueueEndsInside'
  <2> SUFFICES ASSUME NEW i \in 1..(Len(queue) + 1)
               PROVE  queue'[i].hi <= delivered + queuedBytes + ioBytes
    BY <1>1, <1>2, <1>4 DEF QueueEndsInside
  <2>1. CASE i \in 1..Len(queue)
    <3>1. queue[i] \in Chunk
      BY <1>1, <2>1
    <3>2. queue[i].hi <= delivered + queuedBytes /\ queue[i].hi \in Nat
      BY <2>1, <3>1 DEF QueueInv, QueueEndsInside, Chunk
    <3> QED
      BY <1>1, <1>4, <2>1, <3>2
  <2>2. CASE i = Len(queue) + 1
    BY <1>1, <1>3, <1>4, <2>2
  <2> QED
    BY <1>4, <2>1, <2>2
<1>7. QueueBound'
  BY <1>1, <1>2 DEF QueueInv, QueueBound, EnqueueFits, LesserOf
<1>8. ByteAccounting'
  BY <1>1, <1>2, <1>3 DEF ByteAccounting
<1>9. EmptyQueueIsZero'
  BY <1>1, <1>2, <1>4 DEF EmptyQueueIsZero
<1> QED
  BY <1>2, <1>3, <1>5, <1>6, <1>7, <1>8, <1>9
     DEF QueueInv, NoLossWhileActive, NothingBeforeStart

\* Taking the first chunk leaves a queue that starts where the delivered bytes end.
LEMMA TakeKeepsQueueInv ==
  ASSUME TypeOK, QueueInv, TakeChunk
  PROVE  QueueInv'
<1> DEFINE size == ChunkSize(Head(queue))
<1>1. queue # <<>> /\ queue \in Seq(Chunk) /\ Len(queue) \in Nat \ {0}
  BY HeadBounds DEF TakeChunk, TypeOK
<1>2. /\ Head(queue) = queue[1] /\ queue[1].lo = delivered + 1 /\ queue[1] \in Chunk
      /\ size \in Nat \ {0} /\ size <= queuedBytes
      /\ delivered \in Nat /\ queuedBytes \in Nat /\ bytesRead \in Nat /\ discarded \in Nat
  BY <1>1, HeadBounds DEF TypeOK
<1>3. /\ queue' = Tail(queue) /\ queuedBytes' = queuedBytes - size
      /\ delivered' = delivered + size
      /\ bytesRead' = bytesRead /\ discarded' = discarded /\ rpc' = rpc
  BY DEF TakeChunk
<1>4. /\ Len(queue') = Len(queue) - 1
      /\ \A i \in 1..Len(queue') : queue'[i] = queue[i + 1]
      /\ queue' = <<>> => Len(queue) = 1
  <2>1. /\ Len(Tail(queue)) = Len(queue) - 1
        /\ \A i \in 1..Len(Tail(queue)) : Tail(queue)[i] = queue[i + 1]
    BY <1>1, HeadTailProperties
  <2>2. /\ Len(queue') = Len(queue) - 1
        /\ \A i \in 1..Len(queue') : queue'[i] = queue[i + 1]
    BY <1>3, <2>1
  <2>3. Len(queue') = 0 => Len(queue) = 1
    BY <1>1, <2>2
  <2>4. queue' = <<>> => Len(queue') = 0
    OBVIOUS
  <2> QED
    BY <2>2, <2>3, <2>4
<1>5. delivered' + queuedBytes' = delivered + queuedBytes /\ delivered' = queue[1].hi
  <2>1. queue[1].lo \in Nat /\ queue[1].hi \in Nat
    BY <1>2 DEF Chunk
  <2>2. size = queue[1].hi - queue[1].lo + 1
    BY <1>2 DEF ChunkSize
  <2> HIDE DEF size
  <2> QED
    BY <1>2, <1>3, <2>1, <2>2, SMTT(30)
<1>6. \A i \in 1..Len(queue) :
        /\ queue[i].lo <= queue[i].hi
        /\ queue[i].lo = IF i = 1 THEN delivered + 1 ELSE queue[i - 1].hi + 1
        /\ i = Len(queue) => queue[i].hi = delivered + queuedBytes
        /\ queue[i].hi <= delivered + queuedBytes
  BY DEF QueueInv, QueueIsStreamInOrder, QueueEndsInside
<1>7. QueueIsStreamInOrder'
  <2> SUFFICES ASSUME NEW i \in 1..Len(queue')
               PROVE  /\ queue'[i].lo <= queue'[i].hi
                      /\ queue'[i].lo = IF i = 1 THEN delivered' + 1
                                                 ELSE queue'[i - 1].hi + 1
                      /\ i = Len(queue') => queue'[i].hi = delivered' + queuedBytes'
    BY DEF QueueIsStreamInOrder
  <2>1. queue'[i] = queue[i + 1] /\ i + 1 \in 1..Len(queue) /\ i + 1 # 1
    BY <1>1, <1>4
  <2>2. i # 1 => queue'[i - 1] = queue[i]
    BY <1>1, <1>4
  <2>3. queue[i + 1].lo = queue[(i + 1) - 1].hi + 1
    BY <1>6, <2>1
  <2>4. (i + 1) - 1 = i
    OBVIOUS
  <2> QED
    BY <1>1, <1>4, <1>5, <1>6, <2>1, <2>2, <2>3, <2>4
<1>8. QueueEndsInside'
  BY <1>1, <1>4, <1>5, <1>6 DEF QueueEndsInside
<1>9. EmptyQueueIsZero'
  <2> SUFFICES ASSUME queue' = <<>> PROVE queuedBytes' = 0
    BY DEF EmptyQueueIsZero
  <2>1. queue[1].hi = delivered + queuedBytes
    BY <1>1, <1>4, <1>6
  <2> QED
    BY <1>2, <1>3, <1>5, <2>1
<1>10. QueueBound'
  BY <1>2, <1>3, NativeAssumption DEF QueueInv, QueueBound
<1>11. ByteAccounting'
  BY <1>2, <1>3 DEF QueueInv, ByteAccounting
<1>12. NoLossWhileActive' /\ NothingBeforeStart'
  BY <1>2, <1>3 DEF QueueInv, NoLossWhileActive, NothingBeforeStart
<1> QED
  BY <1>7, <1>8, <1>9, <1>10, <1>11, <1>12 DEF QueueInv

\* Until Start runs nothing has happened, and no step returns to that state.
IdleInv ==
  state = "Idle" =>
    /\ rpc = "off" /\ filter = "off" /\ io = "none"
    /\ ~stopAttempted /\ ~stopSucceeded

LEMMA AfterFailureNotIdle ==
  ASSUME NEW s, s # "Idle"
  PROVE  AfterFailure(s) # "Idle"
BY DEF AfterFailure, IsFailureState, FailureStates

LEMMA IdleStep ==
  ASSUME IdleInv, [NativeNext]_nativeVars
  PROVE  IdleInv'
<1>1. CASE ReaderStep
  <2>1. rpc # "off"
    BY <1>1 DEF ReaderStep, ReaderTop, ReaderBegin, ReaderHandle, ReaderWait,
                ReaderStopFilter, ReaderFinal, ReaderCancel, ReaderAwait, ReaderExit
  <2>2. state # "Idle"
    BY <2>1 DEF IdleInv
  <2>3. state' # "Idle"
    <3>1. CASE ReaderTop \/ ReaderStopFilter \/ ReaderExit
      BY <2>2, <3>1, AfterFailureNotIdle DEF ReaderTop, ReaderStopFilter, ReaderExit,
         StopFilteringOk, StopFilteringFails
    <3>2. CASE ReaderBegin \/ ReaderWait
      BY <2>2, <3>2, AfterFailureNotIdle DEF ReaderBegin, ReaderWait
    <3>3. CASE ReaderHandle
      BY <2>2, <3>3, AfterFailureNotIdle DEF ReaderHandle, HandleEmpty, EnqueueFits,
         EnqueueOverflows, EnqueueThrows
    <3>4. CASE ReaderFinal \/ ReaderCancel \/ ReaderAwait
      BY <2>2, <3>4, AfterFailureNotIdle DEF ReaderFinal, ReaderCancel, ReaderAwait
    <3> QED
      BY <1>1, <3>1, <3>2, <3>3, <3>4 DEF ReaderStep
  <2> QED
    BY <2>3 DEF IdleInv
<1>2. CASE Start
  BY <1>2 DEF Start, IdleInv
<1>3. CASE AbortFinish
  BY <1>3, AfterFailureNotIdle DEF AbortFinish, IdleInv
<1>4. ASSUME NEW evidence, StopReport(evidence) PROVE IdleInv'
  BY <1>4, AfterFailureNotIdle DEF StopReport, IdleInv
<1>5. ASSUME NEW n, DeviceTraffic(n) PROVE IdleInv'
  BY <1>5 DEF DeviceTraffic, IdleInv, statusVars
<1>6. CASE PendedReadCompletesEmpty \/ DeviceRemoved
  BY <1>6 DEF PendedReadCompletesEmpty, DeviceRemoved, IdleInv, statusVars
<1>7. CASE RequestStop \/ TakeChunk \/ StopJoin
  BY <1>7 DEF RequestStop, StopFlagged, TakeChunk, StopJoin, IdleInv, driverVars, statusVars
<1>8. ASSUME NEW next, StopBegin(next) PROVE IdleInv'
  BY <1>8 DEF StopBegin, StopFlagged, IdleInv, driverVars
<1>9. CASE UNCHANGED nativeVars
  BY <1>9 DEF IdleInv, nativeVars, driverVars, statusVars
<1> QED
  BY <1>1, <1>2, <1>3, <1>4, <1>5, <1>6, <1>7, <1>8, <1>9 DEF NativeNext, DriverStep

\* Every step keeps the queue invariant.
LEMMA QueueStep ==
  ASSUME TypeOK, IdleInv, QueueInv, [NativeNext]_nativeVars
  PROVE  QueueInv'
<1> USE NativeAssumption
<1>1. CASE ReaderStep
  <2>1. CASE rpc = "handle" /\ EnqueueFits
    BY <2>1, EnqueueKeepsQueueInv
  <2>2. CASE rpc = "handle" /\ EnqueueOverflows
    <3>1. /\ bytesRead' = bytesRead + ioBytes /\ discarded' = discarded + ioBytes
          /\ UNCHANGED <<queue, queuedBytes, delivered>> /\ rpc' = "exit"
      BY <2>2 DEF EnqueueOverflows
    <3>2. ByteAccounting'
      BY <3>1 DEF QueueInv, ByteAccounting, TypeOK
    <3> QED
      BY <3>1, <3>2 DEF QueueInv, QueueIsStreamInOrder, QueueBound, QueueEndsInside,
                        EmptyQueueIsZero, NoLossWhileActive, NothingBeforeStart
  <2> QED
    BY <1>1, <2>1, <2>2, ReaderQueueCases, QueueKept
<1>2. CASE TakeChunk
  BY <1>2, TakeKeepsQueueInv
<1>3. CASE AbortFinish
  <2>1. /\ rpc \in {"off", "finished"} /\ rpc' = rpc
        /\ queue' = <<>> /\ queuedBytes' = 0
        /\ discarded' = discarded + queuedBytes
        /\ UNCHANGED <<bytesRead, delivered>>
    BY <1>3 DEF AbortFinish
  <2>2. ByteAccounting' /\ QueueBound'
    BY <2>1 DEF QueueInv, ByteAccounting, QueueBound, TypeOK
  <2>3. NoLossWhileActive'
    BY <2>1 DEF QueueInv, NoLossWhileActive, NothingBeforeStart, TypeOK
  <2>4. QueueIsStreamInOrder' /\ QueueEndsInside'
    BY <2>1 DEF QueueIsStreamInOrder, QueueEndsInside
  <2> QED
    BY <2>1, <2>2, <2>3, <2>4 DEF QueueInv, EmptyQueueIsZero, NothingBeforeStart
<1>4. CASE \/ \E n \in 1..MaxBytes : DeviceTraffic(n)
           \/ PendedReadCompletesEmpty \/ DeviceRemoved
  <2>1. QueueUntouched /\ rpc' = rpc
    BY <1>4 DEF DeviceTraffic, PendedReadCompletesEmpty, DeviceRemoved, QueueUntouched,
                queueVars
  <2> QED
    BY <2>1, QueueKept
<1>5. CASE Start
  <2>1. QueueUntouched /\ rpc' \in {rpc, "top"} /\ rpc = "off"
    BY <1>5 DEF Start, QueueUntouched, queueVars, IdleInv
  <2> QED
    BY <2>1, QueueKept
<1>6. CASE RequestStop
  BY <1>6, QueueKept DEF RequestStop, QueueUntouched, queueVars
<1>7. CASE StopJoin
  BY <1>7, QueueKept DEF StopJoin, QueueUntouched, queueVars
<1>8. ASSUME NEW next, StopBegin(next) PROVE QueueInv'
  BY <1>8, QueueKept DEF StopBegin, QueueUntouched, queueVars
<1>9. ASSUME NEW evidence, StopReport(evidence) PROVE QueueInv'
  BY <1>9, QueueKept DEF StopReport, QueueUntouched, queueVars
<1>10. CASE UNCHANGED nativeVars
  BY <1>10, QueueKept DEF nativeVars, QueueUntouched, queueVars
<1> QED
  BY <1>1, <1>2, <1>3, <1>4, <1>5, <1>6, <1>7, <1>8, <1>9, <1>10 DEF NativeNext, DriverStep

(***************************************************************************)
(* The reader invariant: where the overlapped read can be at each position *)
(* of the reader, and what a failure implies about it.                     *)
(***************************************************************************)
ReadPlace ==
  /\ rpc \in {"off", "top", "begin"} => io = "none"
  /\ rpc = "handle" => io = "completed"
  /\ io # "completed" => ioBytes = 0
  /\ io = "pending" => RingBytes = 0
  /\ io \in {"failed", "cancelled"} =>
       RingBytes = 0 /\ (~attached \/ filter = "stopped")
FilterClosed ==
  /\ stopSucceeded => filter = "stopped"
  /\ rpc \in {"final", "cancel", "await"} => stopSucceeded
FailureEndsReader == IsFailureState(state) => rpc \in {"off", "exit", "finished"}
CleanExit ==
  /\ rpc \in {"exit", "finished"} /\ ~IsFailureState(state) => io = "none"
  /\ readerFinished => rpc = "finished"

StopPlace ==
  /\ spc = "report" => rpc \in {"off", "finished"}
  /\ spc # "idle" => ~stopCompleted

ReaderInv == ReadPlace /\ FilterClosed /\ FailureEndsReader /\ CleanExit /\ StopPlace

LEMMA AfterFailureFails ==
  ASSUME NEW s, IsFailureState(s)
  PROVE  IsFailureState(AfterFailure(s))
BY DEF AfterFailure, IsFailureState

LEMMA ReaderInvStep ==
  ASSUME TypeOK, IdleInv, ReaderInv, [NativeNext]_nativeVars
  PROVE  ReaderInv'
<1> USE NativeAssumption DEF ReaderInv, ReadPlace, FilterClosed, FailureEndsReader, CleanExit,
           StopPlace
<1>0. /\ produced \in Nat /\ fetched \in Nat /\ ioBytes \in Nat
      /\ rpc \in ReaderPcs
      /\ io \in {"none", "pending", "completed", "failed", "cancelled"}
      /\ \A s \in {"DeviceLost", "InternalError", "CancellationFailed", "QueueOverflow",
                   "StopFilteringFailed", "DrainFailed"} :
           IsFailureState(s) /\ IsFailureState(AfterFailure(s))
  BY AfterFailureFails DEF TypeOK, IsFailureState, FailureStates
<1>1. ASSUME NEW n \in 1..MaxBytes, DeviceTraffic(n) PROVE ReaderInv'
  BY <1>0, <1>1 DEF DeviceTraffic, RingBytes, LesserOf, statusVars, stopVars
<1>2. CASE PendedReadCompletesEmpty
  BY <1>0, <1>2 DEF PendedReadCompletesEmpty, RingBytes, statusVars, stopVars
<1>3. CASE DeviceRemoved
  BY <1>0, <1>3 DEF DeviceRemoved, RingBytes, statusVars, stopVars
<1>4. CASE ReaderTop
  BY <1>0, <1>4 DEF ReaderTop, StopFilteringOk, StopFilteringFails, RingBytes, stopVars
<1>5. CASE ReaderBegin
  BY <1>0, <1>5 DEF ReaderBegin, RingBytes, LesserOf, stopVars
<1>6. CASE ReaderHandle
  BY <1>0, <1>6 DEF ReaderHandle, HandleEmpty, EnqueueFits, EnqueueOverflows, EnqueueThrows,
     RingBytes, stopVars
<1>7. CASE ReaderWait
  BY <1>0, <1>7 DEF ReaderWait, RingBytes, stopVars
<1>8. CASE ReaderStopFilter
  BY <1>0, <1>8 DEF ReaderStopFilter, StopFilteringOk, StopFilteringFails, RingBytes, stopVars
<1>9. CASE ReaderFinal
  BY <1>0, <1>9 DEF ReaderFinal, RingBytes, stopVars
<1>10. CASE ReaderCancel
  BY <1>0, <1>10 DEF ReaderCancel, RingBytes, stopVars
<1>11. CASE ReaderAwait
  BY <1>0, <1>11 DEF ReaderAwait, RingBytes, stopVars
<1>12. CASE ReaderExit
  <2>1. /\ rpc = "exit" /\ rpc' = "finished" /\ io' = io /\ spc' = spc
        /\ filter' = filter \/ filter' = "stopped"
        /\ stopSucceeded' => stopSucceeded \/ filter' = "stopped"
        /\ UNCHANGED <<ioBytes, attached, produced, fetched, stopCompleted>>
    BY <1>12 DEF ReaderExit, StopFilteringFails, stopVars
  <2>2. ~IsFailureState(state') => ~IsFailureState(state)
    BY <1>12 DEF ReaderExit, StopFilteringFails, AfterFailure
  <2> QED
    BY <1>0, <2>1, <2>2 DEF RingBytes
<1>13. CASE Start
  <2>1. /\ rpc = "off" /\ io = "none" /\ spc = "idle"
        /\ rpc' = "off" \/ (rpc' = "top" /\ state' = "Capturing" /\ ~stopSucceeded')
        /\ stopSucceeded' => filter' = "stopped"
        /\ UNCHANGED <<io, ioBytes, attached, produced, fetched, spc, stopCompleted,
                        readerFinished>>
    BY <1>13 DEF Start, IdleInv
  <2>2. ~IsFailureState("Capturing")
    BY DEF IsFailureState, FailureStates
  <2> QED
    BY <1>0, <2>1, <2>2 DEF RingBytes
<1>14. CASE RequestStop
  BY <1>0, <1>14 DEF RequestStop, StopFlagged, IsFailureState, FailureStates, driverVars, RingBytes, stopVars
<1>15. CASE TakeChunk
  BY <1>0, <1>15 DEF TakeChunk, driverVars, statusVars, RingBytes, stopVars
<1>16. ASSUME NEW next \in {"drain", "abort"}, StopBegin(next) PROVE ReaderInv'
  BY <1>0, <1>16 DEF StopBegin, StopFlagged, IsFailureState, FailureStates, driverVars, RingBytes
<1>17. CASE StopJoin
  BY <1>0, <1>17 DEF StopJoin, driverVars, statusVars, RingBytes
<1>18. ASSUME NEW evidence, StopReport(evidence) PROVE ReaderInv'
  <2>1. /\ rpc \in {"off", "finished"} /\ spc' = "idle"
        /\ UNCHANGED <<rpc, io, ioBytes, attached, produced, fetched, filter,
                        stopSucceeded, readerFinished>>
    BY <1>18 DEF StopReport, driverVars
  <2>2. ~IsFailureState(state') => ~IsFailureState(state)
    BY <1>18 DEF StopReport, AfterFailure
  <2> QED
    BY <1>0, <2>1, <2>2 DEF RingBytes
<1>19. CASE AbortFinish
  BY <1>0, <1>19 DEF AbortFinish, driverVars, RingBytes
<1>20. CASE UNCHANGED nativeVars
  BY <1>20 DEF nativeVars, driverVars, statusVars, stopVars, RingBytes
<1> QED
  BY <1>1, <1>2, <1>3, <1>4, <1>5, <1>6, <1>7, <1>8, <1>9, <1>10, <1>11, <1>12,
     <1>13, <1>14, <1>15, <1>16, <1>17, <1>18, <1>19, <1>20
     DEF NativeNext, DriverStep, ReaderStep

(***************************************************************************)
(* The drain invariant. An empty read seen after the filter stop means an  *)
(* empty ring if it completed after that stop, so a quiet reader left      *)
(* nothing behind unless its edge was stale; and without a failure every   *)
(* byte fetched from the driver was counted.                               *)
(***************************************************************************)
EmptyReads ==
  io = "completed" /\ ioBytes = 0 /\ filter = "stopped" /\ rpc \notin {"exit", "finished"} =>
    staleEdge \/ RingBytes = 0
QuietIsEmpty ==
  quiet => /\ staleEdge \/ RingBytes = 0
           /\ filter = "stopped" /\ io = "none" /\ rpc \in {"exit", "finished"}
FetchedIsCounted == IsFailureState(state) \/ fetched = bytesRead + ioBytes
CleanVerdict ==
  clean => quiet /\ state = "Stopped" /\ stopCompleted /\ rpc = "finished"
           /\ delivered = bytesRead

\* What the driver and the reader do to a quiet or an empty read.
LEMMA RingStep ==
  ASSUME TypeOK, IdleInv, ReaderInv, EmptyReads, QuietIsEmpty,
         [NativeNext]_nativeVars
  PROVE  EmptyReads' /\ QuietIsEmpty'
<1> USE NativeAssumption DEF EmptyReads, QuietIsEmpty, ReaderInv, ReadPlace, FilterClosed
<1>0. /\ produced \in Nat /\ fetched \in Nat /\ ioBytes \in Nat
      /\ rpc \in ReaderPcs
      /\ io \in {"none", "pending", "completed", "failed", "cancelled"}
  BY DEF TypeOK
<1>1. ASSUME NEW n \in 1..MaxBytes, DeviceTraffic(n) PROVE EmptyReads' /\ QuietIsEmpty'
  BY <1>0, <1>1 DEF DeviceTraffic, RingBytes, stopVars, LesserOf, statusVars
<1>2. CASE PendedReadCompletesEmpty
  BY <1>0, <1>2 DEF PendedReadCompletesEmpty, RingBytes, stopVars, statusVars
<1>3. CASE DeviceRemoved
  BY <1>0, <1>3 DEF DeviceRemoved, RingBytes, stopVars, statusVars
<1>4. CASE ReaderTop
  BY <1>0, <1>4 DEF ReaderTop, StopFilteringOk, StopFilteringFails, RingBytes, stopVars
<1>5. CASE ReaderBegin
  BY <1>0, <1>5 DEF ReaderBegin, RingBytes, stopVars, LesserOf
<1>6. CASE ReaderHandle
  BY <1>0, <1>6 DEF ReaderHandle, HandleEmpty, EnqueueFits, EnqueueOverflows, EnqueueThrows,
     RingBytes, stopVars
<1>7. CASE ReaderWait
  BY <1>0, <1>7 DEF ReaderWait, RingBytes, stopVars
<1>8. CASE ReaderStopFilter
  BY <1>0, <1>8 DEF ReaderStopFilter, StopFilteringOk, StopFilteringFails, RingBytes, stopVars
<1>9. CASE ReaderFinal
  BY <1>0, <1>9 DEF ReaderFinal, RingBytes, stopVars
<1>10. CASE ReaderCancel
  BY <1>0, <1>10 DEF ReaderCancel, RingBytes, stopVars
<1>11. CASE ReaderAwait
  BY <1>0, <1>11 DEF ReaderAwait, RingBytes, stopVars
<1>12. CASE ReaderExit
  BY <1>0, <1>12 DEF ReaderExit, StopFilteringFails, RingBytes, stopVars
<1>13. CASE Start
  BY <1>0, <1>13 DEF Start, IdleInv, RingBytes, stopVars
<1>14. CASE RequestStop \/ TakeChunk \/ StopJoin
  BY <1>14 DEF RequestStop, TakeChunk, StopJoin, driverVars, statusVars, RingBytes, stopVars
<1>15. ASSUME NEW next, StopBegin(next) PROVE EmptyReads' /\ QuietIsEmpty'
  BY <1>15 DEF StopBegin, driverVars, RingBytes, stopVars
<1>16. ASSUME NEW evidence, StopReport(evidence) PROVE EmptyReads' /\ QuietIsEmpty'
  BY <1>16 DEF StopReport, driverVars, RingBytes, stopVars
<1>17. CASE AbortFinish
  BY <1>17 DEF AbortFinish, driverVars, RingBytes, stopVars
<1>18. CASE UNCHANGED nativeVars
  BY <1>18 DEF nativeVars, driverVars, statusVars, stopVars, RingBytes
<1> QED
  BY <1>1, <1>2, <1>3, <1>4, <1>5, <1>6, <1>7, <1>8, <1>9, <1>10, <1>11, <1>12,
     <1>13, <1>14, <1>15, <1>16, <1>17, <1>18 DEF NativeNext, DriverStep, ReaderStep

\* Every byte fetched from the driver is counted, or the capture has failed.
LEMMA FetchedStep ==
  ASSUME TypeOK, IdleInv, ReaderInv, FetchedIsCounted, [NativeNext]_nativeVars
  PROVE  FetchedIsCounted'
<1> USE NativeAssumption DEF FetchedIsCounted
<1>0. /\ produced \in Nat /\ fetched \in Nat /\ ioBytes \in Nat /\ bytesRead \in Nat
      /\ \A s : IsFailureState(state) => IsFailureState(AfterFailure(s))
      /\ IsFailureState("InternalError") /\ IsFailureState("QueueOverflow")
  BY DEF TypeOK, AfterFailure, IsFailureState, FailureStates
<1>1. ASSUME NEW n \in 1..MaxBytes, DeviceTraffic(n) PROVE FetchedIsCounted'
  BY <1>0, <1>1 DEF DeviceTraffic, RingBytes, LesserOf, statusVars, queueVars,
     ReaderInv, ReadPlace
<1>2. CASE PendedReadCompletesEmpty \/ DeviceRemoved
  BY <1>0, <1>2 DEF PendedReadCompletesEmpty, DeviceRemoved, statusVars, queueVars,
     ReaderInv, ReadPlace
<1>3. CASE ReaderTop \/ ReaderStopFilter
  BY <1>0, <1>3 DEF ReaderTop, ReaderStopFilter, StopFilteringOk, StopFilteringFails, queueVars
<1>4. CASE ReaderBegin
  BY <1>0, <1>4 DEF ReaderBegin, RingBytes, LesserOf, queueVars, ReaderInv, ReadPlace
<1>5. CASE ReaderHandle
  <2>1. CASE HandleEmpty \/ EnqueueFits \/ EnqueueOverflows
    BY <1>0, <1>5, <2>1 DEF ReaderHandle, HandleEmpty, EnqueueFits, EnqueueOverflows, queueVars
  <2>2. CASE EnqueueThrows
    BY <1>0, <1>5, <2>2, AfterFailureFails DEF EnqueueThrows
  <2> QED
    BY <1>5, <2>1, <2>2 DEF ReaderHandle
<1>6. CASE ReaderWait \/ ReaderFinal \/ ReaderCancel \/ ReaderAwait
  BY <1>0, <1>6 DEF ReaderWait, ReaderFinal, ReaderCancel, ReaderAwait, queueVars
<1>7. CASE ReaderExit
  BY <1>0, <1>7 DEF ReaderExit, StopFilteringFails, queueVars
<1>8. CASE Start
  <2>1. rpc = "off" /\ ~IsFailureState("Idle")
    BY <1>8 DEF Start, IdleInv, IsFailureState, FailureStates
  <2> QED
    BY <1>8, <2>1 DEF Start, queueVars
<1>9. CASE RequestStop
  BY <1>0, <1>9 DEF RequestStop, StopFlagged, IsFailureState, FailureStates, driverVars, queueVars
<1>10. CASE TakeChunk \/ StopJoin
  BY <1>10 DEF TakeChunk, StopJoin, driverVars, statusVars, queueVars
<1>11. ASSUME NEW next, StopBegin(next) PROVE FetchedIsCounted'
  BY <1>11 DEF StopBegin, StopFlagged, IsFailureState, FailureStates, driverVars, queueVars
<1>12. ASSUME NEW evidence, StopReport(evidence) PROVE FetchedIsCounted'
  BY <1>0, <1>12 DEF StopReport, driverVars, queueVars
<1>13. CASE AbortFinish
  BY <1>0, <1>13 DEF AbortFinish, driverVars
<1>14. CASE UNCHANGED nativeVars
  BY <1>14 DEF nativeVars, driverVars, statusVars, queueVars
<1> QED
  BY <1>1, <1>2, <1>3, <1>4, <1>5, <1>6, <1>7, <1>8, <1>9, <1>10, <1>11, <1>12,
     <1>13, <1>14 DEF NativeNext, DriverStep, ReaderStep

\* Failure or not, the reader never counts a byte the driver has not handed out.
CountedIsFetched == bytesRead + ioBytes <= fetched

LEMMA CountedStep ==
  ASSUME TypeOK, ReaderInv, CountedIsFetched, [NativeNext]_nativeVars
  PROVE  CountedIsFetched'
<1> USE NativeAssumption DEF CountedIsFetched
<1>0. /\ produced \in Nat /\ fetched \in Nat /\ ioBytes \in Nat /\ bytesRead \in Nat
      /\ io # "completed" => ioBytes = 0
      /\ rpc = "begin" => ioBytes = 0
  BY DEF TypeOK, ReaderInv, ReadPlace
<1>1. ASSUME NEW n \in 1..MaxBytes, DeviceTraffic(n) PROVE CountedIsFetched'
  BY <1>0, <1>1 DEF DeviceTraffic, RingBytes, LesserOf, queueVars
<1>2. CASE PendedReadCompletesEmpty \/ DeviceRemoved
  BY <1>0, <1>2 DEF PendedReadCompletesEmpty, DeviceRemoved, queueVars
<1>3. CASE ReaderTop \/ ReaderStopFilter \/ ReaderExit
  BY <1>0, <1>3 DEF ReaderTop, ReaderStopFilter, ReaderExit, queueVars
<1>4. CASE ReaderBegin
  BY <1>0, <1>4 DEF ReaderBegin, RingBytes, LesserOf, queueVars
<1>5. CASE ReaderHandle
  BY <1>0, <1>5 DEF ReaderHandle, HandleEmpty, EnqueueFits, EnqueueOverflows, EnqueueThrows,
     queueVars
<1>6. CASE ReaderWait \/ ReaderFinal \/ ReaderCancel \/ ReaderAwait
  BY <1>0, <1>6 DEF ReaderWait, ReaderFinal, ReaderCancel, ReaderAwait, queueVars
<1>7. CASE Start \/ RequestStop \/ TakeChunk \/ StopJoin \/ AbortFinish
  BY <1>0, <1>7 DEF Start, RequestStop, TakeChunk, StopJoin, AbortFinish, driverVars, queueVars
<1>8. ASSUME NEW next, StopBegin(next) PROVE CountedIsFetched'
  BY <1>8 DEF StopBegin, driverVars, queueVars
<1>9. ASSUME NEW evidence, StopReport(evidence) PROVE CountedIsFetched'
  BY <1>9 DEF StopReport, driverVars, queueVars
<1>10. CASE UNCHANGED nativeVars
  BY <1>10 DEF nativeVars, driverVars, queueVars
<1> QED
  BY <1>1, <1>2, <1>3, <1>4, <1>5, <1>6, <1>7, <1>8, <1>9, <1>10
  DEF NativeNext, DriverStep, ReaderStep

\* A clean verdict stands: nothing runs any more that could revoke it.
LEMMA VerdictStep ==
  ASSUME TypeOK, QueueInv, ReaderInv, QuietIsEmpty, CleanVerdict, [NativeNext]_nativeVars
  PROVE  CleanVerdict'
<1> USE DEF CleanVerdict, ReaderInv, StopPlace
<1>1. CASE ReaderStep
  <2>1. rpc # "finished"
    BY <1>1 DEF ReaderStep, ReaderTop, ReaderBegin, ReaderHandle, ReaderWait,
       ReaderStopFilter, ReaderFinal, ReaderCancel, ReaderAwait, ReaderExit
  <2>2. clean' = clean
    BY <1>1 DEF ReaderStep, ReaderTop, ReaderBegin, ReaderHandle, ReaderWait,
       ReaderStopFilter, ReaderFinal, ReaderCancel, ReaderAwait, ReaderExit, stopVars
  <2> QED
    BY <2>1, <2>2
<1>2. ASSUME NEW n, DeviceTraffic(n) PROVE CleanVerdict'
  BY <1>2 DEF DeviceTraffic, statusVars, queueVars, stopVars
<1>3. CASE PendedReadCompletesEmpty \/ DeviceRemoved
  BY <1>3 DEF PendedReadCompletesEmpty, DeviceRemoved, statusVars, queueVars, stopVars
<1>4. CASE Start
  BY <1>4 DEF Start
<1>5. CASE RequestStop
  BY <1>5 DEF RequestStop, StopFlagged, driverVars, queueVars, stopVars
<1>6. CASE TakeChunk
  <2>1. ~clean
    <3>1. queuedBytes \in Nat \ {0}
      BY <1>6, HeadBounds DEF TakeChunk, TypeOK
    <3>2. delivered # bytesRead
      BY <3>1 DEF QueueInv, ByteAccounting, TypeOK
    <3> QED
      BY <3>2
  <2> QED
    BY <1>6, <2>1 DEF TakeChunk, stopVars
<1>7. CASE StopJoin
  BY <1>7 DEF StopJoin
<1>8. ASSUME NEW next, StopBegin(next) PROVE CleanVerdict'
  BY <1>8 DEF StopBegin
<1>9. ASSUME NEW evidence, StopReport(evidence) PROVE CleanVerdict'
  <2> SUFFICES ASSUME clean' PROVE CleanVerdict'
    OBVIOUS
  <2>1. quiet /\ delivered = bytesRead /\ state' = "Stopped" /\ stopCompleted' = TRUE
    BY <1>9 DEF StopReport
  <2>2. rpc = "finished"
    BY <1>9, <2>1 DEF StopReport, QuietIsEmpty
  <2> QED
    BY <1>9, <2>1, <2>2 DEF StopReport, queueVars
<1>10. CASE AbortFinish
  BY <1>10 DEF AbortFinish
<1>11. CASE UNCHANGED nativeVars
  BY <1>11 DEF nativeVars, statusVars, queueVars, stopVars
<1> QED
  BY <1>1, <1>2, <1>3, <1>4, <1>5, <1>6, <1>7, <1>8, <1>9, <1>10, <1>11
     DEF NativeNext, DriverStep

(***************************************************************************)
(* The theorems.                                                           *)
(***************************************************************************)
NativeInv == /\ TypeOK /\ IdleInv /\ QueueInv /\ ReaderInv
             /\ FetchedIsCounted /\ CountedIsFetched
DrainInv  == NativeInv /\ EmptyReads /\ QuietIsEmpty /\ CleanVerdict

LEMMA NativeInitInv == NativeInit => DrainInv
<1> SUFFICES ASSUME NativeInit PROVE DrainInv
  OBVIOUS
<1>1. TypeOK
  <2>1. queue \in Seq(Chunk)
    BY DEF NativeInit
  <2>2. 0 \in 0..MaxBytes /\ 0 \in 0..0 /\ 0 \in 0..ReadChunkBytes
    BY NativeAssumption
  <2>3. produced \in 0..MaxBytes /\ fetched \in 0..produced /\ ioBytes \in 0..ReadChunkBytes
    BY <2>2 DEF NativeInit
  <2> QED
    BY <2>1, <2>3 DEF NativeInit, TypeOK, ReaderPcs, NativeStates
<1>2. IdleInv
  BY DEF NativeInit, IdleInv
<1>3. QueueInv
  BY NativeAssumption DEF NativeInit, QueueInv, ByteAccounting, QueueIsStreamInOrder,
     QueueBound, QueueEndsInside, EmptyQueueIsZero, NoLossWhileActive, NothingBeforeStart
<1>4. ReaderInv
  BY DEF NativeInit, ReaderInv, ReadPlace, FilterClosed, FailureEndsReader, CleanExit,
     StopPlace
<1>5. FetchedIsCounted /\ CountedIsFetched /\ EmptyReads /\ QuietIsEmpty /\ CleanVerdict
  BY DEF NativeInit, FetchedIsCounted, CountedIsFetched, EmptyReads, QuietIsEmpty, CleanVerdict
<1> QED
  BY <1>1, <1>2, <1>3, <1>4, <1>5 DEF NativeInv, DrainInv

\* Both invariants hold over any client: CaptureWorker is one.
LEMMA NativeInvStep == NativeInv /\ [NativeNext]_nativeVars => NativeInv'
BY TypeStep, IdleStep, QueueStep, ReaderInvStep, FetchedStep, CountedStep DEF NativeInv

LEMMA DrainInvStep == DrainInv /\ [NativeNext]_nativeVars => DrainInv'
BY NativeInvStep, RingStep, VerdictStep DEF DrainInv, NativeInv

THEOREM NativeInvariant == NativeSpec => []NativeInv
<1>1. NativeInit => NativeInv
  BY NativeInitInv DEF DrainInv
<1> QED
  BY <1>1, NativeInvStep, PTL DEF NativeSpec

\* Type correctness of the capture object (TypeOK).
THEOREM TypeCorrect == NativeSpec => []TypeOK
<1>1. NativeInv => TypeOK
  BY DEF NativeInv
<1> QED
  BY <1>1, NativeInvariant, PTL

\* Every byte counted by the reader is delivered, queued or counted as discarded.
THEOREM BytesAreAccounted == NativeSpec => []ByteAccounting
<1>1. NativeInv => ByteAccounting
  BY DEF NativeInv, QueueInv
<1> QED
  BY <1>1, NativeInvariant, PTL

\* The queue is the undelivered rest of the stream, in order, within its bound.
THEOREM QueueIsOrderedAndBounded == NativeSpec => [](QueueIsStreamInOrder /\ QueueBound)
<1>1. NativeInv => QueueIsStreamInOrder /\ QueueBound
  BY DEF NativeInv, QueueInv
<1> QED
  BY <1>1, NativeInvariant, PTL

\* A reader that ends without a failure leaves no read outstanding.
THEOREM ReaderLeavesNoRead == NativeSpec => []CleanReaderLeavesNoRead
<1>1. NativeInv => CleanReaderLeavesNoRead
  BY DEF NativeInv, ReaderInv, CleanExit, CleanReaderLeavesNoRead
<1> QED
  BY <1>1, NativeInvariant, PTL

\* The first failure stays in the status.
THEOREM FailureIsKept == NativeSpec => FirstFailureKept
<1> DEFINE Kept == IsFailureState(state) => state' = state
<1>1. NativeInv /\ [NativeNext]_nativeVars => [Kept]_nativeVars
  <2> SUFFICES ASSUME NativeInv, NativeNext, IsFailureState(state) PROVE state' = state
    OBVIOUS
  <2>1. rpc \in {"off", "exit", "finished"} /\ state # "Idle" /\ state # "Capturing"
    BY DEF NativeInv, ReaderInv, FailureEndsReader, IsFailureState, FailureStates
  <2>2. CASE ReaderStep
    <3>1. ReaderExit
      BY <2>1, <2>2 DEF ReaderStep, ReaderTop, ReaderBegin, ReaderHandle, ReaderWait,
         ReaderStopFilter, ReaderFinal, ReaderCancel, ReaderAwait
    <3> QED
      BY <3>1 DEF ReaderExit, StopFilteringFails, AfterFailure
  <2>3. ASSUME NEW n, DeviceTraffic(n) PROVE state' = state
    BY <2>3 DEF DeviceTraffic, statusVars
  <2>4. CASE PendedReadCompletesEmpty \/ DeviceRemoved \/ TakeChunk \/ StopJoin
    BY <2>4 DEF PendedReadCompletesEmpty, DeviceRemoved, TakeChunk, StopJoin, statusVars
  <2>5. CASE Start \/ RequestStop
    BY <2>1, <2>5 DEF Start, RequestStop, StopFlagged
  <2>6. ASSUME NEW next, StopBegin(next) PROVE state' = state
    BY <2>1, <2>6 DEF StopBegin, StopFlagged
  <2>7. ASSUME NEW evidence, StopReport(evidence) PROVE state' = state
    BY <2>7 DEF StopReport, AfterFailure
  <2>8. CASE AbortFinish
    BY <2>8 DEF AbortFinish, AfterFailure
  <2> QED
    BY <2>2, <2>3, <2>4, <2>5, <2>6, <2>7, <2>8 DEF NativeNext, DriverStep
<1> QED
  BY <1>1, NativeInvariant, PTL DEF NativeSpec, FirstFailureKept

\* What the verdict rests on: nothing in the ring, nothing in the read, all counted.
LEMMA DrainIsLossless == DrainInv => CleanStopMissesOnlyStaleEdge
<1> SUFFICES ASSUME DrainInv, clean
             PROVE  delivered = fetched /\ (staleEdge \/ fetched = produced)
  BY DEF CleanStopMissesOnlyStaleEdge
<1>1. quiet /\ state = "Stopped" /\ delivered = bytesRead
  BY DEF DrainInv, CleanVerdict
<1>2. ioBytes = 0 /\ (staleEdge \/ produced - fetched = 0)
  BY <1>1 DEF DrainInv, QuietIsEmpty, NativeInv, ReaderInv, ReadPlace, RingBytes
<1>3. fetched = bytesRead + ioBytes
  BY <1>1 DEF DrainInv, NativeInv, FetchedIsCounted, IsFailureState, FailureStates
<1>4. produced \in Nat /\ fetched \in Nat /\ bytesRead \in Nat
  BY DEF DrainInv, NativeInv, TypeOK
<1> QED
  BY <1>1, <1>2, <1>3, <1>4

\* Whatever the driver answers, a clean stop has delivered every byte that was read,
\* and bytes are left in the ring only behind a stale quiet edge.
THEOREM OnlyStaleEdgeLoses == NativeSpec => []CleanStopMissesOnlyStaleEdge
<1>1. DrainInv /\ [NativeNext]_nativeVars => DrainInv'
  BY DrainInvStep
<1> QED
  BY <1>1, DrainIsLossless, NativeInitInv, PTL DEF NativeSpec

\* Between the reader and the consumer no byte is lost, repeated, reordered or counted
\* twice, within the bound of the queue.
THEOREM NothingUndeliveredIsLost == NativeSpec => []UndeliveredIsQueued
BY TypeCorrect, BytesAreAccounted, QueueIsOrderedAndBounded, PTL DEF UndeliveredIsQueued

\* A stop called clean leaves no byte behind but those of a stale quiet edge, a reader
\* that ended without a failure no read.
THEOREM CleanEndIsEmpty == NativeSpec => []CleanEndLeavesNothing
BY OnlyStaleEdgeLoses, ReaderLeavesNoRead, PTL DEF CleanEndLeavesNothing
------------------------------------------------------------------------------
(***************************************************************************)
(* The second part: the worker.                                            *)
(***************************************************************************)
(***************************************************************************)
(* The invariant.                                                          *)
(***************************************************************************)
\* No byte comes from anywhere but the stream, and what was taken was parsed.
TrafficInv ==
  /\ produced <= StreamBytes
  /\ sourceBytes = delivered

\* Nothing of the pipeline failed so far: it is ahead of Run's abort, or Run is over
\* with a publication.
Intact == wpc \notin {"salvage", "abort", "aborting"} /\ (wpc = "done" => published)

\* The raw records are the next ones of the stream, all of a kind that is retained.
RawRun == \A i \in 1..Len(pcap) : pcap[i] = i + 1 /\ Retainable(units[i + 1])

\* Records that n bytes complete: all units but the header.
RecordsIn(n) == IF Arrived(n) = 0 THEN 0 ELSE Arrived(n) - 1

\* As long as nothing failed, the raw records and those still to do are together
\* what has arrived, in order; afterwards the raw records are still no more than that.
ParseInv ==
  /\ Len(pcap) <= RecordsIn(sourceBytes)
  /\ todo # <<>> => wpc = "process"
  /\ Intact => /\ ~FramingFault(sourceBytes)
               /\ Len(pcap) + Len(todo) = RecordsIn(sourceBytes)
               /\ \A i \in 1..Len(todo) : todo[i] = Len(pcap) + 1 + i

\* What is derived follows the raw records, and a report stream that was not given
\* up has the reports of all of them.
Follows(product) ==
  \A i \in 1..Len(product) :
    /\ product[i] <= Len(pcap) + 1
    /\ i > 1 => product[i - 1] < product[i]

ReportsInv ==
  Intact /\ reportStream # "none" =>
    \A r \in 2..(Len(pcap) + 1) :
      (\E i \in 1..Len(reports) : reports[i] = r) <=> Reported(units[r])

ProductInv == RawRun /\ ParseInv /\ Follows(reports) /\ Follows(anomalies) /\ ReportsInv

\* Where Run is, what it has decided so far, and what that says of the products.
VerdictInv ==
  /\ wpc \in {"salvage", "abort", "aborting"} => pendingReason # "None"
  /\ wpc = "publish" /\ pendingReason = "None" => clean
  /\ wpc = "done" => /\ (wstate = "Completed") <=> published
                     /\ (pendingReason = "None") <=> published
  /\ sealed => /\ AtRecordBoundary(sourceBytes)
               /\ wpc \in {"drain", "join", "report", "publish", "done"}
  /\ published => /\ wpc = "done" /\ sealed /\ clean
                  /\ writer = "final" /\ durable = Len(pcap)
  /\ reportStream = "final" => published

WorkerInv == NativeInv /\ CaptureTypeOK /\ TrafficInv /\ ProductInv /\ VerdictInv

(***************************************************************************)
(* The stream as units: what division says of the units that n bytes       *)
(* complete.                                                               *)
(***************************************************************************)
LEMMA UnitsTyped ==
  ASSUME units \in Streams
  PROVE  /\ units \in Seq(HeaderKinds \cup RecordKinds)
         /\ Len(units) \in Nat \ {0} /\ UnitBytes \in Nat \ {0} /\ StreamBytes \in Nat
         /\ \A i \in 1..Len(units) : units[i] \in HeaderKinds <=> i = 1
<1>1. /\ UnitBytes \in Nat \ {0} /\ units \in Seq(HeaderKinds \cup RecordKinds) /\ Len(units) > 0
      /\ \A i \in 1..Len(units) : units[i] \in HeaderKinds <=> i = 1
  BY PipelineAssumption
<1>2. Len(units) \in Nat
  BY <1>1
<1>3. StreamBytes \in Nat
  BY <1>1, <1>2 DEF StreamBytes
<1> QED
  BY <1>1, <1>2, <1>3

LEMMA LeastProduct ==
  ASSUME NEW u \in Nat \ {0}, NEW a \in Nat, NEW b \in Nat, u * a < u * (b + 1)
  PROVE  a <= b
<1>1. CASE a <= b
  BY <1>1
<1>2. CASE a >= b + 1
  <2> PICK d \in Nat : a = b + 1 + d
    <3>1. a - (b + 1) \in Nat
      BY <1>2
    <3> QED
      BY <3>1
  <2>1. u * a = u * (b + 1) + u * d
    OBVIOUS
  <2>2. u * d \in Nat /\ u * (b + 1) \in Nat
    OBVIOUS
  <2> QED
    BY <2>1, <2>2
<1> QED
  BY <1>1, <1>2

LEMMA ArrivedBounds ==
  ASSUME NEW n \in Nat, UnitBytes \in Nat \ {0}
  PROVE  /\ Arrived(n) \in Nat
         /\ UnitBytes * Arrived(n) <= n /\ n < UnitBytes * (Arrived(n) + 1)
         /\ n % UnitBytes = 0 => n = UnitBytes * Arrived(n)
<1>1. n \div UnitBytes \in Nat /\ n % UnitBytes \in 0..(UnitBytes - 1)
  OBVIOUS
<1>2. n = UnitBytes * (n \div UnitBytes) + (n % UnitBytes)
  OBVIOUS
<1>3. UnitBytes * (n \div UnitBytes + 1) = UnitBytes * (n \div UnitBytes) + UnitBytes
  BY <1>1
<1>4. UnitBytes * (n \div UnitBytes) \in Nat
  BY <1>1
<1> QED
  BY <1>1, <1>2, <1>3, <1>4 DEF Arrived

\* More bytes complete no fewer units, and never more than the stream has.
LEMMA ArrivedGrows ==
  ASSUME NEW m \in Nat, NEW n \in Nat, m <= n, UnitBytes \in Nat \ {0}
  PROVE  Arrived(m) <= Arrived(n)
<1> DEFINE a == Arrived(m)
           b == Arrived(n)
<1>1. /\ a \in Nat /\ b \in Nat /\ UnitBytes * a <= m /\ n < UnitBytes * (b + 1)
  BY ArrivedBounds
<1>2. UnitBytes * a \in Nat /\ UnitBytes * (b + 1) \in Nat
  BY <1>1
<1>3. UnitBytes * a < UnitBytes * (b + 1)
  BY <1>1, <1>2
<1> HIDE DEF a, b
<1>4. a <= b
  BY <1>1, <1>3, LeastProduct
<1> QED
  BY <1>4 DEF a, b

LEMMA ArrivedWithin ==
  ASSUME units \in Streams, NEW n \in Nat, n <= StreamBytes
  PROVE  Arrived(n) <= Len(units)
<1> DEFINE a == Arrived(n)
           l == Len(units)
<1>1. /\ UnitBytes \in Nat \ {0} /\ l \in Nat /\ StreamBytes = UnitBytes * l
  BY UnitsTyped DEF StreamBytes
<1>2. a \in Nat /\ UnitBytes * a <= n
  BY <1>1, ArrivedBounds
<1> HIDE DEF a, l
<1>3. UnitBytes * (l + 1) = UnitBytes * l + UnitBytes
  BY <1>1
<1>4. UnitBytes * a \in Nat /\ UnitBytes * l \in Nat
  BY <1>1, <1>2
<1>5. UnitBytes * a < UnitBytes * (l + 1)
  BY <1>1, <1>2, <1>3, <1>4
<1>6. a <= l
  BY <1>1, <1>2, <1>5, LeastProduct
<1> QED
  BY <1>6 DEF a, l

\* Among the records that arrived without a fault none has impossible lengths.
LEMMA FaultFree ==
  ASSUME units \in Streams, NEW n \in Nat, n <= StreamBytes, ~FramingFault(n),
         NEW i \in 2..Arrived(n)
  PROVE  i \in 2..Len(units) /\ units[i] # "badLength"
<1>1. UnitBytes \in Nat \ {0} /\ Len(units) \in Nat
  BY UnitsTyped
<1>2. Arrived(n) \in Nat /\ Arrived(n) <= Len(units) /\ UnitBytes * Arrived(n) <= n
  BY <1>1, ArrivedBounds, ArrivedWithin
<1>3. i \in 2..Len(units)
  BY <1>1, <1>2
<1>4. n > UnitBytes * (i - 1)
  <2>1. PICK d \in Nat : Arrived(n) = i + d
    <3>1. Arrived(n) - i \in Nat
      BY <1>2
    <3> QED
      BY <1>2, <3>1
  <2>2. UnitBytes * Arrived(n) = UnitBytes * (i - 1) + UnitBytes + UnitBytes * d
    BY <1>1, <1>2, <2>1
  <2>3. UnitBytes * d \in Nat /\ UnitBytes * (i - 1) \in Nat
    BY <1>1, <2>1
  <2> QED
    BY <1>1, <1>2, <2>2, <2>3
<1> QED
  BY <1>3, <1>4 DEF FramingFault

LEMMA RecordsBetweenArrive ==
  ASSUME units \in Streams, NEW m \in Nat, NEW n \in Nat, m <= n, n <= StreamBytes
  PROVE  /\ RecordsIn(m) \in Nat /\ RecordsIn(n) \in Nat /\ RecordsIn(m) <= RecordsIn(n)
         /\ RecordsBetween(m, n) \in Seq(2..Len(units))
         /\ Len(RecordsBetween(m, n)) = RecordsIn(n) - RecordsIn(m)
         /\ \A i \in 1..(RecordsIn(n) - RecordsIn(m)) :
              RecordsBetween(m, n)[i] = RecordsIn(m) + 1 + i
<1> DEFINE k == RecordsIn(n) - RecordsIn(m)
           s == [i \in 1..k |-> RecordsIn(m) + 1 + i]
<1>1. /\ UnitBytes \in Nat \ {0} /\ Len(units) \in Nat
      /\ Arrived(m) \in Nat /\ Arrived(n) \in Nat
      /\ Arrived(m) <= Arrived(n) /\ Arrived(n) <= Len(units)
  BY UnitsTyped, ArrivedBounds, ArrivedGrows, ArrivedWithin
<1>2. RecordsIn(m) \in Nat /\ RecordsIn(n) \in Nat /\ RecordsIn(m) <= RecordsIn(n) /\ k \in Nat
  BY <1>1 DEF RecordsIn
<1>3. RecordsBetween(m, n) = s
  <2> DEFINE first == IF Arrived(m) = 0 THEN 2 ELSE Arrived(m) + 1
  <2>1. RecordsBetween(m, n) = [i \in 1..(Arrived(n) + 1 - first) |-> first + i - 1]
    BY DEF RecordsBetween
  <2>2. 1..(Arrived(n) + 1 - first) = 1..k
    BY <1>1 DEF RecordsIn
  <2>3. \A i \in 1..k : first + i - 1 = RecordsIn(m) + 1 + i
    BY <1>1, <1>2 DEF RecordsIn
  <2> HIDE DEF first, k
  <2> QED
    BY <2>1, <2>2, <2>3
<1>4. \A i \in 1..k : RecordsIn(m) + 1 + i \in 2..Len(units)
  BY <1>1, <1>2, SMTT(30) DEF RecordsIn
<1> HIDE DEF k
<1>5. s \in Seq(2..Len(units)) /\ Len(s) = k /\ \A i \in 1..k : s[i] = RecordsIn(m) + 1 + i
  BY <1>2, <1>4
<1> QED
  BY <1>2, <1>3, <1>5 DEF k

(***************************************************************************)
(* The worker as a client of the native object.                            *)
(***************************************************************************)
\* What was taken, counted, fetched and produced, in this order.
LEMMA BytesInOrder ==
  ASSUME NativeInv
  PROVE  /\ delivered \in Nat /\ bytesRead \in Nat /\ produced \in 0..MaxBytes
         /\ delivered <= bytesRead /\ bytesRead <= produced
<1>1. /\ delivered \in Nat /\ queuedBytes \in Nat /\ discarded \in Nat /\ bytesRead \in Nat
      /\ ioBytes \in Nat /\ produced \in 0..MaxBytes /\ fetched \in 0..produced
  BY DEF NativeInv, TypeOK
<1>2. bytesRead = delivered + queuedBytes + discarded /\ bytesRead + ioBytes <= fetched
  BY DEF NativeInv, QueueInv, ByteAccounting, CountedIsFetched
<1> QED
  BY <1>1, <1>2, NativeAssumption

\* What was taken was produced before; stated as a predicate, for the next state too.
TakenWasProduced == delivered \in Nat /\ produced \in Nat /\ delivered <= produced

LEMMA BytesAfter == NativeInv' => TakenWasProduced'
<1>1. NativeInv => TakenWasProduced
  <2> SUFFICES ASSUME NativeInv PROVE TakenWasProduced
    OBVIOUS
  <2>1. /\ delivered \in Nat /\ bytesRead \in Nat /\ produced \in 0..MaxBytes
        /\ delivered <= bytesRead /\ bytesRead <= produced
    BY BytesInOrder
  <2> QED
    BY <2>1, NativeAssumption DEF TakenWasProduced
<1> QED
  BY <1>1, PTL

\* Every step of the worker's system is one the native object allows.
LEMMA WorkerIsClient ==
  ASSUME NativeInv, CaptureTypeOK, TrafficInv, [WorkerNext]_captureVars
  PROVE  [NativeNext]_nativeVars
<1>1. UnitBytes \in Nat \ {0} /\ MaxBytes \in Nat
  BY UnitsTyped, NativeAssumption DEF CaptureTypeOK
<1>2. CASE WorkerDriver
  <2>1. ASSUME NEW n \in {UnitBytes}, DeviceTraffic(n) PROVE NativeNext
    <3>1. n \in 1..MaxBytes
      <4>1. produced + n <= MaxBytes /\ produced \in Nat
        BY <2>1 DEF DeviceTraffic, NativeInv, TypeOK
      <4> QED
        BY <1>1, <4>1
    <3> QED
      BY <2>1, <3>1 DEF NativeNext, DriverStep
  <2> QED
    BY <1>2, <2>1 DEF WorkerDriver, DriverStep, NativeNext
<1>3. CASE WorkerReader \/ ControllerStop
  BY <1>3 DEF WorkerReader, ControllerStop, NativeNext
<1>4. CASE WorkerDrain
  <2>1. ASSUME StopReport(DrainEvidence) PROVE NativeNext
    <3> DEFINE b == AtRecordBoundary(sourceBytes)
               w == sealed /\ ~writerFailed
    <3>1. DrainEvidence = [boundary |-> b, writerClean |-> w, accounted |-> sourceBytes]
      BY DEF DrainEvidence
    <3>2. sourceBytes \in 0..MaxBytes
      BY BytesInOrder, NativeAssumption DEF TrafficInv
    <3>3. b \in BOOLEAN /\ w \in BOOLEAN
      BY DEF AtRecordBoundary, HeaderReady, CaptureTypeOK
    <3> HIDE DEF b, w
    <3> QED
      BY <2>1, <3>1, <3>2, <3>3 DEF NativeNext
  <2> QED
    BY <1>4, <2>1 DEF WorkerDrain, NativeNext
<1>5. CASE WorkerStart \/ WorkerStarted \/ WorkerLoop \/ WorkerTake \/ WorkerAbort \/ WorkerStatus
  BY <1>5 DEF WorkerStart, WorkerStarted, WorkerLoop, WorkerTake, WorkerAbort, WorkerStatus,
     NativeNext
<1>6. CASE WorkerProcess \/ WorkerSalvage \/ WorkerFlush \/ WorkerSeal \/ WorkerPublish
  BY <1>6 DEF WorkerProcess, WorkerSalvage, WorkerFlush, WorkerSeal, WorkerPublish
<1>7. CASE UNCHANGED captureVars
  BY <1>7 DEF captureVars
<1> QED
  BY <1>2, <1>3, <1>4, <1>5, <1>6, <1>7 DEF WorkerNext, WorkerStep, WorkerReturned

\* The driver stops at the end of the stream, only the consumer takes bytes, and what
\* it takes is parsed at once.
LEMMA TrafficStep ==
  ASSUME WorkerInv, NativeInv', [WorkerNext]_captureVars
  PROVE  units' = units /\ TrafficInv'
<1>1. TrafficInv /\ produced \in Nat /\ StreamBytes \in Nat
  BY BytesInOrder, NativeAssumption, UnitsTyped DEF WorkerInv, CaptureTypeOK
<1>2. CASE WorkerDriver
  <2>1. UNCHANGED <<units, sourceBytes>>
    BY <1>2 DEF WorkerDriver, pipelineVars
  <2>2. delivered' = delivered
    BY <1>2 DEF WorkerDriver, DriverStep, DeviceTraffic, PendedReadCompletesEmpty,
       DeviceRemoved, queueVars
  <2>3. produced' = produced \/ produced' <= StreamBytes
    <3>1. ASSUME NEW n \in (IF produced + UnitBytes <= StreamBytes THEN {UnitBytes} ELSE {}),
                 DeviceTraffic(n)
          PROVE  produced' <= StreamBytes
      <4>1. n = UnitBytes /\ produced + UnitBytes <= StreamBytes
        OBVIOUS
      <4>2. produced' = produced + n
        BY <3>1 DEF DeviceTraffic
      <4> QED
        BY <4>1, <4>2
    <3> QED
      BY <1>2, <3>1 DEF WorkerDriver, DriverStep, PendedReadCompletesEmpty, DeviceRemoved
  <2>4. StreamBytes' = StreamBytes
    BY <2>1 DEF StreamBytes
  <2> QED
    BY <1>1, <2>1, <2>2, <2>3, <2>4 DEF TrafficInv
<1>3. CASE WorkerReader
  <2>1. UNCHANGED <<units, sourceBytes>> /\ ReaderStep
    BY <1>3 DEF WorkerReader, pipelineVars
  <2>2. delivered' = delivered /\ produced' = produced
    BY <2>1 DEF ReaderStep, ReaderTop, ReaderBegin, ReaderHandle, ReaderWait, ReaderStopFilter,
       ReaderFinal, ReaderCancel, ReaderAwait, ReaderExit, HandleEmpty, EnqueueFits,
       EnqueueOverflows, EnqueueThrows, queueVars
  <2> QED
    BY <1>1, <2>1, <2>2 DEF TrafficInv, StreamBytes
<1>4. CASE WorkerTake
  <2>1. produced' = produced /\ units' = units
    BY <1>4 DEF WorkerTake, TakeChunk, ChunkArrives, nativeVars, driverVars, pipelineVars
  <2>2. sourceBytes' = delivered'
    BY <1>1, <1>4 DEF WorkerTake, ChunkArrives, TrafficInv, nativeVars, queueVars, pipelineVars
  <2> QED
    BY <1>1, <2>1, <2>2 DEF TrafficInv, StreamBytes
<1>5. CASE ControllerStop \/ WorkerStart \/ WorkerStarted \/ WorkerLoop \/ WorkerAbort
           \/ WorkerStatus \/ WorkerDrain
  <2>1. UNCHANGED <<units, sourceBytes>>
    BY <1>5 DEF ControllerStop, WorkerStart, WorkerStarted, WorkerLoop, WorkerAbort,
       WorkerStatus, WorkerDrain, pipelineVars
  <2>2. delivered' = delivered /\ produced' = produced
    BY <1>5 DEF ControllerStop, WorkerStart, WorkerStarted, WorkerLoop, WorkerAbort,
       WorkerStatus, WorkerDrain, Start, RequestStop, StopBegin, StopJoin, StopReport,
       AbortFinish, nativeVars, driverVars, queueVars
  <2> QED
    BY <1>1, <2>1, <2>2 DEF TrafficInv, StreamBytes
<1>6. CASE WorkerProcess \/ WorkerSalvage \/ WorkerFlush \/ WorkerSeal \/ WorkerPublish
           \/ UNCHANGED captureVars
  <2>1. UNCHANGED <<units, sourceBytes>>
    BY <1>6 DEF WorkerProcess, WorkerSalvage, WorkerFlush, WorkerSeal, WorkerPublish,
       RecordRetained, RecordFails, RecordRejected, RecordAppendFails, RecordInterpretationThrows,
       Checkpoint, CheckpointFails, Seal, SealFails, Publish, PublishFails, pipelineVars, captureVars
  <2>2. delivered' = delivered /\ produced' = produced
    BY <1>6 DEF WorkerProcess, WorkerSalvage, WorkerFlush, WorkerSeal, WorkerPublish,
       nativeVars, driverVars, queueVars, captureVars
  <2> QED
    BY <1>1, <2>1, <2>2 DEF TrafficInv, StreamBytes
<1> QED
  BY <1>2, <1>3, <1>4, <1>5, <1>6 DEF WorkerNext, WorkerStep, WorkerReturned

(***************************************************************************)
(* Types, in three parts: the threads, the files, and the records.         *)
(***************************************************************************)
ControlType ==
  /\ wpc \in WorkerPcs /\ wstate \in WorkerStates /\ pendingReason \in FatalReasons
  /\ sourceStarted \in BOOLEAN /\ stopFlag \in BOOLEAN
  /\ stopForwarded \in BOOLEAN /\ received \in BOOLEAN
  /\ ctl \in {"idle", "stored", "sent"}
FilesType ==
  /\ writer \in {"none", "open", "final"} /\ writerFailed \in BOOLEAN
  /\ reportStream \in {"none", "open", "final"} /\ journal \in {"none", "open", "final"}
  /\ sealed \in BOOLEAN /\ published \in BOOLEAN
RecordsType ==
  /\ units \in Streams /\ sourceBytes \in 0..StreamBytes
  /\ todo \in Seq(2..Len(units)) /\ pcap \in Seq(2..Len(units))
  /\ reports \in Seq(2..Len(units)) /\ anomalies \in Seq(2..Len(units))
  /\ durable \in 0..Len(pcap)

LEMMA TypeParts == CaptureTypeOK <=> ControlType /\ FilesType /\ RecordsType
BY DEF CaptureTypeOK, ControlType, FilesType, RecordsType

LEMMA ControlTypeStep == ControlType /\ [WorkerNext]_captureVars => ControlType'
<1> SUFFICES ASSUME ControlType, [WorkerNext]_captureVars PROVE ControlType'
  OBVIOUS
<1> USE DEF ControlType, WorkerPcs, WorkerStates, FatalReasons
<1>1. CASE WorkerDriver \/ WorkerReader \/ UNCHANGED captureVars
  BY <1>1 DEF WorkerDriver, WorkerReader, captureVars, workerVars
<1>2. CASE ControllerStop \/ WorkerStart \/ WorkerStarted \/ WorkerLoop
  BY <1>2 DEF ControllerStop, WorkerStart, WorkerStarted, WorkerLoop
<1>3. CASE WorkerTake \/ WorkerProcess
  BY <1>3 DEF WorkerTake, WorkerProcess, PipelineThrew, FailureForPipelineError
<1>4. CASE WorkerSalvage \/ WorkerAbort \/ WorkerFlush \/ WorkerPublish
  BY <1>4 DEF WorkerSalvage, WorkerAbort, WorkerFlush, WorkerPublish
<1>5. CASE WorkerStatus
  <2>1. FailureForNativeState \in FatalReasons
    BY DEF FailureForNativeState
  <2>2. stopForwarded' \in BOOLEAN
    BY <1>5 DEF WorkerStatus
  <2> QED
    BY <1>5, <2>1, <2>2 DEF WorkerStatus
<1>6. CASE WorkerSeal \/ WorkerDrain
  BY <1>6, ZenonT(60)
  DEF WorkerSeal, WorkerDrain, FirstReason, FailureForPipelineError, FailureForStopReport
<1> QED
  BY <1>1, <1>2, <1>3, <1>4, <1>5, <1>6 DEF WorkerNext, WorkerStep, WorkerReturned

LEMMA FilesTypeStep == FilesType /\ [WorkerNext]_captureVars => FilesType'
<1> SUFFICES ASSUME FilesType, [WorkerNext]_captureVars PROVE FilesType'
  OBVIOUS
<1> USE DEF FilesType
<1>1. CASE WorkerDriver \/ WorkerReader \/ ControllerStop \/ UNCHANGED captureVars
  BY <1>1 DEF WorkerDriver, WorkerReader, ControllerStop, captureVars, pipelineVars, productVars
<1>2. CASE WorkerStart \/ WorkerStarted \/ WorkerLoop \/ WorkerAbort \/ WorkerStatus \/ WorkerDrain
  BY <1>2 DEF WorkerStart, WorkerStarted, WorkerLoop, WorkerAbort, WorkerStatus, WorkerDrain,
     pipelineVars, productVars
<1>3. CASE WorkerTake
  BY <1>3 DEF WorkerTake, ChunkArrives, pipelineVars, productVars
<1>4. CASE WorkerProcess
  BY <1>4, ZenonT(60)
  DEF WorkerProcess, RecordRetained, AppendReport, AppendAnomaly, RecordFails, RecordRejected,
      RecordAppendFails, RecordInterpretationThrows, pipelineVars, productVars
<1>5. CASE WorkerSalvage \/ WorkerFlush
  BY <1>5 DEF WorkerSalvage, WorkerFlush, Checkpoint, CheckpointFails, DerivativesBecome,
     pipelineVars, productVars
<1>6. CASE WorkerSeal \/ WorkerPublish
  BY <1>6 DEF WorkerSeal, WorkerPublish, Seal, SealFails, Publish, PublishFails,
     DerivativesBecome, pipelineVars, productVars
<1> QED
  BY <1>1, <1>2, <1>3, <1>4, <1>5, <1>6 DEF WorkerNext, WorkerStep, WorkerReturned

(***************************************************************************)
(* What a step does to the products: nothing, a chunk parsed, or a record  *)
(* of it written, the last two with or without a failure.                  *)
(***************************************************************************)
Keeps ==
  /\ UNCHANGED <<units, sourceBytes, todo, pcap, reports, anomalies>>
  /\ Intact' => Intact
  /\ todo # <<>> => wpc' = "process"
  /\ reportStream = "none" => reportStream' = "none"
  /\ durable' \in {durable, Len(pcap)}
Parses ==
  /\ wpc = "take" /\ wpc' = "process"
  /\ TakeChunk /\ ChunkArrives(delivered', "none")
ParseFails ==
  /\ wpc' \in {"salvage", "abort"}
  /\ TakeChunk /\ \E error \in ErrorKinds : ChunkArrives(delivered', error)
Writes ==
  /\ wpc = "process" /\ wpc' = "process"
  /\ RecordRetained
WriteFails ==
  /\ wpc = "process" /\ wpc' \in {"salvage", "abort"}
  /\ \E error \in ErrorKinds : RecordFails(error)

LEMMA StepKinds ==
  ASSUME WorkerInv, [WorkerNext]_captureVars
  PROVE  Keeps \/ Parses \/ ParseFails \/ Writes \/ WriteFails
<1>1. /\ todo # <<>> => wpc = "process"
      /\ published => wpc = "done"
  BY DEF WorkerInv, ProductInv, ParseInv, VerdictInv
<1> USE DEF Keeps, Intact
<1>2. CASE WorkerDriver \/ WorkerReader \/ ControllerStop \/ UNCHANGED captureVars
  BY <1>1, <1>2 DEF WorkerDriver, WorkerReader, ControllerStop, captureVars, pipelineVars,
     productVars, workerVars
<1>3. CASE WorkerStart \/ WorkerStarted \/ WorkerLoop \/ WorkerAbort \/ WorkerStatus \/ WorkerDrain
  BY <1>1, <1>3 DEF WorkerStart, WorkerStarted, WorkerLoop, WorkerAbort, WorkerStatus,
     WorkerDrain, pipelineVars, productVars
<1>4. CASE WorkerTake
  <2>1. CASE queue = <<>> /\ wpc' = "flush" /\ UNCHANGED pipelineVars
    BY <1>1, <1>4, <2>1 DEF WorkerTake, pipelineVars, productVars
  <2>2. CASE TakeChunk /\ ChunkArrives(delivered', "none") /\ wpc' = "process"
    BY <1>4, <2>2 DEF WorkerTake, Parses
  <2>3. ASSUME TakeChunk, NEW error \in ErrorKinds, ChunkArrives(delivered', error),
               PipelineThrew(error)
        PROVE  ParseFails
    BY <2>3 DEF ParseFails, PipelineThrew
  <2> QED
    BY <1>4, <2>1, <2>2, <2>3 DEF WorkerTake
<1>5. CASE WorkerProcess
  <2>1. CASE todo = <<>> /\ wpc' = "flush" /\ UNCHANGED pipelineVars
    BY <1>1, <1>5, <2>1 DEF WorkerProcess, pipelineVars, productVars
  <2>2. CASE RecordRetained /\ UNCHANGED wpc
    BY <1>5, <2>2 DEF WorkerProcess, Writes
  <2>3. ASSUME NEW error \in ErrorKinds, RecordFails(error), PipelineThrew(error)
        PROVE  WriteFails
    BY <1>5, <2>3 DEF WorkerProcess, WriteFails, PipelineThrew
  <2> QED
    BY <1>5, <2>1, <2>2, <2>3 DEF WorkerProcess
<1>6. CASE WorkerSalvage \/ WorkerFlush
  BY <1>1, <1>6 DEF WorkerSalvage, WorkerFlush, Checkpoint, CheckpointFails,
     DerivativesBecome, pipelineVars, productVars
<1>7. CASE WorkerSeal \/ WorkerPublish
  BY <1>1, <1>7 DEF WorkerSeal, WorkerPublish, Seal, SealFails, Publish, PublishFails,
     DerivativesBecome, pipelineVars, productVars
<1> QED
  BY <1>2, <1>3, <1>4, <1>5, <1>6, <1>7 DEF WorkerNext, WorkerStep, WorkerReturned

\* What the invariant says of the lengths and the bytes.
LEMMA ProductBounds ==
  ASSUME WorkerInv
  PROVE  /\ units \in Streams /\ Len(units) \in Nat /\ UnitBytes \in Nat \ {0}
         /\ sourceBytes \in Nat /\ sourceBytes <= StreamBytes
         /\ todo \in Seq(2..Len(units)) /\ Len(todo) \in Nat
         /\ pcap \in Seq(2..Len(units)) /\ Len(pcap) \in Nat
         /\ reports \in Seq(2..Len(units)) /\ Len(reports) \in Nat
         /\ anomalies \in Seq(2..Len(units)) /\ Len(anomalies) \in Nat
         /\ durable \in 0..Len(pcap)
         /\ RecordsIn(sourceBytes) \in Nat
<1>1. RecordsType
  BY TypeParts DEF WorkerInv
<1>2. units \in Streams /\ StreamBytes \in Nat /\ UnitBytes \in Nat \ {0} /\ Len(units) \in Nat
  BY <1>1, UnitsTyped DEF RecordsType
<1>3. sourceBytes \in Nat /\ sourceBytes <= StreamBytes
  BY <1>1, <1>2 DEF RecordsType
<1>4. RecordsIn(sourceBytes) \in Nat
  BY <1>2, <1>3, RecordsBetweenArrive
<1> QED
  BY <1>1, <1>2, <1>3, <1>4 DEF RecordsType

LEMMA KeepsStep ==
  ASSUME WorkerInv, Keeps
  PROVE  RecordsType' /\ ProductInv'
<1>1. UNCHANGED <<units, sourceBytes, todo, pcap, reports, anomalies>>
  BY DEF Keeps
<1>2. RecordsType'
  <2>1. RecordsType
    BY TypeParts DEF WorkerInv
  <2>2. durable' \in 0..Len(pcap)
    BY <2>1, ProductBounds DEF Keeps, RecordsType
  <2> QED
    BY <1>1, <2>1, <2>2 DEF RecordsType, StreamBytes
<1>3. RawRun' /\ Follows(reports)' /\ Follows(anomalies)'
  BY <1>1 DEF WorkerInv, ProductInv, RawRun, Follows
<1>4. ParseInv'
  <2>1. RecordsIn(sourceBytes)' = RecordsIn(sourceBytes)
        /\ FramingFault(sourceBytes)' = FramingFault(sourceBytes)
    BY <1>1 DEF RecordsIn, FramingFault, Arrived
  <2> QED
    BY <1>1, <2>1 DEF WorkerInv, ProductInv, ParseInv, Keeps
<1>5. ReportsInv'
  BY <1>1 DEF WorkerInv, ProductInv, ReportsInv, Keeps
<1> QED
  BY <1>2, <1>3, <1>4, <1>5 DEF ProductInv

\* A chunk: the parser takes what the bytes complete, or nothing is to be done any more.
LEMMA ParsesStep ==
  ASSUME WorkerInv, NativeInv', TrafficInv', units' = units, Parses \/ ParseFails
  PROVE  RecordsType' /\ ProductInv'
<1> DEFINE m == sourceBytes
           n == delivered'
<1>1. /\ todo = <<>> /\ sourceBytes' = n
      /\ UNCHANGED <<pcap, durable, reportStream, reports, anomalies>>
      /\ todo' = <<>> \/ todo' = RecordsBetween(m, n)
  BY DEF Parses, ParseFails, ChunkArrives
<1>2. m \in Nat /\ n \in Nat /\ m <= n /\ n <= StreamBytes
  <2>1. m \in Nat /\ StreamBytes \in Nat
    BY ProductBounds, UnitsTyped
  <2>2. n \in Nat /\ n <= produced' /\ produced' \in Nat
    BY BytesAfter DEF TakenWasProduced
  <2>3. produced' <= StreamBytes
    <3>1. StreamBytes' = StreamBytes
      BY DEF StreamBytes
    <3> QED
      BY <3>1 DEF TrafficInv
  <2>4. m <= n
    <3>1. TakeChunk /\ m = delivered
      BY DEF Parses, ParseFails, WorkerInv, TrafficInv
    <3>2. queue # <<>> /\ n = delivered + ChunkSize(Head(queue))
      BY <3>1 DEF TakeChunk
    <3>3. ChunkSize(Head(queue)) \in Nat
      BY <3>2, HeadBounds DEF WorkerInv, NativeInv
    <3> QED
      BY <2>1, <3>1, <3>2, <3>3
  <2> QED
    BY <2>1, <2>2, <2>3, <2>4
<1> HIDE DEF m, n
<1>3. /\ RecordsIn(m) \in Nat /\ RecordsIn(n) \in Nat /\ RecordsIn(m) <= RecordsIn(n)
      /\ RecordsBetween(m, n) \in Seq(2..Len(units))
      /\ Len(RecordsBetween(m, n)) = RecordsIn(n) - RecordsIn(m)
      /\ \A i \in 1..(RecordsIn(n) - RecordsIn(m)) :
           RecordsBetween(m, n)[i] = RecordsIn(m) + 1 + i
  BY <1>2, ProductBounds, RecordsBetweenArrive
<1>4. RecordsType'
  <2>1. RecordsType
    BY TypeParts DEF WorkerInv
  <2>2. todo' \in Seq(2..Len(units))
    BY <1>1, <1>3, ProductBounds
  <2>3. sourceBytes' \in 0..StreamBytes
    BY <1>1, <1>2, ProductBounds, UnitsTyped
  <2>4. StreamBytes' = StreamBytes
    BY DEF StreamBytes
  <2> QED
    BY <1>1, <2>1, <2>2, <2>3, <2>4 DEF RecordsType
<1>5. RawRun' /\ Follows(reports)' /\ Follows(anomalies)'
  BY <1>1 DEF WorkerInv, ProductInv, RawRun, Follows
<1>6. RecordsIn(sourceBytes)' = RecordsIn(n) /\ FramingFault(sourceBytes)' = FramingFault(n)
  BY <1>1 DEF RecordsIn, FramingFault, Arrived
<1>7. ParseInv' /\ ReportsInv'
  <2>1. Len(pcap) \in Nat /\ Len(pcap) <= RecordsIn(m)
    BY ProductBounds DEF WorkerInv, ProductInv, ParseInv, m
  <2>2. CASE ParseFails
    <3>1. ~Intact' /\ todo' = <<>>
      BY <2>2 DEF ParseFails, Intact, ChunkArrives, ErrorKinds
    <3> QED
      BY <1>1, <1>3, <1>6, <2>1, <3>1 DEF ParseInv, ReportsInv
  <2>3. CASE Parses
    <3>1. /\ Intact /\ wpc' = "process" /\ ~FramingFault(n)
          /\ todo' = RecordsBetween(m, n)
      BY <2>3 DEF Parses, Intact, ChunkArrives, m, n
    <3>2. Len(pcap) = RecordsIn(m)
      BY <1>1, <2>1, <3>1 DEF WorkerInv, ProductInv, ParseInv, m
    <3>3. Len(todo)' = RecordsIn(n) - RecordsIn(m)
      BY <1>3, <3>1
    <3>4. ParseInv'
      BY <1>1, <1>3, <1>6, <3>1, <3>2, <3>3 DEF ParseInv
    <3> QED
      BY <1>1, <3>1, <3>4 DEF WorkerInv, ProductInv, ReportsInv
  <2> QED
    BY <2>2, <2>3
<1> QED
  BY <1>4, <1>5, <1>7 DEF ProductInv

\* The record to do next is the one after the raw records.
LEMMA NextRecord ==
  ASSUME WorkerInv, wpc = "process", todo # <<>>
  PROVE  /\ Head(todo) = Len(pcap) + 2 /\ Head(todo) \in 2..Len(units)
         /\ Len(todo) \in Nat \ {0} /\ Tail(todo) \in Seq(2..Len(units))
         /\ Len(Tail(todo)) = Len(todo) - 1
         /\ \A i \in 1..Len(Tail(todo)) : Tail(todo)[i] = Len(pcap) + 2 + i
         /\ Len(pcap) + Len(todo) = RecordsIn(sourceBytes)
         /\ units[Head(todo)] # "badLength"
<1>1. Intact
  BY DEF Intact
<1>2. /\ ~FramingFault(sourceBytes)
      /\ Len(pcap) + Len(todo) = RecordsIn(sourceBytes)
      /\ \A i \in 1..Len(todo) : todo[i] = Len(pcap) + 1 + i
  BY <1>1 DEF WorkerInv, ProductInv, ParseInv
<1>3. /\ Len(todo) \in Nat \ {0} /\ Tail(todo) \in Seq(2..Len(units))
      /\ Len(Tail(todo)) = Len(todo) - 1 /\ Head(todo) = todo[1]
      /\ \A i \in 1..Len(Tail(todo)) : Tail(todo)[i] = todo[i + 1]
      /\ Head(todo) \in 2..Len(units)
  BY ProductBounds
<1>4. Head(todo) = Len(pcap) + 2
  BY <1>2, <1>3, ProductBounds
<1>5. ASSUME NEW i \in 1..Len(Tail(todo)) PROVE Tail(todo)[i] = Len(pcap) + 2 + i
  <2>1. i + 1 \in 1..Len(todo) /\ i \in Nat
    BY <1>3, ProductBounds
  <2>2. todo[i + 1] = Len(pcap) + 1 + (i + 1)
    BY <1>2, <2>1
  <2> QED
    BY <1>3, <2>1, <2>2, ProductBounds
<1>6. Head(todo) \in 2..Arrived(sourceBytes)
  <2>1. Arrived(sourceBytes) \in Nat
    BY ProductBounds, ArrivedBounds
  <2>2. Len(pcap) + 2 <= Arrived(sourceBytes)
    BY <1>2, <1>3, <2>1, ProductBounds DEF RecordsIn
  <2> QED
    BY <1>4, <2>1, <2>2, ProductBounds
<1> QED
  BY <1>2, <1>3, <1>4, <1>5, <1>6, ProductBounds, FaultFree

\* What the append to a derivative leaves true of it.
LEMMA FollowsAppended ==
  ASSUME NEW len \in Nat, NEW product \in Seq(2..Len(units)),
         \A i \in 1..Len(product) :
           product[i] <= len + 1 /\ (i > 1 => product[i - 1] < product[i])
  PROVE  \A next \in {product, Append(product, len + 2)} : \A i \in 1..Len(next) :
           next[i] <= len + 2 /\ (i > 1 => next[i - 1] < next[i])
<1>1. Len(product) \in Nat /\ \A i \in 1..Len(product) : product[i] \in Int
  OBVIOUS
<1>2. ASSUME NEW i \in 1..Len(product)
      PROVE  product[i] <= len + 2 /\ (i > 1 => product[i - 1] < product[i])
  <2>1. product[i] <= len + 1 /\ product[i] \in Int
    BY <1>1
  <2> QED
    BY <2>1
<1>3. ASSUME NEW i \in 1..Len(Append(product, len + 2))
      PROVE  /\ Append(product, len + 2)[i] <= len + 2
             /\ i > 1 => Append(product, len + 2)[i - 1] < Append(product, len + 2)[i]
  <2>1. CASE i \in 1..Len(product)
    <3>1. Append(product, len + 2)[i] = product[i]
      BY <2>1
    <3>2. i > 1 => Append(product, len + 2)[i - 1] = product[i - 1]
      BY <1>1, <2>1
    <3> QED
      BY <1>2, <2>1, <3>1, <3>2
  <2>2. CASE i = Len(product) + 1
    <3>1. Append(product, len + 2)[i] = len + 2
      BY <1>1, <2>2
    <3>2. ASSUME i > 1 PROVE Append(product, len + 2)[i - 1] <= len + 1
                              /\ Append(product, len + 2)[i - 1] \in Int
      <4>1. i - 1 \in 1..Len(product)
        BY <1>1, <2>2, <3>2
      <4>2. Append(product, len + 2)[i - 1] = product[i - 1]
        BY <4>1
      <4> QED
        BY <1>1, <4>1, <4>2
    <3> QED
      BY <3>1, <3>2
  <2> QED
    BY <1>1, <2>1, <2>2
<1> QED
  BY <1>2, <1>3

\* Each derivative stays, or gets the new record.
LEMMA DerivativesStep ==
  ASSUME WorkerInv, pcap' = Append(pcap, Len(pcap) + 2),
         reports' \in {reports, Append(reports, Len(pcap) + 2)},
         anomalies' \in {anomalies, Append(anomalies, Len(pcap) + 2)}
  PROVE  Follows(reports)' /\ Follows(anomalies)'
<1>1. Len(pcap) \in Nat /\ Len(pcap') = Len(pcap) + 1
  BY ProductBounds
<1>2. \A i \in 1..Len(reports) :
        reports[i] <= Len(pcap) + 1 /\ (i > 1 => reports[i - 1] < reports[i])
  BY DEF WorkerInv, ProductInv, Follows
<1>3. \A i \in 1..Len(anomalies) :
        anomalies[i] <= Len(pcap) + 1 /\ (i > 1 => anomalies[i - 1] < anomalies[i])
  BY DEF WorkerInv, ProductInv, Follows
<1>4. \A i \in 1..Len(reports') :
        reports'[i] <= Len(pcap) + 2 /\ (i > 1 => reports'[i - 1] < reports'[i])
  BY <1>1, <1>2, ProductBounds, FollowsAppended
<1>5. \A i \in 1..Len(anomalies') :
        anomalies'[i] <= Len(pcap) + 2 /\ (i > 1 => anomalies'[i - 1] < anomalies'[i])
  BY <1>1, <1>3, ProductBounds, FollowsAppended
<1>6. Len(pcap') + 1 = Len(pcap) + 2
  BY <1>1
<1> QED
  BY <1>4, <1>5, <1>6 DEF Follows

\* Another record of the stream is in the raw PCAP.
LEMMA RawGrows ==
  ASSUME WorkerInv, wpc = "process", todo # <<>>, units' = units,
         pcap' = Append(pcap, Head(todo)), Retainable(units[Head(todo)])
  PROVE  RawRun' /\ Len(pcap') = Len(pcap) + 1 /\ pcap' = Append(pcap, Len(pcap) + 2)
<1>1. Head(todo) = Len(pcap) + 2 /\ Len(pcap) \in Nat /\ pcap \in Seq(2..Len(units))
  BY NextRecord, ProductBounds
<1>2. Len(pcap') = Len(pcap) + 1
  BY <1>1
<1>3. ASSUME NEW i \in 1..Len(pcap')
      PROVE  pcap'[i] = i + 1 /\ Retainable(units[i + 1])
  <2>1. CASE i \in 1..Len(pcap)
    <3>1. pcap'[i] = pcap[i]
      BY <1>1, <2>1
    <3> QED
      BY <2>1, <3>1 DEF WorkerInv, ProductInv, RawRun
  <2>2. CASE i = Len(pcap) + 1
    <3>1. pcap'[i] = Head(todo) /\ i + 1 = Head(todo)
      BY <1>1, <2>2
    <3> QED
      BY <3>1
  <2> QED
    BY <1>1, <1>2, <2>1, <2>2
<1>4. RawRun'
  BY <1>3 DEF RawRun, Retainable
<1> QED
  BY <1>1, <1>2, <1>4

LEMMA RecordsTypeGrows ==
  ASSUME WorkerInv, wpc = "process", todo # <<>>,
         UNCHANGED <<units, sourceBytes, durable>>,
         todo' \in {<<>>, Tail(todo)}, pcap' \in {pcap, Append(pcap, Head(todo))},
         reports' \in {reports, Append(reports, Head(todo))},
         anomalies' \in {anomalies, Append(anomalies, Head(todo))}
  PROVE  RecordsType'
<1>1. Head(todo) \in 2..Len(units) /\ Tail(todo) \in Seq(2..Len(units))
  BY NextRecord
<1>2. RecordsType
  BY TypeParts DEF WorkerInv
<1>3. /\ todo' \in Seq(2..Len(units)) /\ pcap' \in Seq(2..Len(units))
      /\ reports' \in Seq(2..Len(units)) /\ anomalies' \in Seq(2..Len(units))
  <2>1. \A s \in Seq(2..Len(units)) : Append(s, Head(todo)) \in Seq(2..Len(units))
    BY <1>1
  <2>2. <<>> \in Seq(2..Len(units))
    OBVIOUS
  <2>3. /\ todo \in Seq(2..Len(units)) /\ pcap \in Seq(2..Len(units))
        /\ reports \in Seq(2..Len(units)) /\ anomalies \in Seq(2..Len(units))
    BY ProductBounds
  <2> QED
    BY <1>1, <2>1, <2>2, <2>3
<1>4. durable' \in 0..Len(pcap')
  <2>1. Len(pcap') \in Nat /\ Len(pcap') >= Len(pcap)
    BY <1>1, ProductBounds
  <2> QED
    BY <2>1, ProductBounds
<1> QED
  BY <1>2, <1>3, <1>4 DEF RecordsType, StreamBytes

\* A record is written, and what is decoded from it where the derivative still exists.
LEMMA WritesStep ==
  ASSUME WorkerInv, Writes
  PROVE  RecordsType' /\ ProductInv'
<1> DEFINE r == Len(pcap) + 2
<1>1. /\ wpc = "process" /\ wpc' = "process" /\ todo # <<>>
      /\ UNCHANGED <<units, sourceBytes, durable, published>>
      /\ units[Head(todo)] \notin {"badPacket", "foreign"}
      /\ pcap' = Append(pcap, Head(todo)) /\ todo' = Tail(todo)
  BY DEF Writes, RecordRetained
<1>2. Head(todo) = r /\ Retainable(units[r])
  BY <1>1, NextRecord DEF Retainable
<1>3. reports' \in {reports, Append(reports, r)} /\ anomalies' \in {anomalies, Append(anomalies, r)}
  BY <1>2 DEF Writes, RecordRetained, AppendReport, AppendAnomaly
<1>4. RawRun' /\ Len(pcap') = Len(pcap) + 1 /\ pcap' = Append(pcap, r)
  BY <1>1, <1>2, RawGrows
<1>5. RecordsType'
  BY <1>1, <1>2, <1>3, RecordsTypeGrows
<1>6. Follows(reports)' /\ Follows(anomalies)'
  BY <1>3, <1>4, DerivativesStep
<1>7. Intact /\ Intact'
  BY <1>1 DEF Intact
<1>8. ParseInv'
  <2>1. RecordsIn(sourceBytes)' = RecordsIn(sourceBytes)
        /\ FramingFault(sourceBytes)' = FramingFault(sourceBytes)
    BY <1>1 DEF RecordsIn, FramingFault, Arrived
  <2>2. ~FramingFault(sourceBytes)
    BY <1>7 DEF WorkerInv, ProductInv, ParseInv
  <2>3. /\ Len(todo) \in Nat \ {0} /\ Len(todo') = Len(todo) - 1
        /\ \A i \in 1..Len(todo') : todo'[i] = r + i
        /\ Len(pcap) + Len(todo) = RecordsIn(sourceBytes) /\ Len(pcap) \in Nat
    BY <1>1, NextRecord, ProductBounds
  <2>4. Len(pcap') + Len(todo') = RecordsIn(sourceBytes) /\ Len(pcap') <= RecordsIn(sourceBytes)
    BY <1>4, <2>3
  <2>5. \A i \in 1..Len(todo') : todo'[i] = Len(pcap') + 1 + i
    BY <1>4, <2>3
  <2> QED
    BY <1>1, <2>1, <2>2, <2>4, <2>5 DEF ParseInv
<1>9. ReportsInv'
  <2> SUFFICES ASSUME reportStream' # "none", NEW s \in 2..(Len(pcap') + 1)
               PROVE  (\E i \in 1..Len(reports') : reports'[i] = s) <=> Reported(units[s])
    BY <1>1 DEF ReportsInv, Reported
  <2>1. reportStream # "none"
    BY DEF Writes, RecordRetained, AppendReport
  <2>2. reportStream = "open"
    BY <1>1, <2>1 DEF WorkerInv, CaptureTypeOK, VerdictInv
  <2>3. reports' = IF Reported(units[r]) THEN Append(reports, r) ELSE reports
    BY <1>2, <2>2 DEF Writes, RecordRetained, AppendReport, Reported
  <2>4. /\ Len(pcap) \in Nat /\ Len(reports) \in Nat /\ reports \in Seq(2..Len(units))
        /\ \A i \in 1..Len(reports) : reports[i] <= Len(pcap) + 1
    BY ProductBounds DEF WorkerInv, ProductInv, Follows
  <2>5. \A q \in 2..(Len(pcap) + 1) :
          (\E i \in 1..Len(reports) : reports[i] = q) <=> Reported(units[q])
    BY <1>7, <2>1 DEF WorkerInv, ProductInv, ReportsInv
  <2>6. s \in 2..(Len(pcap) + 1) \/ s = r
    BY <1>4, <2>4
  <2>7. (\E i \in 1..Len(reports') : reports'[i] = s)
          <=> (\E i \in 1..Len(reports) : reports[i] = s) \/ (Reported(units[r]) /\ s = r)
    <3>1. CASE ~Reported(units[r])
      BY <2>3, <3>1
    <3>2. CASE Reported(units[r])
      <4>1. Len(reports') = Len(reports) + 1 /\ reports'[Len(reports) + 1] = r
            /\ \A i \in 1..Len(reports) : reports'[i] = reports[i]
        BY <2>3, <2>4, <3>2
      <4>2. 1..Len(reports') = 1..Len(reports) \cup {Len(reports) + 1}
        BY <2>4, <4>1
      <4> QED
        BY <3>2, <4>1, <4>2
    <3> QED
      BY <3>1, <3>2
  <2>8. CASE s = r
    <3>1. ~\E i \in 1..Len(reports) : reports[i] = r
      BY <2>4
    <3> QED
      BY <2>7, <2>8, <3>1
  <2>9. CASE s \in 2..(Len(pcap) + 1)
    <3>1. s # r
      BY <2>4, <2>9
    <3> QED
      BY <2>5, <2>7, <2>9, <3>1
  <2> QED
    BY <2>6, <2>8, <2>9
<1> QED
  BY <1>4, <1>5, <1>6, <1>8, <1>9 DEF ProductInv

\* A record that fails ends the run of records, written or not.
LEMMA WriteFailsStep ==
  ASSUME WorkerInv, WriteFails
  PROVE  RecordsType' /\ ProductInv'
<1> DEFINE r == Len(pcap) + 2
<1>1. /\ wpc = "process" /\ todo # <<>> /\ todo' = <<>> /\ ~Intact'
      /\ UNCHANGED <<units, sourceBytes, durable, reports, anomalies>>
      /\ \/ pcap' = pcap
         \/ pcap' = Append(pcap, Head(todo)) /\ Retainable(units[Head(todo)])
  BY DEF WriteFails, RecordFails, RecordRejected, RecordAppendFails,
     RecordInterpretationThrows, productVars, Intact, Retainable
<1>2. RecordsType'
  BY <1>1, RecordsTypeGrows
<1>3. RecordsIn(sourceBytes)' = RecordsIn(sourceBytes)
  BY <1>1 DEF RecordsIn, Arrived
<1>4. ReportsInv'
  BY <1>1 DEF ReportsInv
<1>5. CASE pcap' = pcap
  <2>1. RawRun' /\ Follows(reports)' /\ Follows(anomalies)'
    BY <1>1, <1>5 DEF WorkerInv, ProductInv, RawRun, Follows
  <2>2. ParseInv'
    BY <1>1, <1>3, <1>5 DEF WorkerInv, ProductInv, ParseInv
  <2> QED
    BY <1>2, <1>4, <2>1, <2>2 DEF ProductInv
<1>6. CASE pcap' = Append(pcap, Head(todo)) /\ Retainable(units[Head(todo)])
  <2>1. RawRun' /\ Len(pcap') = Len(pcap) + 1 /\ pcap' = Append(pcap, r)
    BY <1>1, <1>6, RawGrows
  <2>2. Follows(reports)' /\ Follows(anomalies)'
    BY <1>1, <2>1, DerivativesStep
  <2>3. Len(pcap') <= RecordsIn(sourceBytes)
    BY <1>1, <2>1, NextRecord, ProductBounds
  <2>4. ParseInv'
    BY <1>1, <1>3, <2>3 DEF ParseInv
  <2> QED
    BY <1>2, <1>4, <2>1, <2>2, <2>4 DEF ProductInv
<1> QED
  BY <1>1, <1>5, <1>6

LEMMA ProductStep ==
  ASSUME WorkerInv, NativeInv', TrafficInv', units' = units, [WorkerNext]_captureVars
  PROVE  RecordsType' /\ ProductInv'
BY StepKinds, KeepsStep, ParsesStep, WritesStep, WriteFailsStep

(***************************************************************************)
(* Run's decisions.                                                        *)
(***************************************************************************)
LEMMA RunVerdictStep ==
  ASSUME WorkerInv, [WorkerNext]_captureVars
  PROVE  VerdictInv'
<1> USE DEF VerdictInv
<1>0. VerdictInv /\ FilesType
  BY TypeParts DEF WorkerInv
<1>1. CASE WorkerDriver \/ WorkerReader
  <2>1. UNCHANGED <<pipelineVars, workerVars>>
    BY <1>1 DEF WorkerDriver, WorkerReader
  <2>2. clean' = clean
    BY <1>1 DEF WorkerDriver, DriverStep, DeviceTraffic, PendedReadCompletesEmpty, DeviceRemoved,
       WorkerReader, ReaderStep, ReaderTop, ReaderBegin, ReaderHandle, ReaderWait,
       ReaderStopFilter, ReaderFinal, ReaderCancel, ReaderAwait, ReaderExit, stopVars
  <2> QED
    BY <1>0, <2>1, <2>2 DEF pipelineVars, productVars, workerVars, AtRecordBoundary, HeaderReady,
       Arrived
<1>2. CASE ControllerStop \/ UNCHANGED captureVars
  <2>1. UNCHANGED <<pipelineVars, wpc, pendingReason, wstate, clean>>
    BY <1>2 DEF ControllerStop, RequestStop, captureVars, workerVars, nativeVars, stopVars
  <2> QED
    BY <1>0, <2>1 DEF pipelineVars, productVars, AtRecordBoundary, HeaderReady, Arrived
<1>3. CASE WorkerStart \/ WorkerStarted \/ WorkerLoop
  <2>1. wpc' # "publish" /\ UNCHANGED pipelineVars /\ wpc \in {"start", "started", "loop"}
    BY <1>3 DEF WorkerStart, WorkerStarted, WorkerLoop
  <2>2. ~sealed /\ ~published
    BY <1>0, <2>1
  <2>3. /\ wpc' \in {"abort", "done"} => pendingReason' # "None"
        /\ wpc' = "done" => wstate' # "Completed"
        /\ wpc' \notin {"salvage", "aborting"}
    BY <1>3 DEF WorkerStart, WorkerStarted, WorkerLoop
  <2> QED
    BY <1>0, <2>1, <2>2, <2>3 DEF pipelineVars, productVars
<1>4. CASE WorkerTake \/ WorkerProcess
  <2>1. /\ wpc \in {"take", "process"}
        /\ wpc' \in {"process", "flush", "salvage", "abort"}
        /\ wpc' \in {"salvage", "abort"} => pendingReason' # "None"
    BY <1>4 DEF WorkerTake, WorkerProcess, PipelineThrew, FailureForPipelineError, ChunkArrives,
       pipelineVars, productVars
  <2>2. ~sealed /\ ~published
    BY <1>0, <2>1
  <2>3. sealed' = sealed /\ published' = published /\ (reportStream' = "final" => reportStream = "final")
    BY <1>4 DEF WorkerTake, WorkerProcess, ChunkArrives, RecordRetained, AppendReport,
       RecordFails, RecordRejected, RecordAppendFails, RecordInterpretationThrows,
       pipelineVars, productVars
  <2> QED
    BY <1>0, <2>1, <2>2, <2>3
<1>5. CASE WorkerSalvage \/ WorkerFlush
  <2>1. /\ wpc \in {"salvage", "flush"}
        /\ wpc' \in {"status", "abort"} /\ (wpc' = "abort" => pendingReason' # "None")
    BY <1>0, <1>5 DEF WorkerSalvage, WorkerFlush
  <2>2. ~sealed /\ ~published
    BY <1>0, <2>1
  <2>3. sealed' = sealed /\ published' = published /\ (reportStream' = "final" => reportStream = "final")
    BY <1>5 DEF WorkerSalvage, WorkerFlush, Checkpoint, CheckpointFails, DerivativesBecome,
       pipelineVars, productVars
  <2> QED
    BY <1>0, <2>1, <2>2, <2>3
<1>6. CASE WorkerAbort
  <2>1. /\ wpc \in {"abort", "aborting"} /\ UNCHANGED <<pipelineVars, pendingReason>>
        /\ wpc' \in {"aborting", "done"} /\ (wpc' = "done" => wstate' = "Failed")
    BY <1>6 DEF WorkerAbort
  <2>2. ~sealed /\ ~published /\ pendingReason # "None"
    BY <1>0, <2>1
  <2> QED
    BY <1>0, <2>1, <2>2 DEF pipelineVars, productVars
<1>7. CASE WorkerStatus
  <2>1. wpc = "status" /\ wpc' \in {"seal", "loop"} /\ UNCHANGED pipelineVars
    BY <1>7 DEF WorkerStatus
  <2>2. ~sealed /\ ~published
    BY <1>0, <2>1
  <2> QED
    BY <1>0, <2>1, <2>2 DEF pipelineVars, productVars
<1>8. CASE WorkerSeal
  <2>1. wpc = "seal" /\ wpc' = "drain" /\ published' = published
        /\ (reportStream' = "final" => reportStream = "final")
    BY <1>8 DEF WorkerSeal, Seal, SealFails, DerivativesBecome
  <2>2. ~sealed /\ ~published
    BY <1>0, <2>1
  <2>3. sealed' => AtRecordBoundary(sourceBytes)'
    BY <1>8, <2>2 DEF WorkerSeal, Seal, SealFails, AtRecordBoundary, HeaderReady, Arrived
  <2> QED
    BY <1>0, <2>1, <2>2, <2>3
<1>9. CASE WorkerDrain
  <2>1. UNCHANGED pipelineVars /\ wpc \in {"drain", "join", "report"}
    BY <1>9 DEF WorkerDrain
  <2>2. ~published
    BY <1>0, <2>1
  <2>3. /\ wpc' \in {"join", "report", "publish"}
        /\ wpc' = "publish" /\ pendingReason' = "None" => clean'
    BY <1>9 DEF WorkerDrain, FirstReason, FailureForStopReport
  <2> QED
    BY <1>0, <2>1, <2>2, <2>3 DEF pipelineVars, productVars, AtRecordBoundary, HeaderReady, Arrived
<1>10. CASE WorkerPublish
  <2>1. /\ wpc = "publish" /\ wpc' = "done" /\ ~published /\ UNCHANGED <<units, sourceBytes, clean>>
    BY <1>0, <1>10 DEF WorkerPublish, Publish, PublishFails, pipelineVars, nativeVars, stopVars
  <2>2. CASE pendingReason = "None" /\ Publish /\ wstate' = "Completed" /\ UNCHANGED pendingReason
    BY <1>0, <2>1, <2>2 DEF Publish, AtRecordBoundary, HeaderReady, Arrived
  <2>3. CASE /\ UNCHANGED <<sealed, published, reportStream>>
             /\ wstate' = "Failed" /\ pendingReason' # "None"
    BY <1>0, <2>1, <2>3 DEF AtRecordBoundary, HeaderReady, Arrived
  <2> QED
    BY <1>10, <2>2, <2>3 DEF WorkerPublish, PublishFails, pipelineVars, productVars
<1> QED
  BY <1>1, <1>2, <1>3, <1>4, <1>5, <1>6, <1>7, <1>8, <1>9, <1>10
  DEF WorkerNext, WorkerStep, WorkerReturned

(***************************************************************************)
(* The invariant holds.                                                    *)
(***************************************************************************)
LEMMA WorkerInitInv == WorkerInit => WorkerInv /\ DrainInv
<1> SUFFICES ASSUME WorkerInit PROVE WorkerInv /\ DrainInv
  OBVIOUS
<1>1. DrainInv
  BY NativeInitInv DEF WorkerInit
<1>2. units \in Streams /\ StreamBytes \in Nat /\ UnitBytes \in Nat \ {0}
  BY UnitsTyped DEF WorkerInit, PipelineInit
<1>3. CaptureTypeOK
  <2>1. ControlType
    BY DEF WorkerInit, ControlType, WorkerPcs, WorkerStates, FatalReasons
  <2>2. FilesType
    BY DEF WorkerInit, PipelineInit, FilesType
  <2>3. <<>> \in Seq(2..Len(units)) /\ 0 \in 0..StreamBytes /\ 0 \in 0..Len(<<>>)
    BY <1>2
  <2>4. RecordsType
    BY <1>2, <2>3 DEF WorkerInit, PipelineInit, RecordsType
  <2> QED
    BY <2>1, <2>2, <2>4, TypeParts
<1>4. TrafficInv
  BY <1>2 DEF WorkerInit, NativeInit, PipelineInit, TrafficInv
<1>5. ProductInv
  <2>1. sourceBytes = 0 /\ todo = <<>> /\ pcap = <<>> /\ reports = <<>> /\ anomalies = <<>>
    BY DEF WorkerInit, PipelineInit
  <2>2. Arrived(0) = 0
    BY <1>2 DEF Arrived
  <2>3. ~FramingFault(0)
    <3>1. \A i \in 2..Len(units) : ~(0 > UnitBytes * (i - 1))
      <4>1. SUFFICES ASSUME NEW i \in 2..Len(units) PROVE UnitBytes * (i - 1) >= 0
        BY <1>2
      <4>2. i - 1 \in Nat
        BY <1>2
      <4>3. \A a, b \in Nat : a * b \in Nat
        OBVIOUS
      <4> QED
        BY <1>2, <4>2, <4>3
    <3> QED
      BY <2>2, <3>1 DEF FramingFault
  <2>4. ParseInv
    BY <2>1, <2>2, <2>3 DEF ParseInv, RecordsIn
  <2> QED
    BY <2>1, <2>4 DEF ProductInv, RawRun, Follows, ReportsInv
<1>6. VerdictInv
  BY DEF WorkerInit, PipelineInit, VerdictInv
<1> QED
  BY <1>1, <1>3, <1>4, <1>5, <1>6 DEF WorkerInv, DrainInv

LEMMA WorkerInvStep == WorkerInv /\ [WorkerNext]_captureVars => WorkerInv'
<1> SUFFICES ASSUME WorkerInv, [WorkerNext]_captureVars PROVE WorkerInv'
  OBVIOUS
<1>1. NativeInv'
  BY WorkerIsClient, NativeInvStep DEF WorkerInv
<1>2. units' = units /\ TrafficInv'
  BY <1>1, TrafficStep
<1>3. RecordsType' /\ ProductInv'
  BY <1>1, <1>2, ProductStep
<1>4. ControlType' /\ FilesType'
  BY TypeParts, ControlTypeStep, FilesTypeStep DEF WorkerInv
<1>5. VerdictInv'
  BY RunVerdictStep
<1>6. CaptureTypeOK'
  BY <1>3, <1>4, TypeParts DEF CaptureTypeOK, ControlType, FilesType, RecordsType
<1> QED
  BY <1>1, <1>2, <1>3, <1>5, <1>6 DEF WorkerInv

THEOREM WorkerInvariant == WorkerSpec => []WorkerInv
<1>1. WorkerInit => WorkerInv
  BY WorkerInitInv
<1> QED
  BY <1>1, WorkerInvStep, PTL DEF WorkerSpec

(***************************************************************************)
(* What follows from it.                                                   *)
(***************************************************************************)
LEMMA InvariantProducts == WorkerInv => ProductsFollowStream
<1> SUFFICES ASSUME WorkerInv PROVE ProductsFollowStream
  OBVIOUS
<1>1. CaptureTypeOK
  BY DEF WorkerInv
<1>2. RawIsExactPrefix
  <2>1. \A i \in 1..Len(pcap) : pcap[i] = i + 1 /\ Retainable(units[i + 1])
    BY DEF WorkerInv, ProductInv, RawRun
  <2>2. ASSUME pcap # <<>> PROVE Len(pcap) < Arrived(delivered)
    <3>1. Len(pcap) \in Nat \ {0} /\ Arrived(sourceBytes) \in Nat
      BY <2>2, ProductBounds, ArrivedBounds
    <3>2. Len(pcap) <= RecordsIn(sourceBytes)
      BY DEF WorkerInv, ProductInv, ParseInv
    <3>3. Len(pcap) < Arrived(sourceBytes)
      BY <3>1, <3>2 DEF RecordsIn
    <3> QED
      BY <3>3 DEF WorkerInv, TrafficInv
  <2> QED
    BY <2>1, <2>2 DEF RawIsExactPrefix
<1>3. ASSUME NEW product \in {reports, anomalies}, NEW i \in 1..Len(product)
      PROVE  /\ \E j \in 1..Len(pcap) : product[i] = pcap[j]
             /\ i > 1 => product[i - 1] < product[i]
  <2>1. /\ Follows(product) /\ product \in Seq(2..Len(units)) /\ Len(product) \in Nat
        /\ Len(pcap) \in Nat /\ Len(units) \in Nat
    BY ProductBounds DEF WorkerInv, ProductInv
  <2>2. product[i] \in 2..Len(units) /\ product[i] <= Len(pcap) + 1
    BY <2>1 DEF Follows
  <2>3. product[i] - 1 \in 1..Len(pcap)
    BY <2>1, <2>2
  <2>4. pcap[product[i] - 1] = (product[i] - 1) + 1
    BY <2>3 DEF WorkerInv, ProductInv, RawRun
  <2>5. pcap[product[i] - 1] = product[i]
    BY <2>1, <2>2, <2>4
  <2> QED
    BY <2>1, <2>3, <2>5 DEF Follows
<1>4. DerivativesFollowRaw
  BY <1>3 DEF DerivativesFollowRaw
<1> QED
  BY <1>1, <1>2, <1>4 DEF ProductsFollowStream

LEMMA InvariantVerdict == WorkerInv => CompletedMeansPublished
BY DEF WorkerInv, VerdictInv, CompletedMeansPublished

\* A published capture ended on a record boundary with nothing left to do, so the raw
\* records are all that was read, and a clean stop leaves nothing with the driver unless
\* its quiet edge was stale.
LEMMA InvariantComplete == WorkerInv /\ DrainInv => PublishedIsComplete
<1> SUFFICES ASSUME WorkerInv, DrainInv, published
             PROVE  /\ fetched = UnitBytes * (Len(pcap) + 1)
                    /\ staleEdge \/ produced = fetched
                    /\ writer = "final" /\ durable = Len(pcap)
                    /\ reportStream = "final" =>
                         \A j \in 1..Len(pcap) :
                           (\E i \in 1..Len(reports) : reports[i] = pcap[j])
                             <=> Reported(units[pcap[j]])
  BY DEF PublishedIsComplete
<1>1. /\ wpc = "done" /\ clean /\ AtRecordBoundary(sourceBytes)
      /\ writer = "final" /\ durable = Len(pcap)
  BY DEF WorkerInv, VerdictInv
<1>2. Intact /\ todo = <<>>
  BY <1>1 DEF Intact, WorkerInv, ProductInv, ParseInv
<1>3. /\ Len(pcap) \in Nat /\ sourceBytes \in Nat /\ UnitBytes \in Nat \ {0}
      /\ Arrived(sourceBytes) \in Nat
  BY ProductBounds, ArrivedBounds
<1>4. Arrived(sourceBytes) > 0 /\ (sourceBytes % UnitBytes) = 0
  BY <1>1 DEF AtRecordBoundary, HeaderReady
<1>5. Len(pcap) = RecordsIn(sourceBytes)
  BY <1>2, <1>3 DEF WorkerInv, ProductInv, ParseInv
<1>6. Len(pcap) + 1 = Arrived(sourceBytes)
  BY <1>3, <1>4, <1>5 DEF RecordsIn
<1>7. sourceBytes = UnitBytes * Arrived(sourceBytes)
  BY <1>3, <1>4, ArrivedBounds
<1>8. fetched = sourceBytes /\ (staleEdge \/ produced = fetched)
  BY <1>1, DrainIsLossless DEF CleanStopMissesOnlyStaleEdge, WorkerInv, TrafficInv
<1>9. ASSUME reportStream = "final", NEW j \in 1..Len(pcap)
      PROVE  (\E i \in 1..Len(reports) : reports[i] = pcap[j]) <=> Reported(units[pcap[j]])
  <2>1. pcap[j] = j + 1 /\ j + 1 \in 2..(Len(pcap) + 1)
    BY <1>3 DEF WorkerInv, ProductInv, RawRun
  <2> QED
    BY <1>2, <1>9, <2>1 DEF WorkerInv, ProductInv, ReportsInv
<1> QED
  BY <1>1, <1>6, <1>7, <1>8, <1>9

\* The worker uses the native object only as the object allows: every behaviour of the
\* composition is one of NativeUsbPcap's, so whatever is proved of the object for all its
\* clients holds of the reader and the driver in it.
THEOREM WorkerIsNativeClient == WorkerSpec => NativeInit /\ [][NativeNext]_nativeVars
<1>1. WorkerInit => NativeInit
  BY DEF WorkerInit
<1>2. WorkerInv /\ [WorkerNext]_captureVars => [NativeNext]_nativeVars
  BY WorkerIsClient DEF WorkerInv
<1> QED
  BY <1>1, <1>2, WorkerInvariant, PTL DEF WorkerSpec

\* The device PCAP is the exact run of the certified device's records and the
\* derivatives follow it (ProductsFollowStream), for every stream and every size.
THEOREM ProductsAlwaysFollowStream == WorkerSpec => []ProductsFollowStream
BY WorkerInvariant, InvariantProducts, PTL

\* Run calls a capture completed exactly when it published it, after a clean stop
\* (CompletedMeansPublished).
THEOREM CompletedAlwaysMeansPublished == WorkerSpec => []CompletedMeansPublished
BY WorkerInvariant, InvariantVerdict, PTL

\* What is published holds everything that was read, which is everything there was unless
\* the quiet edge was stale, and Run's verdict says so (CompleteIsWhatIsPublished).
THEOREM CompleteIsAlwaysWhatIsPublished == WorkerSpec => []CompleteIsWhatIsPublished
<1>1. WorkerInit => WorkerInv /\ DrainInv
  BY WorkerInitInv
<1>2. WorkerInv /\ DrainInv /\ [WorkerNext]_captureVars => WorkerInv' /\ DrainInv'
  <2> SUFFICES ASSUME WorkerInv, DrainInv, [WorkerNext]_captureVars
               PROVE  WorkerInv' /\ DrainInv'
    OBVIOUS
  <2>1. [NativeNext]_nativeVars
    BY WorkerIsClient DEF WorkerInv
  <2> QED
    BY <2>1, WorkerInvStep, DrainInvStep
<1>3. WorkerInv /\ DrainInv => CompleteIsWhatIsPublished
  BY InvariantComplete, InvariantVerdict DEF CompleteIsWhatIsPublished
<1> QED
  BY <1>1, <1>2, <1>3, PTL DEF WorkerSpec
=============================================================================
