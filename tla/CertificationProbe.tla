-------------------------- MODULE CertificationProbe --------------------------
(***************************************************************************)
(* The bounded probe of a certification (acquisition/CertificationProbe):  *)
(* a reader that captures a whole USBPcap root into a queue, and a worker  *)
(* that parses what it takes from the queue, counts the activity of each   *)
(* stream, and at the end tells which stream is the mouse. The reader is   *)
(* the contract of the native capture object, which has a module of its    *)
(* own. Of a chunk's records only successful completions that are not      *)
(* empty are counted here.                                                 *)
(***************************************************************************)
EXTENDS Naturals, Sequences, FiniteSetsExt

CONSTANTS
  Streams,   \* the packet identities <<bus, device>> on the root
  Endpoints, \* the interrupt-IN endpoints on which a device may report
  Hint,      \* selected_device: the address the topology reports
  Routes,    \* the endpoint of each probe route, 0 for any
  Chunks,    \* what the reader may deliver,
  Seen,      \* the activity in each chunk,
  End,       \* and how it ends: at a record boundary, within a record, or no PCAP at all
  MaxChunks, \* bound: chunks of one probe
  SourceMax  \* maximum_source_bytes, in chunks

ASSUME ProbeAssumption ==
  /\ Seen \in [Chunks -> [Streams \X Endpoints -> [completions : Nat, changes : Nat]]]
  /\ End \in [Chunks -> {"whole", "cut", "bad"}]
  /\ Hint \in Nat \ {0} /\ MaxChunks \in Nat /\ SourceMax \in Nat
  /\ Streams \subseteq Nat \X Nat /\ IsFiniteSet(Streams)
  /\ Endpoints \subseteq Nat /\ IsFiniteSet(Endpoints)
  /\ Routes \in Seq(Endpoints \cup {0}) /\ Routes # <<>>

VARIABLES
  source, \* the native capture and its queue
  work    \* CertificationProbeWorker: the chunks it took, from which its counts follow,
          \* and the reason for which its result is not clean

probeVars == <<source, work>>

NoSource == [state |-> "idle", queue |-> <<>>, sent |-> 0, stop |-> FALSE]
NoWork   == [at |-> "idle", got |-> FALSE, stop |-> FALSE, pending |-> "none",
             taken |-> <<>>, reason |-> "none"]

ReaderFinished == source.state \in {"stopped", "lost", "overflow"}

(***************************************************************************)
(* Which stream is the mouse.                                              *)
(***************************************************************************)
\* ProcessChunk adds what it parses to the counts.
ActivityOf(taken) ==
  [k \in Streams \X Endpoints |->
     [field \in {"completions", "changes"} |->
        SumFunction([i \in DOMAIN taken |-> Seen[taken[i]][k][field]])]]

\* What a stream did on some of its endpoints.
Counts(activity, s, endpoints) ==
  [field \in {"completions", "changes"} |->
     SumFunction([e \in endpoints |-> activity[<<s, e>>][field]])]

Completions(activity, s) == Counts(activity, s, Endpoints).completions
Changes(activity, s)     == Counts(activity, s, Endpoints).changes

Observed(activity) == {s \in Streams : Completions(activity, s) > 0}

\* The order of the map the streams are kept in.
Before(a, b) == a[1] < b[1] \/ (a[1] = b[1] /\ a[2] < b[2])

\* Payload changes count first, then completions; the hint only breaks a tie.
Outscores(activity, a, b) ==
  \/ Changes(activity, a) > Changes(activity, b)
  \/ /\ Changes(activity, a) = Changes(activity, b)
     /\ \/ Completions(activity, a) > Completions(activity, b)
        \/ /\ Completions(activity, a) = Completions(activity, b)
           /\ a[2] = Hint /\ b[2] # Hint

TopOf(activity, streams) ==
  CHOOSE s \in streams :
    \A t \in streams \ {s} :
      Outscores(activity, s, t) \/ (~Outscores(activity, t, s) /\ Before(s, t))

\* Sixteen changes, and more than eight times as many as the other one.
Dominates(changes, other) == changes >= 16 /\ (other = 0 \/ changes \div 8 > other)

\* BestWholeRootStream, of streams of which some were observed.
BestWholeRootStream(activity) ==
  LET best   == TopOf(activity, Observed(activity))
      hinted == {s \in Observed(activity) : s[2] = Hint}
  IN IF hinted # {} /\ best[2] # Hint
          /\ ~Dominates(Changes(activity, best), Changes(activity, TopOf(activity, hinted)))
       THEN TopOf(activity, hinted) ELSE best

OnRoute(i) == IF Routes[i] = 0 THEN Endpoints ELSE {Routes[i]}

\* The evidence of the routes on the chosen stream, before any is promoted.
Plain(activity, s) ==
  [i \in DOMAIN Routes |->
     [route |-> i, inWindow |-> TRUE, intact |-> TRUE, identity |-> s, fromRoot |-> TRUE,
      wide |-> FALSE,
      completions |-> Counts(activity, s, OnRoute(i)).completions,
      changes     |-> Counts(activity, s, OnRoute(i)).changes]]

\* The enumerated routes missed what the device did.
Missed(activity, s, items) ==
  \/ \A i \in DOMAIN items : items[i].completions = 0
  \/ Dominates(Changes(activity, s), Max({items[i].changes : i \in DOMAIN items}))

\* FillWholeRootResult: then the first route stands for the whole device.
EvidenceOf(activity, s) ==
  LET items == Plain(activity, s)
  IN IF ~Missed(activity, s, items) THEN items
     ELSE [items EXCEPT ![1] = [@ EXCEPT !.wide = TRUE,
                                         !.completions = Completions(activity, s),
                                         !.changes = Changes(activity, s)]]

Silent(intact) ==
  [i \in DOMAIN Routes |->
     [route |-> i, inWindow |-> TRUE, intact |-> intact, identity |-> <<0, 0>>,
      fromRoot |-> FALSE, wide |-> FALSE, completions |-> 0, changes |-> 0]]

\* A result that is written says whether the probe was cancelled.
NoResult == [told |-> "none", reason |-> "none", identity |-> <<0, 0>>, evidence |-> <<>>]

\* FillResult, of the chunks that were taken. What a result that is not clean says of
\* the routes is not looked at.
ResultOf(taken, reason) ==
  LET activity == ActivityOf(taken)
      best     == BestWholeRootStream(activity)
  IN IF reason # "none" THEN [NoResult EXCEPT !.reason = reason]
     ELSE IF Observed(activity) = {} THEN [NoResult EXCEPT !.evidence = Silent(TRUE)]
     ELSE [NoResult EXCEPT !.identity = best, !.evidence = EvidenceOf(activity, best)]

(***************************************************************************)
(* The reader.                                                             *)
(***************************************************************************)
Capturing == source.state = "capturing"

ReaderDelivers ==
  /\ Capturing /\ source.sent < MaxChunks
  /\ \E c \in Chunks :
       source' = [source EXCEPT !.queue = Append(@, c), !.sent = @ + 1]
  /\ UNCHANGED work

ReaderEnds ==
  /\ Capturing
  /\ \/ source.stop /\ source' = [source EXCEPT !.state = "stopped"]
     \/ source' = [source EXCEPT !.state = "lost"]
     \/ source' = [source EXCEPT !.state = "overflow"]
  /\ UNCHANGED work

(***************************************************************************)
(* The worker: CertificationProbeWorker::Run.                              *)
(***************************************************************************)
Ended(w, reason) == [w EXCEPT !.at = "done", !.reason = reason]

\* Abort discards what is queued and closes the capture.
Aborted == IF Capturing THEN [source EXCEPT !.state = "lost"] ELSE source

WorkerStarts ==
  /\ work.at = "start"
  /\ \/ source' = [source EXCEPT !.state = "capturing"] /\ work' = [work EXCEPT !.at = "take"]
     \/ source' = [source EXCEPT !.state = "lost"] /\ work' = Ended(work, "source_start_failed")

\* WaitTakeChunk, which may time out, and ProcessChunk.
WorkerTakes ==
  /\ work.at = "take"
  /\ IF source.queue = <<>>
       THEN work' = [work EXCEPT !.at = "look", !.got = FALSE] /\ UNCHANGED source
       ELSE IF Len(work.taken) = SourceMax \/ End[Head(source.queue)] = "bad"
         THEN /\ source' = Aborted
              /\ work' = Ended(work, IF Len(work.taken) = SourceMax
                                       THEN "source_bound_exceeded" ELSE "pcap_framing")
         ELSE /\ source' = [source EXCEPT !.queue = Tail(@)]
              /\ work' = [work EXCEPT !.at = "look", !.got = TRUE,
                                      !.taken = Append(@, Head(source.queue))]

\* The clock and the status after a take, with the time that may be up.
Looked(w, late) ==
  CASE source.state = "overflow" ->
         [w EXCEPT !.stop = TRUE, !.pending = "queue_or_byte_loss"]
    [] source.state = "lost" ->
         [w EXCEPT !.stop = TRUE,
                   !.pending = IF @ = "none" THEN "native_capture_lost" ELSE @]
    [] OTHER -> [w EXCEPT !.stop = @ \/ late]

\* forward_stop, its effect on the reader.
Stopping(w) == [source EXCEPT !.stop = @ \/ w.stop]

WorkerLooks(late) ==
  LET w == Looked(work, late)
  IN /\ work.at = "look" /\ (late => ~work.stop) /\ source' = Stopping(w)
     /\ IF ~work.got /\ ReaderFinished
          THEN work' = [w EXCEPT !.at = "finish",
                          !.pending = IF ~w.stop /\ @ = "none" THEN "native_capture_lost" ELSE @]
          ELSE work' = [w EXCEPT !.at = "take"]

\* The reader did not stop within the drain bound.
DrainTimesOut ==
  LET w == Looked(work, FALSE)
  IN /\ work.at = "look" /\ w.stop /\ ~(~work.got /\ ReaderFinished)
     /\ source' = Aborted /\ work' = Ended(w, "native_capture_lost")

\* The parser has its header, and no record is cut.
AtBoundary == work.taken # <<>> /\ End[work.taken[Len(work.taken)]] = "whole"

\* Finalize, StopAndDrain, and the verdict: every byte that was read was taken.
WorkerFinishes ==
  /\ work.at = "finish" /\ source' = Aborted
  /\ work' = Ended(work,
               IF ~AtBoundary THEN "pcap_framing"
               ELSE IF source.state = "overflow" \/ source.queue # <<>> THEN "queue_or_byte_loss"
               ELSE work.pending)

\* What happens once in a probe, when its time comes.
WorkerSteps == WorkerStarts \/ WorkerLooks(TRUE) \/ DrainTimesOut \/ WorkerFinishes

WorkerMoves == WorkerTakes \/ WorkerLooks(FALSE) \/ WorkerSteps
=============================================================================
