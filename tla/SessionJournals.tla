---------------------------- MODULE SessionJournals ----------------------------
(***************************************************************************)
(* The journals of a recording session: those of GameplayJournal and the   *)
(* clock journal, each an AppendOnlyJsonl file that is written under a     *)
(* .partial name, made durable by checkpoints and renamed at the end; how  *)
(* the session drains the trainer into them; and what the recovery of an   *)
(* abandoned session reads of them. Every write, flush and rename may fail *)
(* and the process may die between any two steps.                          *)
(*                                                                         *)
(* Lifecycle stands for the journals of annotations, which are written     *)
(* alike: lifecycle, pauses, focus and presentation.                       *)
(***************************************************************************)
EXTENDS Integers, Sequences, SequencesExt

CONSTANTS
  TrainerEvents,  \* records of finalized events the trainer hands over
  BlockResults,   \* records of completed blocks it hands over
  MaxEvents,      \* bound: finalized events
  MaxLines        \* bound: annotations, witness packets and clock anchors

VARIABLES
  session,  \* what the recording session is doing
  todo,     \* the file operations its current call still has to do
  trainer,  \* the finalized events and blocks of the trainer
  next,     \* next_event_to_journal_ and next_block_to_journal_
  counted,  \* journaled_event_count_ and journaled_block_count_
  writer,   \* per journal: "none", "open", or "bad" once its stream failed
  file,     \* per journal: its file
  written,  \* per journal: the lines its writer has accepted
  storageFailed,  \* storage_failed_
  faulted   \* history: the journals of which an operation failed

journalVars == <<session, todo, trainer, next, counted, writer, file, written,
                 storageFailed, faulted>>

Drained  == <<"events", "blocks">>
Required == Drained \o <<"lifecycle">>
Gameplay == Required \o <<"witness">>
Journals == ToSet(Gameplay) \cup {"anchors"}

\* A line holds its sequence number and its record: the number of a drained
\* record, the record an annotation excludes, or nothing that matters here.
Garbage == [seq |-> -1, of |-> <<>>]   \* a line on the rest of a torn one
Line(j, of) == [seq |-> Len(written[j]), of |-> of]

NoFile  == [place |-> "none", lines |-> <<>>, torn |-> FALSE, safe |-> 0]
NewFile == [NoFile EXCEPT !.place = "partial"]

(***************************************************************************)
(* The validation of the trainer's records, by the writer and the reader.  *)
(***************************************************************************)
Absent == -1   \* an optional moment that is not there

InOrder(first, second) == first = Absent \/ second = Absent \/ first <= second

\* `sound': bounds, geometry, and a target that the protocol itself accepts.
ValidateEvent(e) ==
  /\ e.generated >= 0
  /\ InOrder(e.generated, e.presented) /\ InOrder(e.presented, e.start)
  /\ InOrder(e.start, e.resolved) /\ InOrder(e.generated, e.interrupted)
  /\ InOrder(e.resolved, e.tailEnd)
  /\ e.natural # "none" => e.resolved # Absent
  /\ e.technical # "none" => e.interrupted # Absent
  /\ e.sound

ValidateBlock(b) ==
  /\ b.countdown >= 0
  /\ InOrder(b.countdown, b.started) /\ InOrder(b.started, b.completed)
  /\ b.consumed \in 0..b.configured /\ b.technical <= b.events

Validates(j, n) ==
  IF j = "events" THEN ValidateEvent(trainer.events[n]) ELSE ValidateBlock(trainer.blocks[n])

(***************************************************************************)
(* AppendOnlyJsonlWriter. A stream that failed once never writes again; of *)
(* what was not flushed before, any part may be in the file.               *)
(***************************************************************************)
Succeeds(j, of) ==
  /\ writer[j] = "open"
  /\ written' = [written EXCEPT ![j] = Append(@, Line(j, of))]
  /\ file' = [file EXCEPT
                ![j].lines = Append(@, IF file[j].torn THEN Garbage ELSE Line(j, of)),
                ![j].torn = FALSE]
  /\ UNCHANGED <<writer, faulted>>

\* What a write that failed, or a crash, leaves of an unfinished file.
Remains(f) ==
  UNION {{[f EXCEPT !.lines = SubSeq(@, 1, kept), !.torn = torn] : torn \in BOOLEAN} :
            kept \in f.safe..Len(f.lines)}

\* Mutant: the error of the stream is cleared after a failed write.
FailsOnce(j) ==
  /\ writer[j] # "none" /\ faulted' = faulted \cup {j}
  /\ \E f \in Remains(file[j]) : file' = [file EXCEPT ![j] = f]
  /\ UNCHANGED <<written, writer>>

Fails(j) ==
  /\ writer[j] # "none" /\ faulted' = faulted \cup {j}
  /\ IF writer[j] = "bad" THEN UNCHANGED file
     ELSE \E f \in Remains(file[j]) : file' = [file EXCEPT ![j] = f]
  /\ writer' = [writer EXCEPT ![j] = "bad"] /\ UNCHANGED written

Flushed(f) == [f EXCEPT !.safe = Len(f.lines)]

Checkpoints(j) ==
  /\ writer[j] = "open" /\ file' = [file EXCEPT ![j] = Flushed(@)]
  /\ UNCHANGED <<writer, written, faulted>>

Publishes(j) ==
  /\ writer[j] = "open"
  /\ file' = [file EXCEPT ![j] = [Flushed(@) EXCEPT !.place = "final"]]
  /\ writer' = [writer EXCEPT ![j] = "none"] /\ UNCHANGED <<written, faulted>>

\* The flush to the disk, or the rename after the flush, fails: the stream is as it was.
StaysUnfinished(j) ==
  /\ writer[j] = "open" /\ faulted' = faulted \cup {j}
  /\ UNCHANGED <<writer, file, written>>

\* DisableRawInputWitness. The removal of the file may fail, unnoticed.
DisableRawInputWitness ==
  /\ writer' = [writer EXCEPT !["witness"] = "none"]
  /\ \E f \in {NoFile, file["witness"]} : file' = [file EXCEPT !["witness"] = f]
  /\ faulted' = faulted \cup {"witness"} /\ UNCHANGED written
------------------------------------------------------------------------------
(***************************************************************************)
(* The session.                                                            *)
(***************************************************************************)
Flush(js)   == [i \in DOMAIN js |-> <<"flush", js[i]>>]
Publish(js) == [i \in DOMAIN js |-> <<"publish", js[i]>>]
Drain       == <<"drain", "events">>

JournalInit ==
  /\ session = "creating" /\ todo = <<>> /\ storageFailed = FALSE /\ faulted = {}
  /\ trainer = [events |-> <<>>, blocks |-> <<>>]
  /\ next = [events |-> 1, blocks |-> 1] /\ counted = [events |-> 0, blocks |-> 0]
  /\ writer = [j \in Journals |-> "none"] /\ file = [j \in Journals |-> NoFile]
  /\ written = [j \in Journals |-> <<>>]

drainVars == <<trainer, next, counted>>

\* The constructors: without the witness the session goes on, without any other
\* journal there is none.
OpenJournals ==
  /\ session = "creating" /\ session' = "awaiting_capture_ready"
  /\ \E opened \in {Journals, Journals \ {"witness"}} :
       /\ writer' = [j \in Journals |-> IF j \in opened THEN "open" ELSE "none"]
       /\ file' = [j \in Journals |-> IF j \in opened THEN NewFile ELSE NoFile]
  /\ UNCHANGED <<todo, drainVars, written, storageFailed, faulted>>

\* The trainer is paused: its current event may be finalized by that.
Paused(t) ==
  {t} \cup {[t EXCEPT !.events = Append(@, e)] :
             e \in IF session = "recording" /\ Len(t.events) < MaxEvents
                     THEN TrainerEvents ELSE {}}

\* HandleStorageFailure during a call, or the end of TryFinalize: what the call had
\* still to do is not done.
StorageFails ==
  /\ todo' = <<>> /\ UNCHANGED <<next, counted>>
  /\ IF session = "finalizing"
       THEN session' = "failed" /\ UNCHANGED <<storageFailed, trainer>>
       ELSE session' = "stopping" /\ storageFailed' = TRUE /\ trainer' \in Paused(trainer)

Continues == UNCHANGED <<session, drainVars, storageFailed>>

Idle == session \in {"awaiting_capture_ready", "recording", "stopping"} /\ todo = <<>>
Records == session = "recording" /\ todo = <<>>

Note == <<"annotate", "lifecycle">>
CheckpointAll == Flush(Gameplay) \o Flush(<<"anchors">>)

\* The first annotation and checkpoint.
TryStart ==
  /\ session = "awaiting_capture_ready" /\ todo = <<>> /\ session' = "recording"
  /\ todo' = <<Note>> \o CheckpointAll
  /\ UNCHANGED <<drainVars, writer, file, written, storageFailed, faulted>>

\* The trainer finalizes an event or completes a block, and is drained.
FinalizeEvent(e) ==
  /\ Records /\ Len(trainer.events) < MaxEvents
  /\ trainer' = [trainer EXCEPT !.events = Append(@, e)] /\ todo' = <<Drain>>
  /\ UNCHANGED <<session, next, counted, writer, file, written, storageFailed, faulted>>

CompleteBlock(b) ==
  /\ Records /\ Len(trainer.blocks) < 1
  /\ trainer' = [trainer EXCEPT !.blocks = Append(@, b)] /\ todo' = <<Drain>>
  /\ UNCHANGED <<session, next, counted, writer, file, written, storageFailed, faulted>>

\* The journal of the next record to drain: first the events, then the blocks.
ToDrain == IF next.events <= Len(trainer.events) THEN "events" ELSE "blocks"
AllDrained == ToDrain = "blocks" /\ next.blocks > Len(trainer.blocks)

\* Mutant: the record is left out and nothing says so.
ExcludesSilently(j) == UNCHANGED <<writer, file, written, faulted, counted>>

Excludes(j) == Succeeds("lifecycle", <<j, next[j]>>) /\ UNCHANGED counted

\* DrainFinalizedTrainerRecords: a record that does not validate is left out, with an
\* annotation that says so.
DrainRecords ==
  LET j == ToDrain
      target == IF Validates(j, next[j]) THEN j ELSE "lifecycle"
  IN \/ AllDrained /\ todo' = Tail(todo) /\ Continues
        /\ UNCHANGED <<writer, file, written, faulted>>
     \/ /\ ~AllDrained
        /\ IF target = j
             THEN Succeeds(j, <<next[j]>>) /\ counted' = [counted EXCEPT ![j] = @ + 1]
             ELSE Excludes(j)
        /\ next' = [next EXCEPT ![j] = @ + 1]
        /\ UNCHANGED <<session, todo, trainer, storageFailed>>
     \/ ~AllDrained /\ Fails(target) /\ StorageFails

\* Any annotation the session makes.
Annotate ==
  /\ Idle /\ Len(written["lifecycle"]) <= MaxLines
  /\ \/ Succeeds("lifecycle", <<>>) /\ Continues /\ UNCHANGED todo
     \/ Fails("lifecycle") /\ StorageFails

\* TryAppendRawInputWitness. A packet that is not retained, because it is malformed,
\* because there is no witness, or because there is none any more, is annotated.
RawInputWitness ==
  /\ Records /\ Len(written["witness"]) < MaxLines /\ Len(written["lifecycle"]) <= MaxLines
  /\ \/ Succeeds("witness", <<>>) /\ UNCHANGED todo
     \/ /\ \/ UNCHANGED <<writer, file, written, faulted>>
           \/ writer["witness"] # "none" /\ DisableRawInputWitness
        /\ todo' = <<Note>>
  /\ Continues

AddClockAnchor ==
  /\ Idle /\ Len(written["anchors"]) < MaxLines
  /\ \/ Succeeds("anchors", <<>>) /\ Continues /\ UNCHANGED todo
     \/ Fails("anchors") /\ StorageFails

Checkpoint ==
  /\ Records /\ todo' = CheckpointAll
  /\ Continues /\ UNCHANGED <<writer, file, written, faulted>>

\* BeginStop: the trainer is paused and drained.
BeginStop ==
  /\ Idle /\ session # "stopping" /\ session' = "stopping"
  /\ trainer' \in Paused(trainer) /\ todo' = <<Drain, Note>>
  /\ UNCHANGED <<next, counted, writer, file, written, storageFailed, faulted>>

\* The journals of TryFinalize: GameplayJournal::Finalize, then ClockJournal's.
TryFinalize ==
  /\ session = "stopping" /\ todo = <<>> /\ session' = "finalizing"
  /\ todo' = <<Drain>> \o Flush(Gameplay) \o Publish(Gameplay) \o Publish(<<"anchors">>)
  /\ UNCHANGED <<drainVars, writer, file, written, storageFailed, faulted>>

\* Mutant: a witness that fails is a storage failure like any other.
WitnessStepFails(j) == (Fails(j) \/ StaysUnfinished(j)) /\ StorageFails

StepFails(j) ==
  IF j = "witness"
    THEN writer[j] # "none" /\ DisableRawInputWitness /\ todo' = Tail(todo) /\ Continues
    ELSE (Fails(j) \/ StaysUnfinished(j)) /\ StorageFails

\* The next file operation of the current call.
FileStep ==
  /\ todo # <<>>
  /\ LET op == Head(todo)[1]
         j  == Head(todo)[2]
     IN CASE op = "drain" -> DrainRecords
          [] op = "annotate" ->
               \/ Succeeds(j, <<>>) /\ todo' = Tail(todo) /\ Continues
               \/ Fails(j) /\ StorageFails
          [] OTHER ->
               \/ /\ IF writer[j] = "none" THEN UNCHANGED <<writer, file, written, faulted>>
                     ELSE IF op = "flush" THEN Checkpoints(j) ELSE Publishes(j)
                  /\ todo' = Tail(todo) /\ Continues
               \/ StepFails(j)

Finalized ==
  /\ session = "finalizing" /\ todo = <<>> /\ session' = "finalized"
  /\ UNCHANGED <<todo, drainVars, writer, file, written, storageFailed, faulted>>

\* The session is over; a crash is in Survivors.
Over == session \in {"finalized", "failed"} /\ UNCHANGED journalVars

JournalNext ==
  \/ OpenJournals \/ TryStart \/ (\E e \in TrainerEvents : FinalizeEvent(e))
  \/ (\E b \in BlockResults : CompleteBlock(b))
  \/ Annotate \/ RawInputWitness \/ AddClockAnchor \/ Checkpoint \/ BeginStop
  \/ TryFinalize \/ FileStep \/ Finalized \/ Over

JournalSpec == JournalInit /\ [][JournalNext]_journalVars
------------------------------------------------------------------------------
(***************************************************************************)
(* The recovery of an abandoned session.                                   *)
(***************************************************************************)
\* AppendOnlyJsonlReader: whole lines, numbered from zero.
FramesRead(f) == ~f.torn /\ \A i \in DOMAIN f.lines : f.lines[i].seq = i - 1

\* The records of the trainer are decoded and validated again.
RecordsRead(j, f) ==
  j \in ToSet(Drained) => \A i \in DOMAIN f.lines : Validates(j, f.lines[i].of[1])

\* RecoverJsonlPartial, before an unfinished journal is renamed.
Trimmed(f) == IF f.place = "partial" THEN [f EXCEPT !.torn = FALSE] ELSE f

\* RecoverJournal: what does not read is set aside.
Recovered(j, f) ==
  IF FramesRead(Trimmed(f)) /\ RecordsRead(j, Trimmed(f)) THEN f.lines ELSE <<>>

\* What a crash at this moment may leave of a journal's file.
Survivors(j) == IF file[j].place = "partial" THEN Remains(file[j]) ELSE {file[j]}
------------------------------------------------------------------------------
(***************************************************************************)
(* Properties.                                                             *)
(***************************************************************************)
\* "Complete framed records are retained, only torn tails are trimmed": whenever the
\* process dies and whatever failed before, the recovery reads of each journal a
\* prefix of what was written that holds all that was checkpointed.
RecoveryKeepsCheckpoints ==
  \A j \in Journals : \A f \in Survivors(j) :
    LET lines == Recovered(j, f)
    IN IsPrefix(lines, written[j]) /\ Len(lines) >= file[j].safe

\* Finished journals account for every event and block of the trainer exactly once
\* and in order, as a record or as an annotated exclusion, and for nothing else; and the
\* manifest's counts are those of the files.
RecordsAreAccountedFor ==
  session = "finalized" =>
    \A k \in ToSet(Drained) :
      LET kept  == file[k].lines
          notes == file["lifecycle"].lines
          out   == {i \in DOMAIN notes : notes[i].of # <<>> /\ notes[i].of[1] = k}
      IN /\ counted[k] = Len(kept)
         /\ \A i \in DOMAIN kept : kept[i].of[1] \in DOMAIN trainer[k]
         /\ \A i \in out : notes[i].of[2] \in DOMAIN trainer[k]
         /\ \A n \in DOMAIN trainer[k] :
              (\E i \in DOMAIN kept : kept[i].of[1] = n) <=> ~\E i \in out : notes[i].of[2] = n
         /\ \A i, l \in DOMAIN kept : i < l => kept[i].of[1] < kept[l].of[1]
         /\ \A i, l \in out : i < l => notes[i].of[2] < notes[l].of[2]

\* "A missing optional witness" does not end a healthy capture: a session stops, or
\* fails to finish its journals, only when one of the others has failed; and finished
\* journals leave nothing unfinished but, at most, a witness that was given up.
WitnessNeverGates ==
  /\ storageFailed \/ session = "failed" => faulted \ {"witness"} # {}
  /\ session = "finalized" =>
       \A j \in Journals : file[j].place = "final" \/ (j = "witness" /\ writer[j] = "none")
=============================================================================
