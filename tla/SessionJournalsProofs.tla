------------------------- MODULE SessionJournalsProofs -------------------------
(***************************************************************************)
(* Proofs about the journals of a session, for all records of the trainer  *)
(* and any number of lines.                                                *)
(***************************************************************************)
EXTENDS SessionJournals, SequenceTheorems, TLAPS

(***************************************************************************)
(* The invariant.                                                          *)
(***************************************************************************)
DrainedNames == {"events", "blocks"}

\* What a line may hold.
Holds == {<<>>} \cup {<<n>> : n \in Nat} \cup (DrainedNames \X Nat)
Lines == [seq : Int, of : Holds]
Files == [place : {"none", "partial", "final"}, lines : Seq(Lines), torn : BOOLEAN, safe : Nat]
Calls == ({"flush", "publish"} \X Journals) \cup {<<"drain", "events">>, <<"annotate", "lifecycle">>}

Trainers == [events : Seq(TrainerEvents), blocks : Seq(BlockResults)]

ControlTypes ==
  /\ trainer \in Trainers
  /\ next \in [events : Nat \ {0}, blocks : Nat \ {0}]
  /\ todo \in Seq(Calls)

\* Record n of a drained journal is one the trainer handed over and the journal took.
Taken(t, j, n) ==
  IF j = "events" THEN n \in DOMAIN t.events /\ ValidateEvent(t.events[n])
                  ELSE n \in DOMAIN t.blocks /\ ValidateBlock(t.blocks[n])

\* A journal with its file f, the lines w its writer accepted and the writer's state o:
\* the file has a prefix of the lines, whole as long as no operation failed.
Sound(t, j, f, w, o) ==
  /\ Len(f.lines) <= Len(w) /\ \A i \in 1..Len(f.lines) : f.lines[i] = w[i]
  /\ f.safe <= Len(f.lines)
  /\ \A i \in 1..Len(w) : w[i].seq = i - 1
  /\ j \in DrainedNames => \A i \in 1..Len(w) : Taken(t, j, w[i].of[1])
  /\ o # "none" => f.place = "partial"
  /\ o = "open" => ~f.torn /\ Len(f.lines) = Len(w)
  /\ f.place # "partial" => ~f.torn

\* The journals of a trainer t.
JournalsSound(t, states, files, lines) ==
  /\ states \in [Journals -> {"none", "open", "bad"}]
  /\ files \in [Journals -> Files] /\ lines \in [Journals -> Seq(Lines)]
  /\ \A j \in Journals : Sound(t, j, files[j], lines[j], states[j])

\* A journal is given up or renamed, and before the end only by what is still to do.
Has(s, x)  == \E i \in 1..Len(s) : s[i] = x
Pending(j) == Has(todo, <<"publish", j>>)

GateInv ==
  /\ storageFailed \/ session = "failed" => faulted \ {"witness"} # {}
  /\ session = "creating" => todo = <<>> /\ \A j \in Journals : written[j] = <<>>
  /\ session # "creating" =>
       \A j \in Journals : writer[j] = "none" => file[j].place = "final" \/ j = "witness"
  /\ session = "finalizing" => \A j \in Journals : writer[j] # "none" => Pending(j)
  /\ session = "finalized" => \A j \in Journals : writer[j] = "none"

JournalInv == ControlTypes /\ JournalsSound(trainer, writer, file, written) /\ GateInv

LEMMA OneMore ==
  ASSUME NEW S, NEW s \in Seq(S), NEW x \in S
  PROVE  /\ s \o <<x>> \in Seq(S) /\ Len(s \o <<x>>) = Len(s) + 1
         /\ \A i \in 1..Len(s) : (s \o <<x>>)[i] = s[i]
         /\ (s \o <<x>>)[Len(s) + 1] = x
<1>1. <<x>> \in Seq(S) /\ Len(<<x>>) = 1 /\ <<x>>[1] = x
  OBVIOUS
<1>2. Len(s) \in Nat
  OBVIOUS
<1> QED
  BY <1>1, <1>2, ConcatProperties

LEMMA JournalNames ==
  /\ Journals = {"events", "blocks", "lifecycle", "witness", "anchors"}
  /\ Gameplay \in Seq(Journals) /\ Len(Gameplay) = 4 /\ Gameplay[1] = "events"
  /\ Gameplay[2] = "blocks" /\ Gameplay[3] = "lifecycle" /\ Gameplay[4] = "witness"
<1> DEFINE Names == {"events", "blocks", "lifecycle", "witness"}
<1>1. Drained \in Seq(Names) /\ Len(Drained) = 2 /\ Drained[1] = "events" /\ Drained[2] = "blocks"
  BY DEF Drained
<1>2. "lifecycle" \in Names /\ "witness" \in Names
  OBVIOUS
<1> HIDE DEF Names
<1>4. /\ Required \in Seq(Names) /\ Len(Required) = 3
      /\ Required[1] = "events" /\ Required[2] = "blocks" /\ Required[3] = "lifecycle"
  <2> DEFINE r == Drained \o <<"lifecycle">>
  <2>1. /\ r \in Seq(Names) /\ Len(r) = Len(Drained) + 1
        /\ \A i \in 1..Len(Drained) : r[i] = Drained[i]
        /\ r[Len(Drained) + 1] = "lifecycle"
    BY ONLY <1>1, <1>2, OneMore
  <2> HIDE DEF r
  <2>2. r \in Seq(Names) /\ Len(r) = 3 /\ r[1] = "events" /\ r[2] = "blocks" /\ r[3] = "lifecycle"
    BY <1>1, <2>1
  <2> QED
    BY <2>2 DEF r, Required
<1>5. /\ Gameplay \in Seq(Names) /\ Len(Gameplay) = 4 /\ Gameplay[1] = "events"
      /\ Gameplay[2] = "blocks" /\ Gameplay[3] = "lifecycle" /\ Gameplay[4] = "witness"
  <2> DEFINE r == Required \o <<"witness">>
  <2>1. /\ r \in Seq(Names) /\ Len(r) = Len(Required) + 1
        /\ \A i \in 1..Len(Required) : r[i] = Required[i]
        /\ r[Len(Required) + 1] = "witness"
    <3>1. Required \in Seq(Names) /\ "witness" \in Names
      BY <1>2, <1>4
    <3> QED
      BY ONLY <3>1, OneMore
  <2> HIDE DEF r
  <2>2. /\ r \in Seq(Names) /\ Len(r) = 4
        /\ r[1] = "events" /\ r[2] = "blocks" /\ r[3] = "lifecycle" /\ r[4] = "witness"
    BY <1>4, <2>1
  <2> QED
    BY <2>2 DEF r, Gameplay
<1>6. DOMAIN Gameplay = 1..4
  BY <1>5
<1> QED
  BY <1>5, <1>6 DEF Journals, ToSet, Names

(***************************************************************************)
(* What an operation makes of one journal.                                 *)
(***************************************************************************)
LEMMA AppendSound ==
  ASSUME NEW t, NEW j, NEW f \in Files, NEW w \in Seq(Lines), NEW of \in Holds,
         Sound(t, j, f, w, "open"), j \in DrainedNames => Taken(t, j, of[1])
  PROVE  LET l == [seq |-> Len(w), of |-> of]
             g == [f EXCEPT !.lines = Append(@, l), !.torn = FALSE]
         IN g \in Files /\ Append(w, l) \in Seq(Lines) /\ Sound(t, j, g, Append(w, l), "open")
<1> DEFINE l == [seq |-> Len(w), of |-> of]
           g == [f EXCEPT !.lines = Append(@, l), !.torn = FALSE]
<1>1. l \in Lines /\ Append(w, l) \in Seq(Lines) /\ Append(f.lines, l) \in Seq(Lines)
  BY DEF Lines, Files
<1>2. /\ g \in Files /\ g.lines = Append(f.lines, l) /\ g.torn = FALSE
      /\ g.place = f.place /\ g.safe = f.safe
  BY <1>1 DEF Files
<1>3. /\ f.lines \in Seq(Lines) /\ Len(f.lines) = Len(w) /\ f.safe <= Len(f.lines)
      /\ f.safe \in Nat /\ f.place = "partial"
  BY DEF Sound, Files
<1>4. Len(Append(w, l)) = Len(w) + 1 /\ Len(g.lines) = Len(w) + 1
  BY <1>1, <1>2, <1>3
<1>5. \A i \in 1..(Len(w) + 1) : Append(w, l)[i] = IF i = Len(w) + 1 THEN l ELSE w[i]
  BY <1>1
<1>6. \A i \in 1..(Len(w) + 1) : g.lines[i] = Append(w, l)[i]
  BY <1>1, <1>2, <1>3, <1>5 DEF Sound
<1>7. \A i \in 1..(Len(w) + 1) : Append(w, l)[i].seq = i - 1
  BY <1>5 DEF Sound
<1>8. j \in DrainedNames => \A i \in 1..(Len(w) + 1) : Taken(t, j, Append(w, l)[i].of[1])
  <2> SUFFICES ASSUME j \in DrainedNames, NEW i \in 1..(Len(w) + 1)
               PROVE  Taken(t, j, Append(w, l)[i].of[1])
    OBVIOUS
  <2>1. CASE i = Len(w) + 1
    <3>1. Append(w, l)[i] = l
      BY <2>1, <1>5
    <3> QED
      BY <3>1
  <2>2. CASE i \in 1..Len(w)
    <3>1. Append(w, l)[i] = w[i]
      BY <2>2, <1>5
    <3> QED
      BY <2>2, <3>1 DEF Sound
  <2> QED
    BY <2>1, <2>2
<1> HIDE DEF g, l
<1>9. Sound(t, j, g, Append(w, l), "open")
  BY <1>2, <1>3, <1>4, <1>6, <1>7, <1>8 DEF Sound
<1> QED
  BY <1>1, <1>2, <1>9 DEF g, l

\* A stream that fails leaves a prefix of the file that holds what was flushed.
LEMMA RemainsSound ==
  ASSUME NEW t, NEW j, NEW f \in Files, NEW w \in Seq(Lines), NEW o, NEW g \in Remains(f),
         Sound(t, j, f, w, o), f.place = "partial"
  PROVE  /\ g \in Files /\ Sound(t, j, g, w, "bad") /\ g.place = "partial"
         /\ f.safe <= Len(g.lines)
<1>1. PICK kept \in f.safe..Len(f.lines), torn \in BOOLEAN :
        g = [f EXCEPT !.lines = SubSeq(@, 1, kept), !.torn = torn]
  BY DEF Remains
<1>2. f.lines \in Seq(Lines) /\ f.safe \in Nat /\ kept \in 0..Len(f.lines)
  BY <1>1 DEF Files
<1>3. /\ SubSeq(f.lines, 1, kept) \in Seq(Lines) /\ Len(SubSeq(f.lines, 1, kept)) = kept
      /\ \A i \in 1..kept : SubSeq(f.lines, 1, kept)[i] = f.lines[i]
  BY <1>2
<1>4. /\ g \in Files /\ g.lines = SubSeq(f.lines, 1, kept) /\ g.place = f.place
      /\ g.safe = f.safe
  BY <1>1, <1>3 DEF Files
<1>5. /\ Len(g.lines) <= Len(w) /\ g.safe <= Len(g.lines)
      /\ \A i \in 1..Len(g.lines) : g.lines[i] = w[i]
  BY <1>1, <1>2, <1>3, <1>4 DEF Sound
<1> QED
  BY <1>4, <1>5 DEF Sound

LEMMA FlushSound ==
  ASSUME NEW t, NEW j, NEW f \in Files, NEW w \in Seq(Lines), Sound(t, j, f, w, "open")
  PROVE  /\ Flushed(f) \in Files /\ Sound(t, j, Flushed(f), w, "open")
         /\ Flushed(f).place = f.place
         /\ [Flushed(f) EXCEPT !.place = "final"] \in Files
         /\ Sound(t, j, [Flushed(f) EXCEPT !.place = "final"], w, "none")
<1>1. f.lines \in Seq(Lines) /\ Len(f.lines) \in Nat
  BY DEF Files
<1>2. /\ Flushed(f) \in Files /\ Flushed(f).lines = f.lines /\ Flushed(f).torn = f.torn
      /\ Flushed(f).place = f.place /\ Flushed(f).safe = Len(f.lines)
  BY <1>1 DEF Flushed, Files
<1> DEFINE g == [Flushed(f) EXCEPT !.place = "final"]
<1>3. /\ g \in Files /\ g.lines = f.lines /\ g.torn = f.torn /\ g.place = "final"
      /\ g.safe = Len(f.lines)
  BY <1>2 DEF Files
<1> HIDE DEF g
<1>4. Sound(t, j, Flushed(f), w, "open")
  BY <1>1, <1>2 DEF Sound
<1>5. Sound(t, j, g, w, "none")
  BY <1>1, <1>3 DEF Sound
<1> QED
  BY <1>2, <1>3, <1>4, <1>5 DEF g

LEMMA NoFileSound ==
  ASSUME NEW t, NEW j, NEW w \in Seq(Lines), \A i \in 1..Len(w) : w[i].seq = i - 1,
         j \in DrainedNames => \A i \in 1..Len(w) : Taken(t, j, w[i].of[1])
  PROVE  NoFile \in Files /\ Sound(t, j, NoFile, w, "none")
<1>1. NoFile.lines = <<>> /\ Len(NoFile.lines) = 0 /\ NoFile.safe = 0 /\ ~NoFile.torn
        /\ NoFile.place = "none" /\ NoFile \in Files
  BY DEF NoFile, Files
<1> QED
  BY <1>1 DEF Sound

(***************************************************************************)
(* What an operation makes of the journals.                                *)
(***************************************************************************)
\* The trainer hands over more.
Grows(t, u) ==
  /\ \A n \in DOMAIN t.events : n \in DOMAIN u.events /\ u.events[n] = t.events[n]
  /\ \A n \in DOMAIN t.blocks : n \in DOMAIN u.blocks /\ u.blocks[n] = t.blocks[n]

LEMMA SoundGrows ==
  ASSUME NEW t, NEW u, Grows(t, u), NEW states, NEW files, NEW lines,
         JournalsSound(t, states, files, lines)
  PROVE  JournalsSound(u, states, files, lines)
<1> SUFFICES ASSUME NEW j \in Journals PROVE Sound(u, j, files[j], lines[j], states[j])
  BY DEF JournalsSound
<1>1. \A n : Taken(t, j, n) => Taken(u, j, n)
  BY DEF Taken, Grows
<1> QED
  BY <1>1 DEF JournalsSound, Sound

\* Writers only close, and only those close that finish, or the witness.
Advances ==
  \A k \in Journals :
    /\ writer'[k] # "none" => writer[k] # "none"
    /\ writer'[k] = "none" => \/ k = "witness" \/ file'[k].place = "final"
                              \/ writer[k] = "none" /\ file'[k].place = file[k].place

Kept == JournalsSound(trainer, writer', file', written') /\ Advances

LEMMA NothingWritten ==
  ASSUME JournalsSound(trainer, writer, file, written), UNCHANGED <<writer, file, written>>
  PROVE  Kept
BY DEF Kept, Advances

LEMMA ChangesOne ==
  ASSUME JournalsSound(trainer, writer, file, written),
         NEW j \in Journals, NEW f \in Files, NEW w \in Seq(Lines), NEW o \in {"none", "open", "bad"},
         Sound(trainer, j, f, w, o), file' = [file EXCEPT ![j] = f],
         written' = [written EXCEPT ![j] = w], writer' = [writer EXCEPT ![j] = o],
         o # "none" => writer[j] # "none", o = "none" => j = "witness" \/ f.place = "final"
  PROVE  Kept
<1>1. /\ file' \in [Journals -> Files] /\ written' \in [Journals -> Seq(Lines)]
      /\ writer' \in [Journals -> {"none", "open", "bad"}]
  BY DEF JournalsSound
<1>2. ASSUME NEW k \in Journals PROVE Sound(trainer, k, file'[k], written'[k], writer'[k])
  BY DEF JournalsSound
<1>3. Advances
  BY DEF JournalsSound, Advances
<1> QED
  BY <1>1, <1>2, <1>3 DEF Kept, JournalsSound

LEMMA SucceedsKeeps ==
  ASSUME JournalsSound(trainer, writer, file, written), NEW j \in Journals, NEW of \in Holds,
         j \in DrainedNames => Taken(trainer, j, of[1]), Succeeds(j, of)
  PROVE  Kept
<1> DEFINE l == [seq |-> Len(written[j]), of |-> of]
           g == [file[j] EXCEPT !.lines = Append(@, l), !.torn = FALSE]
<1>1. /\ file[j] \in Files /\ written[j] \in Seq(Lines) /\ writer[j] = "open"
      /\ Sound(trainer, j, file[j], written[j], "open")
  BY DEF JournalsSound, Succeeds
<1>2. ~file[j].torn
  BY <1>1 DEF Sound
<1>3. /\ g \in Files /\ Append(written[j], l) \in Seq(Lines)
      /\ Sound(trainer, j, g, Append(written[j], l), "open")
  BY <1>1, AppendSound
<1>4. written' = [written EXCEPT ![j] = Append(written[j], l)]
  BY DEF Succeeds, Line
<1>5. file' = [file EXCEPT ![j] = g]
  <2>1. file' = [file EXCEPT ![j].lines = Append(@, l), ![j].torn = FALSE]
    BY <1>2 DEF Succeeds, Line
  <2>2. file \in [Journals -> Files]
    BY DEF JournalsSound
  <2> QED
    BY <2>1, <2>2 DEF Files
<1>6. writer' = [writer EXCEPT ![j] = "open"]
  BY <1>1 DEF Succeeds, JournalsSound
<1> HIDE DEF g, l
<1> QED
  BY <1>1, <1>3, <1>4, <1>5, <1>6, ChangesOne

LEMMA FailsKeeps ==
  ASSUME JournalsSound(trainer, writer, file, written), NEW j \in Journals, Fails(j)
  PROVE  Kept
<1>1. /\ file[j] \in Files /\ written[j] \in Seq(Lines) /\ writer[j] \in {"open", "bad"}
      /\ Sound(trainer, j, file[j], written[j], writer[j]) /\ file[j].place = "partial"
  BY DEF JournalsSound, Fails, Sound
<1>2. written' = [written EXCEPT ![j] = written[j]] /\ writer' = [writer EXCEPT ![j] = "bad"]
  BY DEF Fails, JournalsSound
<1>3. CASE writer[j] = "bad"
  <2>1. file' = [file EXCEPT ![j] = file[j]]
    BY <1>3 DEF Fails, JournalsSound
  <2> QED
    BY <1>1, <1>2, <1>3, <2>1, ChangesOne
<1>4. CASE writer[j] = "open"
  <2>1. PICK g \in Remains(file[j]) : file' = [file EXCEPT ![j] = g]
    BY <1>4 DEF Fails
  <2>2. g \in Files /\ Sound(trainer, j, g, written[j], "bad")
    BY <1>1, RemainsSound
  <2> QED
    BY <1>1, <1>2, <1>4, <2>1, <2>2, ChangesOne
<1> QED
  BY <1>1, <1>3, <1>4

LEMMA CheckpointsKeeps ==
  ASSUME JournalsSound(trainer, writer, file, written), NEW j \in Journals, Checkpoints(j)
  PROVE  Kept
<1>1. /\ file[j] \in Files /\ written[j] \in Seq(Lines) /\ writer[j] = "open"
      /\ Sound(trainer, j, file[j], written[j], "open")
  BY DEF JournalsSound, Checkpoints
<1>2. /\ written' = [written EXCEPT ![j] = written[j]] /\ writer' = [writer EXCEPT ![j] = "open"]
      /\ file' = [file EXCEPT ![j] = Flushed(file[j])]
  BY <1>1 DEF Checkpoints, JournalsSound
<1>3. Flushed(file[j]) \in Files /\ Sound(trainer, j, Flushed(file[j]), written[j], "open")
  BY <1>1, FlushSound
<1> QED
  BY <1>1, <1>2, <1>3, ChangesOne

LEMMA PublishesKeeps ==
  ASSUME JournalsSound(trainer, writer, file, written), NEW j \in Journals, Publishes(j)
  PROVE  Kept /\ writer'[j] = "none"
<1> DEFINE g == [Flushed(file[j]) EXCEPT !.place = "final"]
<1>1. /\ file[j] \in Files /\ written[j] \in Seq(Lines) /\ writer[j] = "open"
      /\ Sound(trainer, j, file[j], written[j], "open") /\ writer \in [Journals -> {"none", "open", "bad"}]
  BY DEF JournalsSound, Publishes
<1>2. /\ written' = [written EXCEPT ![j] = written[j]] /\ writer' = [writer EXCEPT ![j] = "none"]
      /\ file' = [file EXCEPT ![j] = g]
  BY <1>1 DEF Publishes, JournalsSound
<1>3. g \in Files /\ Sound(trainer, j, g, written[j], "none") /\ g.place = "final"
  <2>1. Flushed(file[j]) \in Files
    BY <1>1, FlushSound
  <2> QED
    BY <1>1, <2>1, FlushSound DEF Files
<1> HIDE DEF g
<1> QED
  BY <1>1, <1>2, <1>3, ChangesOne

LEMMA DisableKeeps ==
  ASSUME JournalsSound(trainer, writer, file, written), DisableRawInputWitness
  PROVE  Kept /\ writer'["witness"] = "none"
<1>1. "witness" \in Journals /\ "witness" \notin DrainedNames
  BY JournalNames DEF DrainedNames
<1>2. /\ file["witness"] \in Files /\ written["witness"] \in Seq(Lines)
      /\ Sound(trainer, "witness", file["witness"], written["witness"], writer["witness"])
      /\ writer \in [Journals -> {"none", "open", "bad"}]
  BY <1>1 DEF JournalsSound
<1>3. PICK f \in {NoFile, file["witness"]} : file' = [file EXCEPT !["witness"] = f]
  BY DEF DisableRawInputWitness
<1>4. f \in Files /\ Sound(trainer, "witness", f, written["witness"], "none")
  <2>1. CASE f = NoFile
    <3>1. \A i \in 1..Len(written["witness"]) : written["witness"][i].seq = i - 1
      BY <1>2 DEF Sound
    <3> QED
      BY <1>1, <1>2, <2>1, <3>1, NoFileSound
  <2>2. CASE f = file["witness"]
    BY <1>2, <2>2 DEF Sound
  <2> QED
    BY <1>3, <2>1, <2>2
<1>5. /\ written' = [written EXCEPT !["witness"] = written["witness"]]
      /\ writer' = [writer EXCEPT !["witness"] = "none"]
  BY <1>1 DEF DisableRawInputWitness, JournalsSound
<1> QED
  BY <1>1, <1>2, <1>3, <1>4, <1>5, ChangesOne

(***************************************************************************)
(* What a step makes of the session.                                       *)
(***************************************************************************)
LEMMA PausedGrows ==
  ASSUME NEW t \in Trainers, NEW u \in Paused(t)
  PROVE  u \in Trainers /\ Grows(t, u)
<1>1. CASE u = t
  BY <1>1 DEF Grows
<1>2. CASE u # t
  <2>1. PICK e \in TrainerEvents : u = [t EXCEPT !.events = Append(@, e)]
    BY <1>2 DEF Paused
  <2>2. t.events \in Seq(TrainerEvents) /\ u.events = Append(t.events, e) /\ u.blocks = t.blocks
    BY <2>1 DEF Trainers
  <2>3. /\ Append(t.events, e) \in Seq(TrainerEvents)
        /\ \A n \in DOMAIN t.events : /\ n \in DOMAIN Append(t.events, e)
                                     /\ Append(t.events, e)[n] = t.events[n]
    BY <2>2
  <2>4. u \in Trainers
    BY <2>1, <2>2, <2>3 DEF Trainers
  <2> QED
    BY <2>2, <2>3, <2>4 DEF Grows
<1> QED
  BY <1>1, <1>2

\* The call goes on: of the journals that are to be renamed none is forgotten.
LEMMA GateGoesOn ==
  ASSUME GateInv, Advances, session # "creating", UNCHANGED <<session, storageFailed>>,
         faulted \subseteq faulted',
         session = "finalizing" => \A j \in Journals : writer'[j] # "none" => Pending(j)'
  PROVE  GateInv'
BY DEF GateInv, Advances

\* The call ends because a journal other than the witness failed.
LEMMA GateStops ==
  ASSUME JournalInv, Kept, session # "creating", StorageFails, faulted' \ {"witness"} # {}
  PROVE  JournalInv'
<1>1. trainer' \in Trainers /\ Grows(trainer, trainer')
  <2>1. CASE session = "finalizing"
    BY <2>1 DEF StorageFails, JournalInv, ControlTypes, Grows
  <2>2. CASE session # "finalizing"
    BY <2>2, PausedGrows DEF StorageFails, JournalInv, ControlTypes
  <2> QED
    BY <2>1, <2>2
<1>2. ControlTypes'
  BY <1>1 DEF StorageFails, JournalInv, ControlTypes
<1>3. JournalsSound(trainer, writer, file, written)'
  BY <1>1, SoundGrows DEF Kept
<1>4. GateInv'
  BY DEF GateInv, Kept, Advances, StorageFails, JournalInv
<1> QED
  BY <1>2, <1>3, <1>4 DEF JournalInv

\* The call goes on with what it still has to do.
LEMMA CallGoesOn ==
  ASSUME JournalInv, Kept, session # "creating", UNCHANGED <<session, trainer, storageFailed>>,
         next' \in [events : Nat \ {0}, blocks : Nat \ {0}], faulted \subseteq faulted',
         todo' \in Seq(Calls),
         session = "finalizing" => \A j \in Journals : writer'[j] # "none" => Pending(j)'
  PROVE  JournalInv'
<1>1. ControlTypes' /\ JournalsSound(trainer, writer, file, written)'
  BY DEF JournalInv, ControlTypes, Kept
<1>2. GateInv'
  BY GateGoesOn DEF JournalInv, Kept
<1> QED
  BY <1>1, <1>2 DEF JournalInv

LEMMA TailPends ==
  ASSUME todo \in Seq(Calls), todo # <<>>, todo' = Tail(todo), NEW j, Pending(j),
         Head(todo) # <<"publish", j>>
  PROVE  Pending(j)'
<1>1. PICK i \in 1..Len(todo) : todo[i] = <<"publish", j>>
  BY DEF Pending, Has
<1>2. i # 1
  BY <1>1
<1>3. i - 1 \in 1..Len(Tail(todo)) /\ Tail(todo)[i - 1] = todo[i]
  BY <1>1, <1>2
<1> QED
  BY <1>1, <1>3 DEF Pending, Has

(***************************************************************************)
(* The actions.                                                            *)
(***************************************************************************)
LEMMA DrainKeeps ==
  ASSUME JournalInv, todo # <<>>, Head(todo)[1] = "drain", DrainRecords
  PROVE  JournalInv'
<1> USE DEF JournalInv
<1>1. session # "creating"
  BY DEF GateInv
<1>2. "lifecycle" \in Journals /\ "lifecycle" \notin DrainedNames /\ DrainedNames \subseteq Journals
  BY JournalNames DEF DrainedNames
<1> DEFINE j == ToDrain
           target == IF Validates(j, next[j]) THEN j ELSE "lifecycle"
<1>3. j \in DrainedNames /\ next[j] \in Nat \ {0} /\ target \in Journals /\ target # "witness"
  BY <1>2, JournalNames DEF ToDrain, DrainedNames, ControlTypes
<1>4. CASE AllDrained /\ todo' = Tail(todo) /\ Continues /\ UNCHANGED <<writer, file, written, faulted>>
  <2>1. Kept
    BY <1>4, NothingWritten
  <2>2. todo' \in Seq(Calls)
    BY <1>4 DEF ControlTypes
  <2>3. ASSUME session = "finalizing", NEW k \in Journals, writer'[k] # "none" PROVE Pending(k)'
    BY <1>4, <2>3, TailPends DEF GateInv, ControlTypes
  <2>4. next' \in [events : Nat \ {0}, blocks : Nat \ {0}]
    BY <1>4 DEF Continues, drainVars, ControlTypes
  <2> QED
    BY <1>1, <1>4, <2>1, <2>2, <2>3, <2>4, CallGoesOn DEF Continues, drainVars
<1>5. CASE /\ ~AllDrained
           /\ IF target = j
                THEN Succeeds(j, <<next[j]>>) /\ counted' = [counted EXCEPT ![j] = @ + 1]
                ELSE Excludes(j)
           /\ next' = [next EXCEPT ![j] = @ + 1]
           /\ UNCHANGED <<session, todo, trainer, storageFailed>>
  <2>1. <<next[j]>> \in Holds /\ <<j, next[j]>> \in Holds
    BY <1>3 DEF Holds
  <2>2. next' \in [events : Nat \ {0}, blocks : Nat \ {0}]
    BY <1>3, <1>5 DEF ControlTypes, DrainedNames
  <2>3. CASE target = j
    <3>1. Validates(j, next[j])
      BY <1>2, <1>3, <2>3
    <3>2. IF j = "events" THEN next[j] \in DOMAIN trainer.events
                          ELSE next[j] \in DOMAIN trainer.blocks
      BY <1>3, <1>5 DEF ToDrain, AllDrained, ControlTypes, Trainers, DrainedNames
    <3>3. Taken(trainer, j, <<next[j]>>[1])
      BY <3>1, <3>2 DEF Taken, Validates
    <3>4. Kept /\ faulted' = faulted
      BY <1>2, <1>3, <1>5, <2>1, <2>3, <3>3, SucceedsKeeps DEF Succeeds
    <3> QED
      BY <1>1, <1>5, <2>2, <3>4, CallGoesOn DEF GateInv, ControlTypes, Pending, Kept, Advances
  <2>4. CASE target # j
    <3>1. Kept /\ faulted' = faulted
      BY <1>2, <1>5, <2>1, <2>4, SucceedsKeeps DEF Excludes, Succeeds
    <3> QED
      BY <1>1, <1>5, <2>2, <3>1, CallGoesOn DEF GateInv, ControlTypes, Pending, Kept, Advances
  <2> QED
    BY <2>3, <2>4
<1>6. CASE ~AllDrained /\ Fails(target) /\ StorageFails
  <2>1. Kept
    BY <1>3, <1>6, FailsKeeps
  <2>2. faulted' \ {"witness"} # {}
    BY <1>3, <1>6 DEF Fails
  <2> QED
    BY <1>1, <1>6, <2>1, <2>2, GateStops
<1> QED
  BY <1>4, <1>5, <1>6 DEF DrainRecords

LEMMA HasConcat ==
  ASSUME NEW S, NEW s \in Seq(S), NEW t \in Seq(S), NEW x, Has(s, x) \/ Has(t, x)
  PROVE  s \o t \in Seq(S) /\ Has(s \o t, x)
<1>1. /\ s \o t \in Seq(S) /\ Len(s \o t) = Len(s) + Len(t)
      /\ \A i \in 1..(Len(s) + Len(t)) : (s \o t)[i] = IF i <= Len(s) THEN s[i] ELSE t[i - Len(s)]
  BY ConcatProperties
<1>2. Len(s) \in Nat /\ Len(t) \in Nat
  OBVIOUS
<1>3. CASE Has(s, x)
  <2>1. PICK i \in 1..Len(s) : s[i] = x
    BY <1>3 DEF Has
  <2>2. i \in 1..(Len(s) + Len(t)) /\ (s \o t)[i] = x
    BY <1>1, <1>2, <2>1
  <2> QED
    BY <1>1, <2>2 DEF Has
<1>4. CASE Has(t, x)
  <2>1. PICK i \in 1..Len(t) : t[i] = x
    BY <1>4 DEF Has
  <2>2. Len(s) + i \in 1..(Len(s) + Len(t)) /\ (s \o t)[Len(s) + i] = x
    BY <1>1, <1>2, <2>1
  <2> QED
    BY <1>1, <2>2 DEF Has
<1> QED
  BY <1>3, <1>4

LEMMA ConcatSeq ==
  ASSUME NEW S, NEW s \in Seq(S), NEW t \in Seq(S) PROVE s \o t \in Seq(S)
BY ConcatProperties

LEMMA ListedCalls ==
  ASSUME NEW js \in Seq(Journals)
  PROVE  /\ Flush(js) \in Seq(Calls) /\ Publish(js) \in Seq(Calls)
         /\ \A i \in 1..Len(js) : Has(Publish(js), <<"publish", js[i]>>)
<1>1. DOMAIN js = 1..Len(js) /\ Len(js) \in Nat /\ \A i \in 1..Len(js) : js[i] \in Journals
  OBVIOUS
<1>2. \A i \in 1..Len(js) : <<"flush", js[i]>> \in Calls /\ <<"publish", js[i]>> \in Calls
  BY <1>1 DEF Calls
<1>3. Flush(js) \in Seq(Calls)
  <2>1. Flush(js) \in [1..Len(js) -> Calls]
    BY <1>1, <1>2 DEF Flush
  <2> QED
    BY <1>1, <2>1, SeqDef
<1>4. /\ Publish(js) \in Seq(Calls) /\ Len(Publish(js)) = Len(js)
      /\ \A i \in 1..Len(js) : Publish(js)[i] = <<"publish", js[i]>>
  <2>1. /\ Publish(js) \in [1..Len(js) -> Calls]
        /\ \A i \in 1..Len(js) : Publish(js)[i] = <<"publish", js[i]>>
    BY <1>1, <1>2 DEF Publish
  <2>2. Publish(js) \in Seq(Calls)
    BY <1>1, <2>1, SeqDef
  <2>3. Len(Publish(js)) = Len(js)
    BY <1>1, <2>1, <2>2
  <2> QED
    BY <2>1, <2>2, <2>3
<1> QED
  BY <1>3, <1>4 DEF Has

LEMMA CallTypes ==
  /\ Drain \in Calls /\ Note \in Calls /\ CheckpointAll \in Seq(Calls)
  /\ <<"anchors">> \in Seq(Journals) /\ Len(<<"anchors">>) = 1 /\ <<"anchors">>[1] = "anchors"
<1>1. Drain \in Calls /\ Note \in Calls
  BY DEF Drain, Note, Calls
<1>2. <<"anchors">> \in Seq(Journals) /\ Len(<<"anchors">>) = 1 /\ <<"anchors">>[1] = "anchors"
  BY JournalNames
<1>3. Flush(Gameplay) \in Seq(Calls) /\ Flush(<<"anchors">>) \in Seq(Calls)
  BY <1>2, JournalNames, ListedCalls
<1> QED
  BY <1>1, <1>2, <1>3, ConcatSeq DEF CheckpointAll

\* Steps that only decide what comes next.
LEMMA MovesOn ==
  ASSUME JournalInv, session # "creating", session' \notin {"creating", "failed", "finalized"},
         UNCHANGED <<writer, file, written, storageFailed, faulted, next>>,
         trainer' \in Trainers, Grows(trainer, trainer'), todo' \in Seq(Calls),
         session' = "finalizing" => \A j \in Journals : writer[j] # "none" => Pending(j)'
  PROVE  JournalInv'
<1>1. ControlTypes'
  BY DEF JournalInv, ControlTypes
<1>2. JournalsSound(trainer, writer, file, written)'
  BY SoundGrows DEF JournalInv
<1>3. GateInv'
  BY DEF JournalInv, GateInv
<1> QED
  BY <1>1, <1>2, <1>3 DEF JournalInv

LEMMA EmptySound ==
  ASSUME NEW t, NEW j
  PROVE  /\ <<>> \in Seq(Lines)
         /\ NoFile \in Files /\ Sound(t, j, NoFile, <<>>, "none")
         /\ NewFile \in Files /\ Sound(t, j, NewFile, <<>>, "open")
<1>1. <<>> \in Seq(Lines) /\ Len(<<>>) = 0
  OBVIOUS
<1>2. /\ NoFile \in Files /\ NoFile.lines = <<>> /\ NoFile.safe = 0 /\ NoFile.torn = FALSE
      /\ NoFile.place = "none"
  BY <1>1 DEF NoFile, Files
<1>3. /\ NewFile \in Files /\ NewFile.lines = <<>> /\ NewFile.safe = 0 /\ NewFile.torn = FALSE
      /\ NewFile.place = "partial"
  BY <1>2 DEF NewFile, Files
<1>4. Sound(t, j, NoFile, <<>>, "none")
  BY <1>1, <1>2 DEF Sound
<1>5. Sound(t, j, NewFile, <<>>, "open")
  BY <1>1, <1>3 DEF Sound
<1> QED
  BY <1>1, <1>2, <1>3, <1>4, <1>5

LEMMA InitKeeps == JournalInit => JournalInv
<1> SUFFICES ASSUME JournalInit PROVE JournalInv
  OBVIOUS
<1>1. ControlTypes
  <2>1. <<>> \in Seq(TrainerEvents) /\ <<>> \in Seq(BlockResults) /\ <<>> \in Seq(Calls)
    OBVIOUS
  <2> QED
    BY <2>1 DEF JournalInit, ControlTypes, Trainers
<1>2. /\ \A j \in Journals : NoFile \in Files /\ Sound(trainer, j, NoFile, <<>>, "none")
      /\ <<>> \in Seq(Lines)
  BY EmptySound
<1>3. JournalsSound(trainer, writer, file, written)
  BY <1>2 DEF JournalInit, JournalsSound
<1>4. GateInv
  BY DEF JournalInit, GateInv
<1> QED
  BY <1>1, <1>3, <1>4 DEF JournalInv

LEMMA OpenKeeps == ASSUME JournalInv, OpenJournals PROVE JournalInv'
<1>1. PICK opened \in {Journals, Journals \ {"witness"}} :
        /\ writer' = [j \in Journals |-> IF j \in opened THEN "open" ELSE "none"]
        /\ file' = [j \in Journals |-> IF j \in opened THEN NewFile ELSE NoFile]
  BY DEF OpenJournals
<1>2. ControlTypes'
  BY DEF OpenJournals, drainVars, JournalInv, ControlTypes
<1>3. ASSUME NEW j \in Journals
      PROVE  file'[j] \in Files /\ Sound(trainer', j, file'[j], written'[j], writer'[j])
  <2>1. written'[j] = <<>>
    BY DEF OpenJournals, JournalInv, GateInv
  <2> QED
    BY <1>1, <2>1, EmptySound
<1>4. JournalsSound(trainer, writer, file, written)'
  <2>1. /\ writer' \in [Journals -> {"none", "open", "bad"}] /\ file' \in [Journals -> Files]
        /\ written' \in [Journals -> Seq(Lines)]
    BY <1>1, <1>3 DEF OpenJournals, JournalInv, JournalsSound
  <2> QED
    BY <1>3, <2>1 DEF JournalsSound
<1>5. GateInv'
  BY <1>1 DEF OpenJournals, JournalInv, GateInv
<1> QED
  BY <1>2, <1>4, <1>5 DEF JournalInv

LEMMA StartKeeps == ASSUME JournalInv, TryStart PROVE JournalInv'
<1>1. todo' \in Seq(Calls)
  BY CallTypes, ConcatSeq DEF TryStart
<1> QED
  BY <1>1, MovesOn DEF TryStart, drainVars, JournalInv, ControlTypes, Grows

LEMMA EventKeeps == ASSUME JournalInv, NEW e \in TrainerEvents, FinalizeEvent(e) PROVE JournalInv'
<1>1. trainer' \in Paused(trainer)
  BY DEF FinalizeEvent, Paused, Records
<1>2. trainer' \in Trainers /\ Grows(trainer, trainer')
  BY <1>1, PausedGrows DEF JournalInv, ControlTypes
<1>3. todo' \in Seq(Calls)
  BY CallTypes DEF FinalizeEvent
<1> QED
  BY <1>2, <1>3, MovesOn DEF FinalizeEvent, Records

LEMMA BlockKeeps == ASSUME JournalInv, NEW b \in BlockResults, CompleteBlock(b) PROVE JournalInv'
<1>1. trainer.blocks \in Seq(BlockResults) /\ trainer.events \in Seq(TrainerEvents)
  BY DEF JournalInv, ControlTypes, Trainers
<1>2. /\ Append(trainer.blocks, b) \in Seq(BlockResults)
      /\ \A n \in DOMAIN trainer.blocks : /\ n \in DOMAIN Append(trainer.blocks, b)
                                          /\ Append(trainer.blocks, b)[n] = trainer.blocks[n]
  BY <1>1
<1>3. trainer' = [trainer EXCEPT !.blocks = Append(trainer.blocks, b)]
  BY DEF CompleteBlock
<1>4. trainer' \in Trainers /\ trainer'.blocks = Append(trainer.blocks, b)
        /\ trainer'.events = trainer.events
  BY <1>1, <1>2, <1>3 DEF JournalInv, ControlTypes, Trainers
<1>5. Grows(trainer, trainer')
  BY <1>2, <1>4 DEF Grows
<1>6. todo' \in Seq(Calls)
  BY CallTypes DEF CompleteBlock
<1> QED
  BY <1>4, <1>5, <1>6, MovesOn DEF CompleteBlock, Records

LEMMA CheckpointKeeps == ASSUME JournalInv, Checkpoint PROVE JournalInv'
<1>1. todo' \in Seq(Calls)
  BY CallTypes DEF Checkpoint
<1> QED
  BY <1>1, MovesOn DEF Checkpoint, Records, Continues, drainVars, JournalInv, ControlTypes, Grows

LEMMA StopKeeps == ASSUME JournalInv, BeginStop PROVE JournalInv'
<1>1. trainer' \in Trainers /\ Grows(trainer, trainer')
  BY PausedGrows DEF BeginStop, JournalInv, ControlTypes
<1>2. todo' \in Seq(Calls)
  BY CallTypes DEF BeginStop
<1> QED
  BY <1>1, <1>2, MovesOn DEF BeginStop, Idle

LEMMA FinalizeKeeps == ASSUME JournalInv, TryFinalize PROVE JournalInv'
<1> DEFINE s == (<<Drain>> \o Flush(Gameplay)) \o Publish(Gameplay)
           r == Publish(<<"anchors">>)
<1>1. <<Drain>> \o Flush(Gameplay) \in Seq(Calls)
  BY JournalNames, CallTypes, ListedCalls, ConcatSeq
<1>2. Publish(Gameplay) \in Seq(Calls) /\ s \in Seq(Calls)
  BY <1>1, JournalNames, ListedCalls, ConcatSeq
<1>3. r \in Seq(Calls) /\ Has(r, <<"publish", "anchors">>)
  BY CallTypes, ListedCalls
<1>4. ASSUME NEW j \in Journals, j # "anchors" PROVE Has(s, <<"publish", j>>)
  <2>1. PICK i \in 1..Len(Gameplay) : Gameplay[i] = j
    BY <1>4, JournalNames
  <2>2. Has(Publish(Gameplay), <<"publish", j>>)
    BY <2>1, JournalNames, ListedCalls
  <2> QED
    BY <1>1, <1>2, <2>2, HasConcat
<1>5. todo' = s \o r
  BY DEF TryFinalize
<1> HIDE DEF s, r
<1>6. ASSUME NEW j \in Journals PROVE s \o r \in Seq(Calls) /\ Has(s \o r, <<"publish", j>>)
  BY <1>2, <1>3, <1>4, HasConcat
<1>7. todo' \in Seq(Calls) /\ \A j \in Journals : Pending(j)'
  BY <1>5, <1>6, JournalNames DEF Pending
<1> QED
  BY <1>7, MovesOn DEF TryFinalize, drainVars, JournalInv, ControlTypes, Grows

LEMMA FinalizedKeeps == ASSUME JournalInv, Finalized PROVE JournalInv'
<1>1. ControlTypes' /\ JournalsSound(trainer, writer, file, written)'
  BY DEF Finalized, JournalInv, ControlTypes, drainVars
<1>2. \A j \in Journals : writer[j] = "none"
  BY DEF Finalized, JournalInv, GateInv, Pending, Has
<1>3. GateInv'
  BY <1>2 DEF Finalized, JournalInv, GateInv
<1> QED
  BY <1>1, <1>3 DEF JournalInv

\* A journal other than the witness takes a line, or fails and stops the session.
LEMMA LineKeeps ==
  ASSUME JournalInv, session \notin {"creating", "finalizing"}, NEW j \in Journals,
         j \notin DrainedNames, j # "witness",
         \/ Succeeds(j, <<>>) /\ Continues /\ todo' \in Seq(Calls)
         \/ Fails(j) /\ StorageFails
  PROVE  JournalInv'
<1>1. CASE Succeeds(j, <<>>) /\ Continues /\ todo' \in Seq(Calls)
  <2>1. <<>> \in Holds
    BY DEF Holds
  <2>2. Kept /\ faulted' = faulted
    BY <1>1, <2>1, SucceedsKeeps DEF JournalInv, Succeeds
  <2> QED
    BY <1>1, <2>2, CallGoesOn DEF Continues, drainVars, JournalInv, ControlTypes
<1>2. CASE Fails(j) /\ StorageFails
  <2>1. Kept /\ faulted' \ {"witness"} # {}
    BY <1>2, FailsKeeps DEF JournalInv, Fails
  <2> QED
    BY <1>2, <2>1, GateStops
<1> QED
  BY <1>1, <1>2

LEMMA AnnotateKeeps == ASSUME JournalInv, Annotate PROVE JournalInv'
<1>1. "lifecycle" \in Journals \ DrainedNames
  BY JournalNames DEF DrainedNames
<1>2. todo \in Seq(Calls)
  BY DEF JournalInv, ControlTypes
<1> QED
  BY <1>1, <1>2, LineKeeps DEF Annotate, Idle

LEMMA AnchorKeeps == ASSUME JournalInv, AddClockAnchor PROVE JournalInv'
<1>1. "anchors" \in Journals \ DrainedNames
  BY JournalNames DEF DrainedNames
<1>2. todo \in Seq(Calls)
  BY DEF JournalInv, ControlTypes
<1> QED
  BY <1>1, <1>2, LineKeeps DEF AddClockAnchor, Idle

LEMMA WitnessKeeps == ASSUME JournalInv, RawInputWitness PROVE JournalInv'
<1>1. "witness" \in Journals \ DrainedNames /\ <<>> \in Holds
  BY JournalNames DEF DrainedNames, Holds
<1>2. Kept /\ faulted \subseteq faulted'
  <2>1. CASE Succeeds("witness", <<>>)
    BY <1>1, <2>1, SucceedsKeeps DEF JournalInv, Succeeds
  <2>2. CASE UNCHANGED <<writer, file, written, faulted>>
    BY <2>2, NothingWritten DEF JournalInv
  <2>3. CASE DisableRawInputWitness
    BY <2>3, DisableKeeps DEF JournalInv, DisableRawInputWitness
  <2> QED
    BY <2>1, <2>2, <2>3 DEF RawInputWitness
<1>3. todo' \in Seq(Calls)
  <2>1. <<Note>> \in Seq(Calls) /\ todo \in Seq(Calls)
    BY CallTypes DEF JournalInv, ControlTypes
  <2> QED
    BY <2>1 DEF RawInputWitness
<1> QED
  BY <1>2, <1>3, CallGoesOn
     DEF RawInputWitness, Records, Continues, drainVars, JournalInv, ControlTypes

LEMMA StepKeeps ==
  ASSUME JournalInv, NEW op \in {"flush", "publish"}, NEW j \in Journals,
         todo # <<>>, Head(todo) = <<op, j>>,
         \/ /\ IF writer[j] = "none" THEN UNCHANGED <<writer, file, written, faulted>>
               ELSE IF op = "flush" THEN Checkpoints(j) ELSE Publishes(j)
            /\ todo' = Tail(todo) /\ Continues
         \/ StepFails(j)
  PROVE  JournalInv'
<1> USE DEF JournalInv
<1>1. session # "creating"
  BY DEF GateInv
<1>2. writer \in [Journals -> {"none", "open", "bad"}] /\ todo \in Seq(Calls)
  BY DEF JournalsSound, ControlTypes
\* The call goes on, and the journal is not to be renamed any more.
<1>3. ASSUME Kept, todo' = Tail(todo), Continues, faulted \subseteq faulted',
             op = "publish" => writer'[j] = "none"
      PROVE  JournalInv'
  <2>1. ASSUME session = "finalizing", NEW k \in Journals, writer'[k] # "none" PROVE Pending(k)'
    <3>1. writer[k] # "none" /\ Pending(k)
      BY <1>3, <2>1 DEF Kept, Advances, GateInv
    <3>2. Head(todo) # <<"publish", k>>
      BY <1>3, <2>1
    <3> QED
      BY <1>2, <1>3, <3>1, <3>2, TailPends
  <2>2. todo' \in Seq(Calls) /\ next' \in [events : Nat \ {0}, blocks : Nat \ {0}]
    BY <1>2, <1>3 DEF Continues, drainVars, ControlTypes
  <2> QED
    BY <1>1, <1>3, <2>1, <2>2, CallGoesOn DEF Continues, drainVars
<1>4. CASE /\ writer[j] = "none" /\ UNCHANGED <<writer, file, written, faulted>>
           /\ todo' = Tail(todo) /\ Continues
  BY <1>3, <1>4, NothingWritten
<1>5. CASE /\ writer[j] # "none" /\ (IF op = "flush" THEN Checkpoints(j) ELSE Publishes(j))
           /\ todo' = Tail(todo) /\ Continues
  <2>1. CASE op = "flush"
    <3>1. Kept /\ faulted' = faulted
      BY <1>5, <2>1, CheckpointsKeeps DEF Checkpoints
    <3> QED
      BY <1>3, <1>5, <2>1, <3>1
  <2>2. CASE op = "publish"
    <3>1. Kept /\ faulted' = faulted /\ writer'[j] = "none"
      BY <1>5, <2>2, PublishesKeeps DEF Publishes
    <3> QED
      BY <1>3, <1>5, <3>1
  <2> QED
    BY <2>1, <2>2
<1>6. CASE StepFails(j)
  <2>1. CASE j = "witness"
    <3>1. Kept /\ writer'[j] = "none" /\ faulted \subseteq faulted'
      BY <1>6, <2>1, DisableKeeps DEF StepFails, DisableRawInputWitness
    <3> QED
      BY <1>3, <1>6, <2>1, <3>1 DEF StepFails
  <2>2. CASE j # "witness"
    <3>1. Kept /\ j \in faulted'
      BY <1>6, <2>2, FailsKeeps, NothingWritten DEF StepFails, Fails, StaysUnfinished
    <3> QED
      BY <1>1, <1>6, <2>2, <3>1, GateStops DEF StepFails
  <2> QED
    BY <2>1, <2>2
<1> QED
  BY <1>4, <1>5, <1>6

LEMMA FileStepKeeps == ASSUME JournalInv, FileStep PROVE JournalInv'
<1>1. todo \in Seq(Calls) /\ todo # <<>> /\ session # "creating"
  BY DEF FileStep, JournalInv, ControlTypes, GateInv
<1>2. Head(todo) \in Calls /\ Tail(todo) \in Seq(Calls)
  BY <1>1
<1>3. CASE Head(todo) = <<"drain", "events">>
  BY <1>1, <1>3, DrainKeeps DEF FileStep
<1>4. CASE Head(todo) = <<"annotate", "lifecycle">>
  <2>1. \/ Succeeds("lifecycle", <<>>) /\ todo' = Tail(todo) /\ Continues
        \/ Fails("lifecycle") /\ StorageFails
    BY <1>4 DEF FileStep
  <2>2. "lifecycle" \in Journals \ DrainedNames /\ <<>> \in Holds
    BY JournalNames DEF DrainedNames, Holds
  <2>3. CASE Succeeds("lifecycle", <<>>) /\ todo' = Tail(todo) /\ Continues
    <3>1. Kept /\ faulted' = faulted
      BY <2>2, <2>3, SucceedsKeeps DEF JournalInv, Succeeds
    <3>2. ASSUME session = "finalizing", NEW k \in Journals, writer'[k] # "none" PROVE Pending(k)'
      <4>1. Pending(k) /\ Head(todo) # <<"publish", k>>
        BY <1>4, <3>1, <3>2 DEF JournalInv, GateInv, Kept, Advances
      <4> QED
        BY <1>1, <2>3, <4>1, TailPends
    <3> QED
      BY <1>1, <1>2, <2>3, <3>1, <3>2, CallGoesOn DEF Continues, drainVars, JournalInv, ControlTypes
  <2>4. CASE Fails("lifecycle") /\ StorageFails
    <3>1. Kept /\ faulted' \ {"witness"} # {}
      BY <2>2, <2>4, FailsKeeps DEF JournalInv, Fails
    <3> QED
      BY <1>1, <2>4, <3>1, GateStops
  <2> QED
    BY <2>1, <2>3, <2>4
<1>5. CASE Head(todo) \in {"flush", "publish"} \X Journals
  <2>1. PICK op \in {"flush", "publish"}, j \in Journals : Head(todo) = <<op, j>>
    BY <1>5
  <2>2. \/ /\ IF writer[j] = "none" THEN UNCHANGED <<writer, file, written, faulted>>
              ELSE IF op = "flush" THEN Checkpoints(j) ELSE Publishes(j)
           /\ todo' = Tail(todo) /\ Continues
        \/ StepFails(j)
    BY <2>1 DEF FileStep
  <2> QED
    BY <1>1, <2>1, <2>2, StepKeeps
<1> QED
  BY <1>2, <1>3, <1>4, <1>5 DEF Calls

LEMMA NextKeeps == JournalInv /\ [JournalNext]_journalVars => JournalInv'
<1> SUFFICES ASSUME JournalInv, [JournalNext]_journalVars PROVE JournalInv'
  OBVIOUS
<1>1. CASE UNCHANGED journalVars
  BY <1>1 DEF journalVars, JournalInv, ControlTypes, GateInv, Pending
<1>2. ASSUME NEW e \in TrainerEvents, FinalizeEvent(e) PROVE JournalInv'
  BY <1>2, EventKeeps
<1>3. ASSUME NEW b \in BlockResults, CompleteBlock(b) PROVE JournalInv'
  BY <1>3, BlockKeeps
<1>4. CASE Over
  BY <1>1, <1>4 DEF Over
<1> QED
  BY <1>1, <1>2, <1>3, <1>4, OpenKeeps, StartKeeps, AnnotateKeeps, WitnessKeeps, AnchorKeeps,
     CheckpointKeeps, StopKeeps, FinalizeKeeps, FileStepKeeps, FinalizedKeeps DEF JournalNext

LEMMA JournalsAreSound == JournalSpec => []JournalInv
BY InitKeeps, NextKeeps, PTL DEF JournalSpec

(***************************************************************************)
(* The results.                                                            *)
(***************************************************************************)
LEMMA InvGates == JournalInv => WitnessNeverGates
<1> SUFFICES ASSUME JournalInv PROVE WitnessNeverGates
  OBVIOUS
<1>1. ASSUME session = "finalized", NEW j \in Journals
      PROVE  file[j].place = "final" \/ (j = "witness" /\ writer[j] = "none")
  BY <1>1 DEF JournalInv, GateInv
<1> QED
  BY <1>1 DEF WitnessNeverGates, JournalInv, GateInv

\* Whatever the trainer hands over, and whichever file operations fail: the optional
\* witness never stops a session nor keeps it from finishing its journals
\* (GameplayJournal::DisableRawInputWitness), and finished journals leave no other
\* journal unfinished.
THEOREM WitnessNeverGatesASession == JournalSpec => []WitnessNeverGates
BY JournalsAreSound, InvGates, PTL

\* What the recovery reads of a file that is sound, or was until its writer died.
LEMMA SoundIsRead ==
  ASSUME NEW j \in Journals, NEW f \in Files, NEW w \in Seq(Lines), NEW o,
         Sound(trainer, j, f, w, o)
  PROVE  Recovered(j, f) = f.lines /\ IsPrefix(f.lines, w)
<1>1. f.lines \in Seq(Lines) /\ Len(f.lines) \in Nat /\ Len(w) \in Nat
  BY DEF Files
<1>2. /\ Trimmed(f).lines = f.lines /\ ~Trimmed(f).torn
  BY DEF Trimmed, Files, Sound
<1>3. \A i \in DOMAIN f.lines : i \in 1..Len(f.lines) /\ i \in 1..Len(w) /\ f.lines[i] = w[i]
  BY <1>1 DEF Sound
<1>4. FramesRead(Trimmed(f))
  BY <1>2, <1>3 DEF FramesRead, Sound
<1>5. ToSet(Drained) = DrainedNames
  BY DEF ToSet, Drained, DrainedNames
<1>6. RecordsRead(j, Trimmed(f))
  <2> SUFFICES ASSUME j \in DrainedNames, NEW i \in DOMAIN f.lines
               PROVE  Validates(j, f.lines[i].of[1])
    BY <1>2, <1>5 DEF RecordsRead
  <2>1. Taken(trainer, j, f.lines[i].of[1])
    BY <1>3 DEF Sound
  <2> QED
    BY <2>1 DEF Taken, Validates
<1>7. SubSeq(f.lines, 1, Len(f.lines)) = SubSeq(w, 1, Len(f.lines))
  BY <1>1 DEF Sound
<1> QED
  BY <1>4, <1>6, <1>7 DEF Recovered, IsPrefix, Sound

LEMMA InvRecovers == JournalInv => RecoveryKeepsCheckpoints
<1> SUFFICES ASSUME JournalInv, NEW j \in Journals, NEW f \in Survivors(j)
             PROVE  IsPrefix(Recovered(j, f), written[j]) /\ Len(Recovered(j, f)) >= file[j].safe
  BY DEF RecoveryKeepsCheckpoints
<1>1. /\ file[j] \in Files /\ written[j] \in Seq(Lines)
      /\ Sound(trainer, j, file[j], written[j], writer[j])
  BY DEF JournalInv, JournalsSound
<1>2. CASE file[j].place = "partial"
  <2>1. f \in Files /\ Sound(trainer, j, f, written[j], "bad") /\ file[j].safe <= Len(f.lines)
    BY <1>1, <1>2, RemainsSound DEF Survivors
  <2> QED
    BY <1>1, <2>1, SoundIsRead DEF Files
<1>3. CASE file[j].place # "partial"
  <2>1. f = file[j]
    BY <1>3 DEF Survivors
  <2> QED
    BY <1>1, <2>1, SoundIsRead DEF Files, Sound
<1> QED
  BY <1>2, <1>3

\* For any records, any number of lines and any failures of the files: whenever the
\* process dies, what the recovery reads of a journal (RecoverJsonlPartial,
\* RecoverJournal) is a prefix of what was written and holds what was checkpointed.
THEOREM RecoveryAlwaysKeepsCheckpoints == JournalSpec => []RecoveryKeepsCheckpoints
BY JournalsAreSound, InvRecovers, PTL

(***************************************************************************)
(* Every record is accounted for. What is drained of a journal k, its      *)
(* records before n, is in the lines w of the journal or, by number, in    *)
(* the annotations a; nothing else is, and both are in order.              *)
(***************************************************************************)
Out(k, a) == {i \in 1..Len(a) : a[i].of # <<>> /\ a[i].of[1] = k}

Accounts(k, n, w, a) ==
  /\ \A i \in 1..Len(w) : w[i].of[1] \in 1..(n - 1)
  /\ \A i \in Out(k, a) : a[i].of[2] \in 1..(n - 1)
  /\ \A m \in 1..(n - 1) :
       (\E i \in 1..Len(w) : w[i].of[1] = m) <=> ~\E i \in Out(k, a) : a[i].of[2] = m
  /\ \A i, l \in 1..Len(w) : i < l => w[i].of[1] < w[l].of[1]
  /\ \A i, l \in Out(k, a) : i < l => a[i].of[2] < a[l].of[2]

CountsInv ==
  /\ counted \in [events : Nat, blocks : Nat]
  /\ \A k \in DrainedNames :
       /\ counted[k] = Len(written[k]) /\ next[k] <= Len(trainer[k]) + 1
       /\ Accounts(k, next[k], written[k], written["lifecycle"])

\* A finished file holds all the lines, and journals are finished after they were drained.
FinishInv ==
  /\ \A j \in Journals : file[j].place = "final" => Len(file[j].lines) = Len(written[j])
  /\ session = "finalizing" => Has(todo, Drain) \/ AllDrained
  /\ session = "finalized" => AllDrained

AccountInv == JournalInv /\ CountsInv /\ FinishInv

LEMMA LineAppended ==
  ASSUME NEW a \in Seq(Lines), NEW l \in Lines
  PROVE  /\ Len(Append(a, l)) = Len(a) + 1 /\ Len(a) \in Nat
         /\ Append(a, l)[Len(a) + 1] = l /\ \A i \in 1..Len(a) : Append(a, l)[i] = a[i]
OBVIOUS

LEMMA OutAppended ==
  ASSUME NEW k, NEW a \in Seq(Lines), NEW l \in Lines
  PROVE  /\ Out(k, a) \subseteq 1..Len(a)
         /\ l.of # <<>> /\ l.of[1] = k => Out(k, Append(a, l)) = Out(k, a) \cup {Len(a) + 1}
         /\ l.of = <<>> \/ l.of[1] # k => Out(k, Append(a, l)) = Out(k, a)
<1> DEFINE b == Append(a, l)
<1>1. /\ Len(b) = Len(a) + 1 /\ Len(a) \in Nat /\ b[Len(a) + 1] = l
      /\ \A i \in 1..Len(a) : b[i] = a[i]
  BY LineAppended
<1> HIDE DEF b
<1>2. 1..Len(b) = 1..Len(a) \cup {Len(a) + 1}
  BY <1>1
<1>3. /\ l.of # <<>> /\ l.of[1] = k => Out(k, b) = Out(k, a) \cup {Len(a) + 1}
      /\ l.of = <<>> \/ l.of[1] # k => Out(k, b) = Out(k, a)
  BY <1>1, <1>2 DEF Out
<1> QED
  BY <1>3 DEF b, Out

\* An annotation that excludes nothing of this journal.
LEMMA AccountsNote ==
  ASSUME NEW k, NEW n, NEW w, NEW a \in Seq(Lines), NEW l \in Lines,
         Accounts(k, n, w, a), l.of = <<>> \/ l.of[1] # k
  PROVE  Accounts(k, n, w, Append(a, l))
<1> DEFINE b == Append(a, l)
<1>1. /\ Out(k, b) = Out(k, a) /\ \A i \in Out(k, a) : b[i] = a[i]
  <2>1. Out(k, a) \subseteq 1..Len(a) /\ \A i \in 1..Len(a) : b[i] = a[i]
    BY LineAppended, OutAppended
  <2>2. Out(k, b) = Out(k, a)
    BY OutAppended
  <2> HIDE DEF b
  <2> QED
    BY <2>1, <2>2
<1> HIDE DEF b
<1>2. Accounts(k, n, w, b)
  BY <1>1 DEF Accounts
<1> QED
  BY <1>2 DEF b

\* The next record.
LEMMA AccountsRecord ==
  ASSUME NEW k, NEW n \in Nat \ {0}, NEW w \in Seq(Lines), NEW a, NEW l \in Lines,
         Accounts(k, n, w, a), l.of = <<n>>
  PROVE  Accounts(k, n + 1, Append(w, l), a)
<1> DEFINE v == Append(w, l)
<1>1. /\ Len(v) = Len(w) + 1 /\ Len(w) \in Nat /\ v[Len(w) + 1].of[1] = n
      /\ \A i \in 1..Len(w) : v[i] = w[i]
  <2>1. /\ Len(v) = Len(w) + 1 /\ Len(w) \in Nat /\ v[Len(w) + 1] = l
        /\ \A i \in 1..Len(w) : v[i] = w[i]
    BY LineAppended
  <2> QED
    BY <2>1
<1>2. 1..Len(v) = 1..Len(w) \cup {Len(w) + 1}
  BY <1>1
<1>3. 1..((n + 1) - 1) = 1..(n - 1) \cup {n}
  OBVIOUS
<1> HIDE DEF v
<1>4. \A i \in 1..Len(w) : w[i].of[1] \in 1..(n - 1)
  BY DEF Accounts
<1>5. ASSUME NEW i \in 1..Len(v) PROVE v[i].of[1] \in 1..n
  <2>1. CASE i = Len(w) + 1
    BY <1>1, <2>1
  <2>2. CASE i \in 1..Len(w)
    <3>1. v[i].of[1] \in 1..(n - 1)
      BY <1>1, <1>4, <2>2
    <3> QED
      BY <3>1
  <2> QED
    BY <1>2, <2>1, <2>2
<1>6. \A i \in Out(k, a) : a[i].of[2] \in 1..(n - 1)
  BY DEF Accounts
<1>7. ASSUME NEW m \in 1..n
      PROVE  (\E i \in 1..Len(v) : v[i].of[1] = m) <=> ~\E i \in Out(k, a) : a[i].of[2] = m
  <2>1. (\E i \in 1..Len(v) : v[i].of[1] = m) <=> (\E i \in 1..Len(w) : w[i].of[1] = m) \/ m = n
    BY <1>1, <1>2
  <2>2. CASE m = n
    BY <1>6, <2>1, <2>2
  <2>3. CASE m # n
    <3>1. m \in 1..(n - 1)
      BY <2>3
    <3> QED
      BY <2>1, <2>3, <3>1 DEF Accounts
  <2> QED
    BY <2>2, <2>3
<1>8. ASSUME NEW i \in 1..Len(v), NEW j \in 1..Len(v), i < j PROVE v[i].of[1] < v[j].of[1]
  <2>1. i \in 1..Len(w)
    BY <1>1, <1>2, <1>8
  <2>2. CASE j \in 1..Len(w)
    BY <1>1, <1>8, <2>1, <2>2 DEF Accounts
  <2>3. CASE j = Len(w) + 1
    <3>1. v[i].of[1] \in 1..(n - 1) /\ v[j].of[1] = n
      BY <1>1, <1>4, <2>1, <2>3
    <3> QED
      BY <3>1
  <2> QED
    BY <1>2, <2>2, <2>3
<1>9. Accounts(k, n + 1, v, a)
  BY <1>3, <1>5, <1>6, <1>7, <1>8 DEF Accounts
<1> QED
  BY <1>9 DEF v

\* The next record is left out.
LEMMA AccountsExclusion ==
  ASSUME NEW k, NEW n \in Nat \ {0}, NEW w, NEW a \in Seq(Lines), NEW l \in Lines,
         Accounts(k, n, w, a), l.of = <<k, n>>
  PROVE  Accounts(k, n + 1, w, Append(a, l))
<1> DEFINE b == Append(a, l)
<1>1. l.of # <<>> /\ l.of[1] = k /\ l.of[2] = n
  OBVIOUS
<1>2. /\ Len(a) \in Nat /\ Out(k, a) \subseteq 1..Len(a) /\ b[Len(a) + 1].of[2] = n
      /\ \A i \in Out(k, a) : b[i] = a[i]
      /\ Out(k, b) = Out(k, a) \cup {Len(a) + 1}
  <2>1. /\ Len(a) \in Nat /\ Out(k, a) \subseteq 1..Len(a) /\ b[Len(a) + 1] = l
        /\ \A i \in 1..Len(a) : b[i] = a[i]
    BY LineAppended, OutAppended
  <2>2. Out(k, b) = Out(k, a) \cup {Len(a) + 1}
    BY <1>1, OutAppended
  <2> HIDE DEF b
  <2> QED
    BY <1>1, <2>1, <2>2
<1>3. 1..((n + 1) - 1) = 1..(n - 1) \cup {n}
  OBVIOUS
<1> HIDE DEF b
<1>4. \A i \in Out(k, a) : a[i].of[2] \in 1..(n - 1)
  BY DEF Accounts
<1>5. \A i \in Out(k, b) : b[i].of[2] \in 1..n
  BY <1>2, <1>3, <1>4
<1>6. \A i \in 1..Len(w) : w[i].of[1] \in 1..(n - 1)
  BY DEF Accounts
<1>7. ASSUME NEW m \in 1..n
      PROVE  (\E i \in 1..Len(w) : w[i].of[1] = m) <=> ~\E i \in Out(k, b) : b[i].of[2] = m
  <2>1. (\E i \in Out(k, b) : b[i].of[2] = m) <=> (\E i \in Out(k, a) : a[i].of[2] = m) \/ m = n
    BY <1>2
  <2>2. CASE m = n
    BY <1>6, <2>1, <2>2
  <2>3. CASE m # n
    <3>1. m \in 1..(n - 1)
      BY <2>3
    <3> QED
      BY <2>1, <2>3, <3>1 DEF Accounts
  <2> QED
    BY <2>2, <2>3
<1>8. ASSUME NEW i \in Out(k, b), NEW j \in Out(k, b), i < j PROVE b[i].of[2] < b[j].of[2]
  <2>1. i \in Out(k, a)
    BY <1>2, <1>8
  <2>2. CASE j \in Out(k, a)
    BY <1>2, <1>8, <2>1, <2>2 DEF Accounts
  <2>3. CASE j = Len(a) + 1
    <3>1. b[i].of[2] \in 1..(n - 1) /\ b[j].of[2] = n
      BY <1>2, <1>4, <2>1, <2>3
    <3> QED
      BY <3>1
  <2> QED
    BY <1>2, <2>2, <2>3
<1>9. Accounts(k, n + 1, w, b)
  BY <1>3, <1>5, <1>6, <1>7, <1>8 DEF Accounts
<1> QED
  BY <1>9 DEF b

(***************************************************************************)
(* What a step makes of the accounts: nothing, an annotation, a record or  *)
(* an exclusion.                                                           *)
(***************************************************************************)
Told == {"events", "blocks", "lifecycle"}

QuietStep ==
  /\ UNCHANGED <<next, counted>> /\ Grows(trainer, trainer')
  /\ \A j \in Told : written'[j] = written[j]

NoteStep ==
  /\ UNCHANGED <<next, counted, trainer>>
  /\ Succeeds("lifecycle", <<>>)

RecordStep(k) ==
  /\ UNCHANGED trainer /\ next[k] <= Len(trainer[k])
  /\ Succeeds(k, <<next[k]>>) /\ counted' = [counted EXCEPT ![k] = @ + 1]
  /\ next' = [next EXCEPT ![k] = @ + 1]

ExclusionStep(k) ==
  /\ UNCHANGED trainer /\ next[k] <= Len(trainer[k])
  /\ Succeeds("lifecycle", <<k, next[k]>>) /\ UNCHANGED counted
  /\ next' = [next EXCEPT ![k] = @ + 1]

LEMMA AccountTypes ==
  ASSUME AccountInv
  PROVE  /\ DrainedNames \subseteq Journals /\ "lifecycle" \in Journals \ DrainedNames
         /\ written \in [Journals -> Seq(Lines)] /\ trainer \in Trainers
         /\ next \in [events : Nat \ {0}, blocks : Nat \ {0}]
         /\ counted \in [events : Nat, blocks : Nat]
         /\ \A k \in DrainedNames : /\ next[k] \in Nat \ {0} /\ counted[k] \in Nat
                                    /\ Len(trainer[k]) \in Nat
BY JournalNames
   DEF AccountInv, JournalInv, ControlTypes, JournalsSound, CountsInv, DrainedNames, Trainers

LEMMA QuietCounts ==
  ASSUME AccountInv, JournalInv', QuietStep
  PROVE  CountsInv'
<1>1. ASSUME NEW k \in DrainedNames PROVE Len(trainer[k]) <= Len(trainer'[k])
  <2>1. CASE k = "events"
    <3>1. trainer.events \in Seq(TrainerEvents) /\ trainer'.events \in Seq(TrainerEvents)
      BY DEF AccountInv, JournalInv, ControlTypes, Trainers
    <3>2. \A n \in DOMAIN trainer.events : n \in DOMAIN trainer'.events
      BY DEF QuietStep, Grows
    <3>3. Len(trainer.events) <= Len(trainer'.events)
      BY <3>1, <3>2
    <3> QED
      BY <2>1, <3>3
  <2>2. CASE k = "blocks"
    <3>1. trainer.blocks \in Seq(BlockResults) /\ trainer'.blocks \in Seq(BlockResults)
      BY DEF AccountInv, JournalInv, ControlTypes, Trainers
    <3>2. \A n \in DOMAIN trainer.blocks : n \in DOMAIN trainer'.blocks
      BY DEF QuietStep, Grows
    <3>3. Len(trainer.blocks) <= Len(trainer'.blocks)
      BY <3>1, <3>2
    <3> QED
      BY <2>2, <3>3
  <2> QED
    BY <2>1, <2>2 DEF DrainedNames
<1>2. ASSUME NEW k \in DrainedNames PROVE next[k] <= Len(trainer'[k]) + 1
  <2>1. Len(trainer'[k]) \in Nat
    BY DEF JournalInv, ControlTypes, Trainers, DrainedNames
  <2>2. next[k] <= Len(trainer[k]) + 1
    BY DEF AccountInv, CountsInv
  <2> QED
    BY <1>1, <2>1, <2>2, AccountTypes
<1> QED
  BY <1>2 DEF QuietStep, Told, DrainedNames, AccountInv, CountsInv

LEMMA NoteCounts ==
  ASSUME AccountInv, NoteStep
  PROVE  CountsInv'
<1> DEFINE l == Line("lifecycle", <<>>)
<1>1. /\ l \in Lines /\ l.of = <<>> /\ written["lifecycle"] \in Seq(Lines)
      /\ written' = [written EXCEPT !["lifecycle"] = Append(@, l)]
  BY AccountTypes DEF NoteStep, Succeeds, Line, Lines, Holds
<1> HIDE DEF l
<1>2. /\ written'["lifecycle"] = Append(written["lifecycle"], l)
      /\ \A k \in DrainedNames : written'[k] = written[k]
  BY <1>1, AccountTypes
<1>3. ASSUME NEW k \in DrainedNames
      PROVE  Accounts(k, next[k], written[k], Append(written["lifecycle"], l))
  <2>1. Accounts(k, next[k], written[k], written["lifecycle"])
    BY DEF AccountInv, CountsInv
  <2> QED
    BY <1>1, <2>1, AccountsNote
<1> QED
  BY <1>2, <1>3 DEF NoteStep, AccountInv, CountsInv

LEMMA RecordCounts ==
  ASSUME AccountInv, NEW k \in DrainedNames, RecordStep(k)
  PROVE  CountsInv'
<1> DEFINE n == next[k]
           l == Line(k, <<n>>)
<1>1. /\ k \in Journals /\ written[k] \in Seq(Lines) /\ n \in Nat \ {0} /\ counted[k] \in Nat
      /\ n <= Len(trainer[k]) /\ Len(trainer[k]) \in Nat
  BY AccountTypes DEF RecordStep
<1>2. l \in Lines /\ l.of = <<n>>
  BY <1>1 DEF Line, Lines, Holds
<1>3. written' = [written EXCEPT ![k] = Append(@, l)]
  BY DEF RecordStep, Succeeds
<1>4. /\ next' \in [events : Nat \ {0}, blocks : Nat \ {0}] /\ next'[k] = n + 1
      /\ \A h \in DrainedNames : h # k => next'[h] = next[h]
  <2>1. next' = [next EXCEPT ![k] = n + 1]
    BY DEF RecordStep
  <2>2. next \in [events : Nat \ {0}, blocks : Nat \ {0}] /\ n + 1 \in Nat \ {0}
    BY <1>1, AccountTypes
  <2> HIDE DEF n
  <2> QED
    BY <2>1, <2>2 DEF DrainedNames
<1>5. /\ counted' \in [events : Nat, blocks : Nat] /\ counted'[k] = counted[k] + 1
      /\ \A h \in DrainedNames : h # k => counted'[h] = counted[h]
  <2>1. counted' = [counted EXCEPT ![k] = counted[k] + 1]
    BY DEF RecordStep
  <2>2. counted \in [events : Nat, blocks : Nat] /\ counted[k] + 1 \in Nat
    BY <1>1, AccountTypes
  <2> QED
    BY <2>1, <2>2 DEF DrainedNames
<1> HIDE DEF l, n
<1>6. /\ written'[k] = Append(written[k], l) /\ Len(written'[k]) = Len(written[k]) + 1
      /\ written'["lifecycle"] = written["lifecycle"]
      /\ \A h \in DrainedNames : h # k => written'[h] = written[h]
  BY <1>1, <1>2, <1>3, AccountTypes
<1>7. /\ Accounts(k, n, written[k], written["lifecycle"]) /\ counted[k] = Len(written[k])
  BY DEF AccountInv, CountsInv, n
<1>8. Accounts(k, n + 1, Append(written[k], l), written["lifecycle"])
  BY <1>1, <1>2, <1>7, AccountsRecord
<1>9. ASSUME NEW h \in DrainedNames
      PROVE  /\ counted'[h] = Len(written'[h]) /\ next'[h] <= Len(trainer[h]) + 1
             /\ Accounts(h, next'[h], written'[h], written'["lifecycle"])
  <2>1. CASE h = k
    <3>1. counted'[k] = Len(written'[k])
      BY <1>5, <1>6, <1>7
    <3>2. next'[k] <= Len(trainer[k]) + 1
      BY <1>1, <1>4
    <3>3. Accounts(k, next'[k], written'[k], written'["lifecycle"])
      BY <1>4, <1>6, <1>8
    <3> QED
      BY <2>1, <3>1, <3>2, <3>3
  <2>2. CASE h # k
    BY <1>4, <1>5, <1>6, <2>2 DEF AccountInv, CountsInv
  <2> QED
    BY <2>1, <2>2
<1> QED
  BY <1>4, <1>5, <1>9 DEF RecordStep, CountsInv

LEMMA ExclusionCounts ==
  ASSUME AccountInv, NEW k \in DrainedNames, ExclusionStep(k)
  PROVE  CountsInv'
<1> DEFINE n == next[k]
           l == Line("lifecycle", <<k, n>>)
           a == written["lifecycle"]
<1>1. /\ a \in Seq(Lines) /\ n \in Nat \ {0} /\ n <= Len(trainer[k]) /\ Len(trainer[k]) \in Nat
  BY AccountTypes DEF ExclusionStep
<1>2. l \in Lines /\ l.of = <<k, n>> /\ l.of[1] = k
  BY <1>1 DEF Line, Lines, Holds
<1>3. written' = [written EXCEPT !["lifecycle"] = Append(@, l)]
  BY DEF ExclusionStep, Succeeds
<1>4. /\ next' \in [events : Nat \ {0}, blocks : Nat \ {0}] /\ next'[k] = n + 1
      /\ \A h \in DrainedNames : h # k => next'[h] = next[h]
  BY <1>1, AccountTypes DEF ExclusionStep, DrainedNames
<1> HIDE DEF l, n
<1>5. /\ written'["lifecycle"] = Append(a, l)
      /\ \A h \in DrainedNames : written'[h] = written[h]
  BY <1>3, AccountTypes
<1>6. \A h \in DrainedNames : Accounts(h, next[h], written[h], a)
  BY DEF AccountInv, CountsInv
<1> HIDE DEF a
<1>7. Accounts(k, n + 1, written[k], Append(a, l))
  <2>1. Accounts(k, n, written[k], a)
    BY <1>6 DEF n
  <2> QED
    BY <1>1, <1>2, <2>1, AccountsExclusion
<1>8. ASSUME NEW h \in DrainedNames
      PROVE  /\ counted'[h] = Len(written'[h]) /\ next'[h] <= Len(trainer[h]) + 1
             /\ Accounts(h, next'[h], written'[h], Append(a, l))
  <2>1. counted'[h] = Len(written'[h])
    BY <1>5 DEF AccountInv, CountsInv, ExclusionStep
  <2>2. CASE h = k
    BY <1>1, <1>4, <1>5, <1>7, <2>1, <2>2
  <2>3. CASE h # k
    <3>1. Accounts(h, next[h], written[h], Append(a, l))
      BY <1>1, <1>2, <1>6, <2>3, AccountsNote
    <3> QED
      BY <1>4, <1>5, <2>1, <2>3, <3>1 DEF AccountInv, CountsInv
  <2> QED
    BY <2>2, <2>3
<1> QED
  BY <1>4, <1>5, <1>8 DEF ExclusionStep, AccountInv, CountsInv

(***************************************************************************)
(* What a step makes of the files, and of what is still to be drained.     *)
(***************************************************************************)
FilesKept ==
  \A j \in Journals :
    \/ file'[j] = file[j] /\ written'[j] = written[j]
    \/ writer'[j] # "none" \/ file'[j].place # "final"
    \/ Len(file'[j].lines) = Len(written'[j])

LEMMA SucceedsFiles ==
  ASSUME JournalInv, NEW j \in Journals, NEW of, Succeeds(j, of)
  PROVE  FilesKept
BY DEF JournalInv, JournalsSound, Succeeds, FilesKept

LEMMA FailsFiles ==
  ASSUME JournalInv, NEW j \in Journals, Fails(j)
  PROVE  FilesKept /\ written' = written
BY DEF JournalInv, JournalsSound, Fails, FilesKept

LEMMA CheckpointsFiles ==
  ASSUME JournalInv, NEW j \in Journals, Checkpoints(j)
  PROVE  FilesKept /\ written' = written
BY DEF JournalInv, JournalsSound, Checkpoints, FilesKept

LEMMA PublishesFiles ==
  ASSUME JournalInv, NEW j \in Journals, Publishes(j)
  PROVE  FilesKept /\ written' = written
<1>1. /\ file[j] \in Files /\ writer[j] = "open" /\ file \in [Journals -> Files]
      /\ Sound(trainer, j, file[j], written[j], "open")
  BY DEF JournalInv, JournalsSound, Publishes
<1>2. Len(file[j].lines) = Len(written[j])
  BY <1>1 DEF Sound
<1>3. [Flushed(file[j]) EXCEPT !.place = "final"].lines = file[j].lines
  BY <1>1 DEF Flushed, Files
<1>4. file' = [file EXCEPT ![j] = [Flushed(file[j]) EXCEPT !.place = "final"]] /\ written' = written
  BY DEF Publishes
<1> QED
  BY <1>1, <1>2, <1>3, <1>4 DEF FilesKept

LEMMA DisableFiles ==
  ASSUME JournalInv, DisableRawInputWitness
  PROVE  FilesKept /\ written' = written
<1>1. NoFile.place = "none"
  BY DEF NoFile
<1> QED
  BY <1>1 DEF JournalInv, JournalsSound, DisableRawInputWitness, FilesKept

LEMMA StorageQuiet ==
  ASSUME AccountInv, StorageFails, written' = written
  PROVE  QuietStep /\ session' \notin {"finalizing", "finalized"}
<1>1. Grows(trainer, trainer')
  <2>1. CASE session = "finalizing"
    BY <2>1 DEF StorageFails, Grows
  <2>2. CASE session # "finalizing"
    BY <2>2, PausedGrows DEF StorageFails, AccountInv, JournalInv, ControlTypes
  <2> QED
    BY <2>1, <2>2
<1> QED
  BY <1>1 DEF StorageFails, QuietStep

LEMMA ContinuesQuiet ==
  ASSUME UNCHANGED <<drainVars, written>>
  PROVE  QuietStep
BY DEF drainVars, QuietStep, Grows

LEMMA TailDrains ==
  ASSUME todo \in Seq(Calls), todo # <<>>, todo' = Tail(todo), Has(todo, Drain),
         Head(todo) # Drain
  PROVE  Has(todo, Drain)'
<1>1. PICK i \in 1..Len(todo) : todo[i] = Drain
  BY DEF Has
<1>2. i # 1
  BY <1>1
<1>3. i - 1 \in 1..Len(Tail(todo)) /\ Tail(todo)[i - 1] = todo[i]
  BY <1>1, <1>2
<1> QED
  BY <1>1, <1>3 DEF Has, Drain

StepKind ==
  \/ QuietStep
  \/ NoteStep
  \/ \E k \in DrainedNames : RecordStep(k) \/ ExclusionStep(k)

StillDrains ==
  /\ session' = "finalizing" => Has(todo, Drain)' \/ AllDrained'
  /\ session' = "finalized" => AllDrained'

LEMMA DrainKinds ==
  ASSUME AccountInv, todo # <<>>, Head(todo) = Drain, DrainRecords
  PROVE  StepKind /\ FilesKept /\ StillDrains
<1> DEFINE j == ToDrain
           target == IF Validates(j, next[j]) THEN j ELSE "lifecycle"
<1>1. JournalInv /\ todo \in Seq(Calls) /\ Has(todo, Drain)
  BY DEF AccountInv, JournalInv, ControlTypes, Has
<1>2. j \in DrainedNames /\ target \in Journals /\ "lifecycle" \notin DrainedNames
  BY AccountTypes DEF ToDrain, DrainedNames
<1>3. CASE /\ AllDrained /\ todo' = Tail(todo) /\ Continues
           /\ UNCHANGED <<writer, file, written, faulted>>
  <2>1. QuietStep /\ FilesKept
    BY <1>3, ContinuesQuiet DEF Continues, FilesKept
  <2>2. AllDrained'
    BY <1>3 DEF Continues, drainVars, AllDrained, ToDrain
  <2> QED
    BY <2>1, <2>2 DEF StepKind, StillDrains
<1>4. CASE /\ ~AllDrained
           /\ IF target = j
                THEN Succeeds(j, <<next[j]>>) /\ counted' = [counted EXCEPT ![j] = @ + 1]
                ELSE Excludes(j)
           /\ next' = [next EXCEPT ![j] = @ + 1]
           /\ UNCHANGED <<session, todo, trainer, storageFailed>>
  <2>1. next[j] <= Len(trainer[j])
    <3>1. CASE j = "events"
      BY <3>1 DEF ToDrain
    <3>2. CASE j = "blocks"
      <4>1. next.blocks \in Nat /\ Len(trainer.blocks) \in Nat
        BY AccountTypes DEF DrainedNames
      <4> QED
        BY <1>4, <3>2, <4>1 DEF AllDrained
    <3> QED
      BY <1>2, <3>1, <3>2 DEF DrainedNames
  <2>2. StillDrains
    <3>1. session # "finalized"
      BY <1>4, <2>1 DEF AccountInv, FinishInv
    <3> QED
      BY <1>1, <1>4, <3>1 DEF StillDrains, Has, Drain
  <2>3. CASE target = j
    BY <1>1, <1>2, <1>4, <2>1, <2>2, <2>3, SucceedsFiles DEF RecordStep, StepKind
  <2>4. CASE target # j
    BY <1>1, <1>2, <1>4, <2>1, <2>2, <2>4, SucceedsFiles, AccountTypes
       DEF Excludes, ExclusionStep, StepKind
  <2> QED
    BY <2>3, <2>4
<1>5. CASE ~AllDrained /\ Fails(target) /\ StorageFails
  BY <1>1, <1>2, <1>5, FailsFiles, StorageQuiet DEF StepKind, StillDrains
<1> QED
  BY <1>3, <1>4, <1>5 DEF DrainRecords

LEMMA FileStepKinds ==
  ASSUME AccountInv, FileStep
  PROVE  StepKind /\ FilesKept /\ StillDrains
<1>1. JournalInv /\ todo \in Seq(Calls) /\ todo # <<>>
  BY DEF AccountInv, JournalInv, ControlTypes, FileStep
<1>2. Head(todo) \in Calls
  BY <1>1
\* The call goes on, and it was not to drain.
<1>3. ASSUME Continues, todo' = Tail(todo), Head(todo) # Drain PROVE StillDrains
  <2>1. session' = session /\ AllDrained' = AllDrained
    BY <1>3 DEF Continues, drainVars, AllDrained, ToDrain
  <2>2. Has(todo, Drain) => Has(todo, Drain)'
    BY <1>1, <1>3, TailDrains
  <2> QED
    BY <2>1, <2>2 DEF AccountInv, FinishInv, StillDrains
<1>4. CASE Head(todo) = Drain
  BY <1>1, <1>4, DrainKinds DEF FileStep, Drain
<1>5. CASE Head(todo) = <<"annotate", "lifecycle">>
  <2>1. \/ Succeeds("lifecycle", <<>>) /\ todo' = Tail(todo) /\ Continues
        \/ Fails("lifecycle") /\ StorageFails
    BY <1>5 DEF FileStep
  <2>2. "lifecycle" \in Journals /\ Head(todo) # Drain
    BY <1>5, AccountTypes DEF Drain
  <2>3. CASE Succeeds("lifecycle", <<>>) /\ todo' = Tail(todo) /\ Continues
    BY <1>1, <1>3, <2>2, <2>3, SucceedsFiles DEF NoteStep, StepKind, Continues, drainVars
  <2>4. CASE Fails("lifecycle") /\ StorageFails
    BY <1>1, <2>2, <2>4, FailsFiles, StorageQuiet DEF StepKind, StillDrains
  <2> QED
    BY <2>1, <2>3, <2>4
<1>6. CASE Head(todo) \in {"flush", "publish"} \X Journals
  <2>1. PICK op \in {"flush", "publish"}, j \in Journals : Head(todo) = <<op, j>>
    BY <1>6
  <2>2. Head(todo) # Drain
    BY <2>1 DEF Drain
  <2>3. \/ /\ IF writer[j] = "none" THEN UNCHANGED <<writer, file, written, faulted>>
              ELSE IF op = "flush" THEN Checkpoints(j) ELSE Publishes(j)
           /\ todo' = Tail(todo) /\ Continues
        \/ StepFails(j)
    BY <2>1 DEF FileStep
  <2>4. ASSUME FilesKept, written' = written, todo' = Tail(todo), Continues
        PROVE  StepKind /\ FilesKept /\ StillDrains
    BY <1>3, <2>2, <2>4, ContinuesQuiet DEF StepKind, Continues
  <2>5. CASE /\ IF writer[j] = "none" THEN UNCHANGED <<writer, file, written, faulted>>
                ELSE IF op = "flush" THEN Checkpoints(j) ELSE Publishes(j)
             /\ todo' = Tail(todo) /\ Continues
    <3>1. UNCHANGED <<writer, file, written, faulted>> => FilesKept
      BY DEF FilesKept
    <3>2. FilesKept /\ written' = written
      BY <1>1, <2>5, <3>1, CheckpointsFiles, PublishesFiles
    <3> QED
      BY <2>4, <2>5, <3>2
  <2>6. CASE StepFails(j)
    <3>1. CASE j = "witness"
      BY <1>1, <2>4, <2>6, <3>1, DisableFiles DEF StepFails
    <3>2. CASE j # "witness"
      <4>1. StaysUnfinished(j) => FilesKept /\ written' = written
        BY DEF StaysUnfinished, FilesKept
      <4>2. FilesKept /\ written' = written /\ StorageFails
        BY <1>1, <2>6, <3>2, <4>1, FailsFiles DEF StepFails
      <4> QED
        BY <4>2, StorageQuiet DEF StepKind, StillDrains
    <3> QED
      BY <3>1, <3>2
  <2> QED
    BY <2>3, <2>5, <2>6
<1> QED
  BY <1>2, <1>4, <1>5, <1>6 DEF Calls, Drain

\* Steps that write nothing.
LEMMA PlainKinds ==
  ASSUME AccountInv, UNCHANGED <<next, counted, writer, file, written>>, Grows(trainer, trainer'),
         session' \notin {"finalizing", "finalized"}
  PROVE  StepKind /\ FilesKept /\ StillDrains
BY DEF StepKind, QuietStep, FilesKept, StillDrains

LEMMA EventsGrow ==
  ASSUME AccountInv, trainer' \in Paused(trainer)
  PROVE  Grows(trainer, trainer')
BY PausedGrows DEF AccountInv, JournalInv, ControlTypes

LEMMA OpenKinds == ASSUME AccountInv, OpenJournals PROVE StepKind /\ FilesKept /\ StillDrains
<1>1. NewFile.place = "partial" /\ NoFile.place = "none"
  BY DEF NewFile, NoFile
<1>2. FilesKept
  BY <1>1 DEF OpenJournals, FilesKept
<1>3. QuietStep
  BY ContinuesQuiet DEF OpenJournals
<1> QED
  BY <1>2, <1>3 DEF StepKind, StillDrains, OpenJournals

LEMMA BlockKinds ==
  ASSUME AccountInv, NEW b \in BlockResults, CompleteBlock(b)
  PROVE  StepKind /\ FilesKept /\ StillDrains
<1>1. trainer \in Trainers /\ trainer.blocks \in Seq(BlockResults)
  BY DEF AccountInv, JournalInv, ControlTypes, Trainers
<1>2. \A n \in DOMAIN trainer.blocks : /\ n \in DOMAIN Append(trainer.blocks, b)
                                       /\ Append(trainer.blocks, b)[n] = trainer.blocks[n]
  BY <1>1
<1>3. trainer'.blocks = Append(trainer.blocks, b) /\ trainer'.events = trainer.events
  BY <1>1 DEF CompleteBlock, Trainers
<1>4. Grows(trainer, trainer')
  BY <1>2, <1>3 DEF Grows
<1> QED
  BY <1>4, PlainKinds DEF CompleteBlock, Records

LEMMA EventKinds ==
  ASSUME AccountInv, NEW e \in TrainerEvents, FinalizeEvent(e)
  PROVE  StepKind /\ FilesKept /\ StillDrains
<1>1. trainer' \in Paused(trainer)
  BY DEF FinalizeEvent, Paused, Records
<1> QED
  BY <1>1, EventsGrow, PlainKinds DEF FinalizeEvent, Records

LEMMA AnnotateKinds == ASSUME AccountInv, Annotate PROVE StepKind /\ FilesKept /\ StillDrains
<1>1. JournalInv /\ "lifecycle" \in Journals /\ session \notin {"finalizing", "finalized"}
  BY AccountTypes DEF AccountInv, Annotate, Idle
<1>2. CASE Succeeds("lifecycle", <<>>) /\ Continues /\ UNCHANGED todo
  BY <1>1, <1>2, SucceedsFiles DEF Continues, drainVars, NoteStep, StepKind, StillDrains
<1>3. CASE Fails("lifecycle") /\ StorageFails
  BY <1>1, <1>3, FailsFiles, StorageQuiet DEF StepKind, StillDrains
<1> QED
  BY <1>2, <1>3 DEF Annotate

\* A line in a journal that has no part in the accounts.
LEMMA OtherLine ==
  ASSUME AccountInv, NEW j \in Journals \ Told, Succeeds(j, <<>>), Continues
  PROVE  QuietStep /\ FilesKept
<1>1. written \in [Journals -> Seq(Lines)] /\ \A k \in Told : k \in Journals
  BY AccountTypes DEF Told, DrainedNames
<1>2. \A k \in Told : written'[k] = written[k]
  BY <1>1 DEF Succeeds
<1> QED
  BY <1>2, SucceedsFiles DEF AccountInv, QuietStep, Continues, drainVars, Grows

LEMMA AnchorKinds == ASSUME AccountInv, AddClockAnchor PROVE StepKind /\ FilesKept /\ StillDrains
<1>1. /\ JournalInv /\ "anchors" \in Journals \ Told
      /\ session \notin {"finalizing", "finalized"}
  BY JournalNames DEF AccountInv, AddClockAnchor, Idle, Told
<1>2. CASE Succeeds("anchors", <<>>) /\ Continues /\ UNCHANGED todo
  BY <1>1, <1>2, OtherLine DEF Continues, StepKind, StillDrains
<1>3. CASE Fails("anchors") /\ StorageFails
  BY <1>1, <1>3, FailsFiles, StorageQuiet DEF StepKind, StillDrains
<1> QED
  BY <1>2, <1>3 DEF AddClockAnchor

LEMMA WitnessKinds == ASSUME AccountInv, RawInputWitness PROVE StepKind /\ FilesKept /\ StillDrains
<1>1. JournalInv /\ "witness" \in Journals \ Told /\ Continues /\ session = "recording"
  BY JournalNames DEF AccountInv, RawInputWitness, Records, Told
<1>2. StillDrains
  BY <1>1 DEF Continues, StillDrains
<1>3. CASE Succeeds("witness", <<>>)
  BY <1>1, <1>2, <1>3, OtherLine DEF StepKind
<1>4. ASSUME FilesKept, written' = written PROVE StepKind /\ FilesKept /\ StillDrains
  BY <1>1, <1>2, <1>4, ContinuesQuiet DEF Continues, StepKind
<1>5. UNCHANGED <<writer, file, written, faulted>> => FilesKept /\ written' = written
  BY DEF FilesKept
<1> QED
  BY <1>1, <1>3, <1>4, <1>5, DisableFiles DEF RawInputWitness

LEMMA FinalizeKinds == ASSUME AccountInv, TryFinalize PROVE StepKind /\ FilesKept /\ StillDrains
<1> DEFINE s == <<Drain>> \o Flush(Gameplay)
           t == s \o Publish(Gameplay)
           r == Publish(<<"anchors">>)
<1>1. <<Drain>> \in Seq(Calls) /\ Has(<<Drain>>, Drain)
  BY CallTypes DEF Has
<1>2. /\ Flush(Gameplay) \in Seq(Calls) /\ Publish(Gameplay) \in Seq(Calls)
      /\ r \in Seq(Calls)
  BY CallTypes, JournalNames, ListedCalls
<1>3. s \in Seq(Calls) /\ Has(s, Drain)
  BY <1>1, <1>2, HasConcat
<1>4. todo' = t \o r
  BY DEF TryFinalize
<1> HIDE DEF s, r
<1>5. t \in Seq(Calls) /\ Has(t, Drain)
  BY <1>2, <1>3, HasConcat
<1> HIDE DEF t
<1>6. Has(todo', Drain)
  BY <1>2, <1>4, <1>5, HasConcat
<1>7. StillDrains
  BY <1>6 DEF StillDrains, TryFinalize, Drain, Has
<1> QED
  BY <1>7, ContinuesQuiet DEF StepKind, TryFinalize, FilesKept

LEMMA FinalizedKinds == ASSUME AccountInv, Finalized PROVE StepKind /\ FilesKept /\ StillDrains
<1>1. ~Has(todo, Drain)
  BY DEF Finalized, Has
<1>2. AllDrained /\ AllDrained' = AllDrained
  BY <1>1 DEF Finalized, AccountInv, FinishInv, drainVars, AllDrained, ToDrain
<1> QED
  BY <1>2, ContinuesQuiet DEF StepKind, Finalized, FilesKept, StillDrains

LEMMA NextKinds ==
  ASSUME AccountInv, [JournalNext]_journalVars
  PROVE  StepKind /\ FilesKept /\ StillDrains
<1>1. CASE UNCHANGED journalVars
  <2>1. AllDrained' = AllDrained /\ (Has(todo, Drain)' <=> Has(todo, Drain))
    BY <1>1 DEF journalVars, AllDrained, ToDrain, Has, Drain
  <2> QED
    BY <1>1, <2>1, ContinuesQuiet
       DEF journalVars, drainVars, StepKind, FilesKept, StillDrains, AccountInv, FinishInv
<1>2. ASSUME NEW e \in TrainerEvents, FinalizeEvent(e) PROVE StepKind /\ FilesKept /\ StillDrains
  BY <1>2, EventKinds
<1>3. ASSUME NEW b \in BlockResults, CompleteBlock(b) PROVE StepKind /\ FilesKept /\ StillDrains
  BY <1>3, BlockKinds
<1>4. CASE TryStart \/ Checkpoint
  <2>1. Grows(trainer, trainer') /\ session' \notin {"finalizing", "finalized"}
    BY <1>4 DEF TryStart, Checkpoint, Continues, drainVars, Records, Grows
  <2> QED
    BY <1>4, <2>1, PlainKinds DEF TryStart, Checkpoint, Continues, drainVars
<1>5. CASE BeginStop
  BY <1>5, EventsGrow, PlainKinds DEF BeginStop
<1> QED
  BY <1>1, <1>2, <1>3, <1>4, <1>5, OpenKinds, AnnotateKinds, WitnessKinds, AnchorKinds,
     FinalizeKinds, FileStepKinds, FinalizedKinds DEF JournalNext, Over

LEMMA AccountsKept == AccountInv /\ [JournalNext]_journalVars => AccountInv'
<1> SUFFICES ASSUME AccountInv, [JournalNext]_journalVars PROVE AccountInv'
  OBVIOUS
<1>1. JournalInv'
  BY NextKeeps DEF AccountInv
<1>2. StepKind /\ FilesKept /\ StillDrains
  BY NextKinds
<1>3. CountsInv'
  BY <1>1, <1>2, QuietCounts, NoteCounts, RecordCounts, ExclusionCounts DEF StepKind
<1>4. ASSUME NEW j \in Journals, file'[j].place = "final"
      PROVE  Len(file'[j].lines) = Len(written'[j])
  <2>1. writer'[j] = "none"
    BY <1>1, <1>4 DEF JournalInv, JournalsSound, Sound
  <2> QED
    BY <1>2, <1>4, <2>1 DEF FilesKept, AccountInv, FinishInv
<1>5. FinishInv'
  BY <1>2, <1>4 DEF FinishInv, StillDrains
<1> QED
  BY <1>1, <1>3, <1>5 DEF AccountInv

LEMMA AccountsOpen == JournalInit => AccountInv
<1> SUFFICES ASSUME JournalInit PROVE AccountInv
  OBVIOUS
<1>1. JournalInv
  BY InitKeeps
<1>2. Len(<<>>) = 0 /\ NoFile.place = "none" /\ "lifecycle" \in Journals /\ DrainedNames \subseteq Journals
  BY JournalNames DEF NoFile, DrainedNames
<1>3. \A k : Accounts(k, 1, <<>>, <<>>)
  BY DEF Accounts, Out
<1>4. CountsInv
  BY <1>2, <1>3 DEF JournalInit, CountsInv, DrainedNames
<1>5. FinishInv
  BY <1>2 DEF JournalInit, FinishInv
<1> QED
  BY <1>1, <1>4, <1>5 DEF AccountInv

LEMMA InvAccounts == AccountInv => RecordsAreAccountedFor
<1> SUFFICES ASSUME AccountInv, session = "finalized" PROVE RecordsAreAccountedFor
  BY DEF RecordsAreAccountedFor
<1> DEFINE kept(k) == file[k].lines
           notes   == file["lifecycle"].lines
           out(k)  == {i \in DOMAIN notes : notes[i].of # <<>> /\ notes[i].of[1] = k}
\* A finished journal holds all its lines.
<1>1. ASSUME NEW j \in DrainedNames \cup {"lifecycle"}
      PROVE  file[j].lines = written[j] /\ DOMAIN written[j] = 1..Len(written[j])
  <2>1. j \in Journals /\ j # "witness"
    BY AccountTypes DEF DrainedNames
  <2>2. file[j].place = "final" /\ Len(file[j].lines) = Len(written[j])
    BY <2>1 DEF AccountInv, JournalInv, GateInv, FinishInv
  <2>3. /\ file[j].lines \in Seq(Lines) /\ written[j] \in Seq(Lines)
        /\ \A i \in 1..Len(file[j].lines) : file[j].lines[i] = written[j][i]
    BY <2>1 DEF AccountInv, JournalInv, JournalsSound, Sound, Files
  <2> QED
    BY <2>2, <2>3
<1>2. ASSUME NEW k \in DrainedNames PROVE DOMAIN trainer[k] = 1..(next[k] - 1)
  <2>1. /\ next[k] > Len(trainer[k]) /\ next[k] <= Len(trainer[k]) + 1
        /\ next[k] \in Nat /\ Len(trainer[k]) \in Nat
    <3>1. AllDrained
      BY DEF AccountInv, FinishInv
    <3>2. /\ next.events \in Nat /\ Len(trainer.events) \in Nat
          /\ next.blocks \in Nat /\ Len(trainer.blocks) \in Nat
      BY AccountTypes DEF DrainedNames
    <3>3. next.events > Len(trainer.events) /\ next.blocks > Len(trainer.blocks)
      BY <3>1, <3>2 DEF AllDrained, ToDrain
    <3>4. next[k] <= Len(trainer[k]) + 1
      BY DEF AccountInv, CountsInv
    <3> QED
      BY <3>2, <3>3, <3>4 DEF DrainedNames
  <2>2. DOMAIN trainer[k] = 1..Len(trainer[k])
    BY DEF AccountInv, JournalInv, ControlTypes, Trainers, DrainedNames
  <2> QED
    BY <2>1, <2>2
<1>3. ASSUME NEW k \in DrainedNames
      PROVE  /\ counted[k] = Len(kept(k))
             /\ \A i \in DOMAIN kept(k) : kept(k)[i].of[1] \in DOMAIN trainer[k]
             /\ \A i \in out(k) : notes[i].of[2] \in DOMAIN trainer[k]
             /\ \A n \in DOMAIN trainer[k] :
                  (\E i \in DOMAIN kept(k) : kept(k)[i].of[1] = n)
                    <=> ~\E i \in out(k) : notes[i].of[2] = n
             /\ \A i, l \in DOMAIN kept(k) : i < l => kept(k)[i].of[1] < kept(k)[l].of[1]
             /\ \A i, l \in out(k) : i < l => notes[i].of[2] < notes[l].of[2]
  <2>1. counted[k] = Len(written[k]) /\ Accounts(k, next[k], written[k], written["lifecycle"])
    BY DEF AccountInv, CountsInv
  <2>2. kept(k) = written[k] /\ DOMAIN kept(k) = 1..Len(kept(k))
    BY <1>1
  <2>3. notes = written["lifecycle"] /\ out(k) = Out(k, notes)
    BY <1>1 DEF Out
  <2>4. DOMAIN trainer[k] = 1..(next[k] - 1)
    BY <1>2
  <2>5. DOMAIN kept(k) = 1..Len(written[k])
    BY <2>2
  <2> HIDE DEF kept, notes, out
  <2>6. /\ \A i \in DOMAIN kept(k) : kept(k)[i].of[1] \in DOMAIN trainer[k]
        /\ \A i, l \in DOMAIN kept(k) : i < l => kept(k)[i].of[1] < kept(k)[l].of[1]
    BY <2>1, <2>2, <2>4, <2>5 DEF Accounts
  <2>7. /\ \A i \in out(k) : notes[i].of[2] \in DOMAIN trainer[k]
        /\ \A i, l \in out(k) : i < l => notes[i].of[2] < notes[l].of[2]
    BY <2>1, <2>3, <2>4 DEF Accounts
  <2>8. ASSUME NEW n \in DOMAIN trainer[k]
        PROVE  (\E i \in DOMAIN kept(k) : kept(k)[i].of[1] = n)
                 <=> ~\E i \in out(k) : notes[i].of[2] = n
    <3>1. (\E i \in 1..Len(written[k]) : written[k][i].of[1] = n)
            <=> ~\E i \in Out(k, written["lifecycle"]) : written["lifecycle"][i].of[2] = n
      BY <2>1, <2>4 DEF Accounts
    <3>2. (\E i \in DOMAIN kept(k) : kept(k)[i].of[1] = n)
            <=> \E i \in 1..Len(written[k]) : written[k][i].of[1] = n
      BY <2>2, <2>5
    <3>3. (\E i \in out(k) : notes[i].of[2] = n)
            <=> \E i \in Out(k, written["lifecycle"]) : written["lifecycle"][i].of[2] = n
      BY <2>3
    <3> QED
      BY <3>1, <3>2, <3>3
  <2> QED
    BY <2>1, <2>2, <2>6, <2>7, <2>8
<1>4. ToSet(Drained) = DrainedNames
  BY DEF ToSet, Drained, DrainedNames
<1> QED
  BY <1>3, <1>4 DEF RecordsAreAccountedFor

\* For any records, of which any may be invalid, and any failures of the files: when a
\* session has finished its journals, every event and block the trainer handed over is
\* in its journal or named by one annotation that excludes it, never both, each in the
\* trainer's order and nothing else beside them, and the counts that the manifest takes
\* are the lengths of the files (DrainFinalizedTrainerRecords, TryFinalize).
THEOREM RecordsAreAlwaysAccountedFor == JournalSpec => []RecordsAreAccountedFor
<1>1. JournalInit => AccountInv
  BY AccountsOpen
<1>2. AccountInv /\ [JournalNext]_journalVars => AccountInv'
  BY AccountsKept
<1>3. AccountInv => RecordsAreAccountedFor
  BY InvAccounts
<1> QED
  BY <1>1, <1>2, <1>3, PTL DEF JournalSpec
=============================================================================
