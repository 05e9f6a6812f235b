----------------------------- MODULE ResearchExport -----------------------------
(***************************************************************************)
(* ExportResearchSession: the offline conversion of a sealed session into  *)
(* an interchange directory. It validates and reads the source, derives    *)
(* everything, and only then writes a staging directory that it renames.   *)
(* Several exports of the source may run at once, into the same place,     *)
(* into places whose staging names collide, or one inside the place or the *)
(* staging directory of another; each may fail at any file operation, and  *)
(* may be killed. A path is the sequence of the names along it, and a name *)
(* the sequence of its parts, so that a suffix can be told.                *)
(***************************************************************************)
EXTENDS Integers, Sequences, SequencesExt

CONSTANTS
  Exporters,  \* processes that export the session
  Outputs,    \* where they may be told to put it
  Sources,    \* sources they may be given
  Session,    \* the directory of the source
  Standing,   \* the directories that are there before any export
  MayDie      \* whether a process may be killed

ASSUME ExportAssumption ==
  /\ "nobody" \notin Exporters
  /\ Outputs \subseteq Seq(Seq(STRING)) /\ \A output \in Outputs : Len(output) > 1
  /\ Standing \subseteq Seq(Seq(STRING)) /\ Session \in Standing
  /\ \A path \in Standing : \A n \in 1..Len(path) : SubSeq(path, 1, n) \in Standing

VARIABLES
  source,   \* the sealed session: what the validation and the readers find
  target,   \* output_directory of each export
  pc,       \* where each export is
  written,  \* how many of its artifacts it has written
  dirs,     \* the directories there are, each with who made it and its own files
  faulted   \* history: <<p, what>>, an operation of export p that failed, or its death

exportVars == <<source, target, pc, written, dirs, faulted>>

\* The staging directory stands beside the output and has one more suffix.
Staging(p) == [target[p] EXCEPT ![Len(target[p])] = Append(@, "partial")]

\* IsWithin: a path is within itself, too.
Within(path, root) == Len(root) <= Len(path) /\ \A i \in 1..Len(root) : path[i] = root[i]
Inside(path, root) == Within(path, root) /\ Len(root) < Len(path)

\* The first n directories on the way to a path.
Along(path, n) == {SubSeq(path, 1, i) : i \in 1..n}
Above(p) == Along(target[p], Len(target[p]) - 1)

Exists(path) == path \in DOMAIN dirs
Beneath(root) == {path \in DOMAIN dirs : Within(path, root)}

New(p) == [by |-> p, files |-> {}, listed |-> {}]

\* create_directories, by p: those that are missing are made.
Created(paths, p) ==
  [path \in DOMAIN dirs \cup paths |-> IF Exists(path) THEN dirs[path] ELSE New(p)]

\* The order in which the staging directory is filled; the manifest lists what
\* the directory holds by then.
Manifest == "export_manifest.json"
ClockFit == "clock_fit.json"
\* Mutant: the inventory is taken before the last copies.
InventoryFirst == <<"mouse_1ms.csv", "trainer_events.csv", "block_results.csv", ClockFit,
                    "source_manifest.json", "source_events.jsonl", Manifest,
                    "source_blocks.jsonl", "source_anchors.jsonl">>
Artifacts == <<"mouse_1ms.csv", "trainer_events.csv", "block_results.csv", ClockFit,
               "source_manifest.json", "source_events.jsonl", "source_blocks.jsonl",
               "source_anchors.jsonl", Manifest>>
Copies == {"source_manifest.json", "source_events.jsonl", "source_blocks.jsonl",
           "source_anchors.jsonl"}

Goto(p, where) == pc' = [pc EXCEPT ![p] = where]
Fault(p, what) == faulted' = faulted \cup {<<p, what>>}

(***************************************************************************)
(* Before anything is created.                                             *)
(***************************************************************************)
\* ValidateSealedSession, and the artifacts an export needs.
Validate(p) ==
  /\ pc[p] = "validate"
  /\ Goto(p, IF source.sealed /\ source.required THEN "place" ELSE "failed")
  /\ UNCHANGED <<source, target, written, dirs, faulted>>

\* The output must not be within the source, and must not exist. It may be inside
\* any other directory, that of another export included.
PlaceOutput(p) ==
  /\ pc[p] = "place"
  /\ Goto(p, IF Within(target[p], Session) \/ Exists(target[p]) THEN "failed" ELSE "read")
  /\ UNCHANGED <<source, target, written, dirs, faulted>>

\* The decoded reports are a convenience: the export goes on without those that
\* cannot be read. Readable ones must agree with the manifest.
ReportsAllow ==
  \/ source.reports \in {"none", "unreadable"}
  \/ source.reports = "readable" /\ source.dense

\* The journals and the identities in them, the clock fit and the dense bins,
\* whose number is limited.
ReadSource(p) ==
  /\ pc[p] = "read"
  /\ Goto(p, IF source.records = "agree" /\ ReportsAllow THEN "parents" ELSE "failed")
  /\ UNCHANGED <<source, target, written, dirs, faulted>>

(***************************************************************************)
(* The directories the output is to stand in, and the staging directory.   *)
(* An export that did not create the latter leaves it alone; the former    *)
(* nobody removes.                                                         *)
(***************************************************************************)
\* create_directories(output_parent), which may fail after the first ones.
CreateParents(p) ==
  /\ pc[p] = "parents"
  /\ \/ dirs' = Created(Above(p), p) /\ Goto(p, "inspect") /\ UNCHANGED faulted
     \/ /\ \E n \in 0..(Len(target[p]) - 2) : dirs' = Created(Along(target[p], n), p)
        /\ Goto(p, "failed") /\ Fault(p, "parents")
  /\ UNCHANGED <<source, target, written>>

Inspect(p) ==
  /\ pc[p] = "inspect"
  /\ Goto(p, IF Exists(Staging(p)) THEN "failed" ELSE "create")
  /\ UNCHANGED <<source, target, written, dirs, faulted>>

\* create_directory needs a parent, and returns false where there is a directory.
CanCreate(p) ==
  ~Exists(Staging(p)) /\ Exists(SubSeq(target[p], 1, Len(target[p]) - 1))

\* Mutant: a directory that is there already is taken for the new one.
CreateStagingAnyway(p) ==
  /\ pc[p] = "create"
  /\ dirs' = Created({Staging(p)}, p)
  /\ Goto(p, "write")
  /\ UNCHANGED <<source, target, written, faulted>>

CreateStaging(p) ==
  /\ pc[p] = "create"
  /\ \/ CanCreate(p) /\ dirs' = Created({Staging(p)}, p) /\ Goto(p, "write") /\ UNCHANGED faulted
     \/ ~CanCreate(p) /\ Goto(p, "failed") /\ UNCHANGED <<dirs, faulted>>
     \/ Goto(p, "failed") /\ Fault(p, "create") /\ UNCHANGED dirs
  /\ UNCHANGED <<source, target, written>>

(***************************************************************************)
(* The artifacts. The staging directory may be gone: another export has    *)
(* renamed or removed a directory it stands in.                            *)
(***************************************************************************)
With(dir, artifact) ==
  [dir EXCEPT !.files = dir.files \cup {artifact},
              !.listed = IF artifact = Manifest THEN dir.files ELSE dir.listed]

NextArtifact(p) == Artifacts[written[p] + 1]

\* A copy does not replace what is there.
CanPut(p) ==
  /\ Exists(Staging(p))
  /\ NextArtifact(p) \in Copies => NextArtifact(p) \notin dirs[Staging(p)].files

Puts(p) == dirs' = [dirs EXCEPT ![Staging(p)] = With(@, NextArtifact(p))]

\* AtomicWriteFile makes the directories of the file it writes. The manifest is
\* written so, too, but the inventory before it needs the directory.
CanRecreate(p) == ~Exists(Staging(p)) /\ NextArtifact(p) = ClockFit

Recreates(p) ==
  dirs' = [Created(Along(Staging(p), Len(target[p])), p) EXCEPT
             ![Staging(p)] = With(New(p), ClockFit)]

\* A write that fails may leave its artifact in the directory, which is removed.
WriteArtifact(p) ==
  /\ pc[p] = "write" /\ written[p] < Len(Artifacts)
  /\ \/ /\ \/ CanPut(p) /\ Puts(p)
           \/ CanRecreate(p) /\ Recreates(p)
        /\ written' = [written EXCEPT ![p] = @ + 1]
        /\ UNCHANGED <<pc, faulted>>
     \/ /\ ~CanPut(p) /\ ~CanRecreate(p)
        /\ Goto(p, "remove") /\ UNCHANGED <<dirs, written, faulted>>
     \/ /\ \/ UNCHANGED dirs
           \/ CanRecreate(p) /\ \E n \in 1..Len(target[p]) :
                                   dirs' = Created(Along(Staging(p), n), p)
        /\ Goto(p, "remove") /\ Fault(p, "write") /\ UNCHANGED written
  /\ UNCHANGED <<source, target>>

\* The rename takes along whatever is in the directory: one name in each of the
\* paths changes.
Renamed(path, from, to) == [path EXCEPT ![Len(to)] = to[Len(to)]]

AfterRename(from, to) ==
  [path \in (DOMAIN dirs \ Beneath(from)) \cup {Renamed(path, from, to) : path \in Beneath(from)} |->
     IF Exists(path) THEN dirs[path] ELSE dirs[Renamed(path, to, from)]]

\* The rename does not replace a directory.
CanRename(p) == Exists(Staging(p)) /\ ~Exists(target[p])

\* Mutant: the rename replaces what was published meanwhile, as that of a file does.
PublishReplacing(p) ==
  /\ pc[p] = "write" /\ written[p] = Len(Artifacts)
  /\ dirs' = [AfterRename(Staging(p), target[p]) EXCEPT ![target[p]] = dirs[Staging(p)]]
  /\ Goto(p, "done")
  /\ UNCHANGED <<source, target, written, faulted>>

Publish(p) ==
  /\ pc[p] = "write" /\ written[p] = Len(Artifacts)
  /\ \/ /\ CanRename(p) /\ dirs' = AfterRename(Staging(p), target[p])
        /\ Goto(p, "done") /\ UNCHANGED faulted
     \/ ~CanRename(p) /\ Goto(p, "remove") /\ UNCHANGED <<dirs, faulted>>
     \/ Goto(p, "remove") /\ Fault(p, "rename") /\ UNCHANGED dirs
  /\ UNCHANGED <<source, target, written>>

\* What remove_all leaves where it fails: the directory, perhaps some of those in
\* it, each behind what is in it, and of the files all or none.
PartlyRemoved(root) ==
  \E gone \in SUBSET (Beneath(root) \ {root}), kept \in {{}, ToSet(Artifacts)} :
    /\ \A path \in gone : Beneath(path) \subseteq gone
    /\ dirs' = [path \in DOMAIN dirs \ gone |->
                  IF Within(path, root) THEN [dirs[path] EXCEPT !.files = @ \cap kept]
                                        ELSE dirs[path]]

\* remove_all, of which an error is ignored.
RemoveStaging(p) ==
  /\ pc[p] = "remove"
  /\ \/ /\ dirs' = [path \in DOMAIN dirs \ Beneath(Staging(p)) |-> dirs[path]]
        /\ UNCHANGED faulted
     \/ PartlyRemoved(Staging(p)) /\ Fault(p, "remove")
  /\ Goto(p, "failed")
  /\ UNCHANGED <<source, target, written>>

Over == {"done", "failed", "dead"}

\* The process is killed: nothing cleans up behind it.
Dies(p) ==
  /\ MayDie /\ pc[p] \notin Over
  /\ Goto(p, "dead") /\ Fault(p, "death")
  /\ UNCHANGED <<source, target, written, dirs>>

Step(p) ==
  \/ Validate(p) \/ PlaceOutput(p) \/ ReadSource(p) \/ CreateParents(p) \/ Inspect(p)
  \/ CreateStaging(p) \/ WriteArtifact(p) \/ Publish(p) \/ RemoveStaging(p)

ExportInit ==
  /\ source \in Sources /\ target \in [Exporters -> Outputs]
  /\ pc = [p \in Exporters |-> "validate"] /\ written = [p \in Exporters |-> 0]
  /\ dirs = [path \in Standing |-> New("nobody")] /\ faulted = {}

ExportNext == \E p \in Exporters : Step(p) \/ Dies(p)

ExportSpec == ExportInit /\ [][ExportNext]_exportVars

(***************************************************************************)
(* Properties. What another export does with its staging directory it does *)
(* with everything in it. An export whose output is to stand in there is   *)
(* enclosed, and nothing is promised of it.                                *)
(***************************************************************************)
Enclosed(p) == \E q \in Exporters : Inside(target[p], Staging(q))

Complete(dir) == dir.files = ToSet(Artifacts) /\ dir.listed = ToSet(Artifacts) \ {Manifest}

\* What docs/RESEARCH_EXPORT.md says of the directory an export leaves: it has all of
\* the artifacts, and a manifest that lists all the others. Refuted where one export is
\* enclosed by another.
EveryExportIsWhole ==
  \A p \in Exporters :
    pc[p] = "done" /\ Exists(target[p]) /\ dirs[target[p]].by = p => Complete(dirs[target[p]])

\* The output of a finished export that no other one encloses is there, is its own,
\* and is whole.
PublishedIsWhole ==
  \A p \in Exporters : pc[p] = "done" /\ ~Enclosed(p) =>
    Exists(target[p]) /\ dirs[target[p]].by = p /\ Complete(dirs[target[p]])

\* No export changes, renames or removes a directory that stood before or one that an
\* export which is not enclosed has published, also where its output lies inside
\* of that: it then adds a directory beside the files.
Lasting(path) ==
  \/ path \in Standing
  \/ \E p \in Exporters : pc[p] = "done" /\ ~Enclosed(p) /\ path = target[p]

PublishedStays ==
  [][\A path \in Standing \cup Outputs :
       Lasting(path) => path \in DOMAIN dirs' /\ dirs'[path] = dirs[path]]_exportVars

SourceServes ==
  source.sealed /\ source.required /\ source.records = "agree" /\ ReportsAllow

\* An export that is not enclosed fills and removes only the staging directory it
\* created itself. Of one that failed, unless the removal did, nothing is left but
\* empty directories its output was to stand in. A source that cannot be exported
\* does not even make these appear.
FailuresLeaveNothing ==
  /\ \A p \in Exporters : ~Enclosed(p) =>
       /\ pc[p] \in {"write", "remove"} => Exists(Staging(p)) /\ dirs[Staging(p)].by = p
       /\ pc[p] = "failed" /\ <<p, "remove">> \notin faulted =>
            \A path \in DOMAIN dirs :
              dirs[path].by = p => path \in Above(p) /\ dirs[path].files = {}
  /\ ~SourceServes => DOMAIN dirs = Standing
=============================================================================
