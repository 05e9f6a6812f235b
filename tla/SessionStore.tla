---------------------------- MODULE SessionStore ----------------------------
(***************************************************************************)
(* One session on disk and everybody who may write it: the participant     *)
(* that records it (Owner), its elevated helper, and the launches of the   *)
(* application that look for abandoned sessions. Each may crash between    *)
(* any two steps, and any step of the store may fail.                      *)
(*                                                                         *)
(* SessionWorkspace.cpp, AbandonedSessionRecovery.cpp, SessionArchive.cpp, *)
(* CapturePrefixRecovery.cpp, CrashRecovery.cpp, SessionValidator.cpp, and *)
(* the file side of RecordingSession::TryFinalize. The PCAP stands for     *)
(* what is recovered like it, the event journal for every journal.         *)
(***************************************************************************)
EXTENDS Naturals, Sequences

CONSTANTS
  Launches,   \* launches of the application that look for abandoned sessions
  MaxRecords  \* bound: whole records of an artifact

Owner == "owner"

ASSUME StoreAssumption ==
  /\ MaxRecords \in Nat
  /\ Owner \notin Launches /\ "helper" \notin Launches

VARIABLES
  pc,      \* where the owner and each launch are
  helper,  \* where the elevated helper is
  lease,   \* who holds the lease: writers share it, a launch has it alone
  disk,    \* the session's directory and its archive
  draft,   \* per process: the archive it has written under a temporary name
  quiet    \* history: the launches that nothing has disturbed

storeVars == <<pc, helper, lease, disk, draft, quiet>>

Procs == {Owner} \cup Launches
Kinds == {"pcap", "events"}

(***************************************************************************)
(* Files. A content is a number of whole records and what follows them:    *)
(* nothing, a torn record, or bytes that no reader accepts; `sound' is     *)
(* what the semantic validator says of the records.                        *)
(***************************************************************************)
Contents == [whole : 0..MaxRecords, tail : {"clean", "torn", "bad"}, sound : BOOLEAN]
NoFile == [whole |-> 0, tail |-> "absent", sound |-> FALSE]
NewFile == [whole |-> 0, tail |-> "clean", sound |-> TRUE]
Exists(file) == file # NoFile
Valid(file) == file.tail = "clean" /\ file.sound

\* One kind: its .partial file, its final file, the .unverified ones.
Artifact == [partial : Contents \cup {NoFile}, final : Contents \cup {NoFile},
             aside : SUBSET Contents]
NoArtifact == [partial |-> NoFile, final |-> NoFile, aside |-> {}]

NoManifest == [status |-> "none", verified |-> FALSE]
Terminal == {"complete", "interrupted", "capture_lost"}
Manifest == [status : {"none", "recording"} \cup Terminal, verified : BOOLEAN]

\* What InventoryArtifacts lists: everything but the two controls.
Inventory(d) == [manifest |-> d.manifest, files |-> d.files]
Inventories == [manifest : Manifest, files : [Kinds -> Artifact]]

\* checksums.sha256 is what it lists; COMPLETE, the status and the checksums it
\* vouches for; the archive, what it holds. `stray': a temporary of AtomicWriteFile.
Directory(d) ==
  [manifest |-> d.manifest, files |-> d.files, sums |-> d.sums, complete |-> d.complete]
Sealing == [status : Terminal, sums : Seq(Inventories)]
Sessions == [manifest : Manifest, files : [Kinds -> Artifact],
             sums : Seq(Inventories), complete : Seq(Sealing)]

\* ValidateSealedSession.
ValidSession(d) ==
  /\ d.sums = <<Inventory(d)>>
  /\ d.complete = <<[status |-> d.manifest.status, sums |-> d.sums]>>

\* IsPartialPath, over the whole directory.
Unfinished(d) == d.stray \/ \E kind \in Kinds : Exists(d.files[kind].partial)

\* Mutant: the recovery lease denies writing only, and the helper only reads it.
LeaseFreeOfOwner == pc[Owner] # "off" /\ lease \cap Procs = {}

(***************************************************************************)
(* The lease file exists from the owner's first step on. Writers open it   *)
(* shared; a launch opens it with no sharing, and only if it exists.       *)
(***************************************************************************)
SharedLeaseFree == lease \cap Launches = {}
ExclusiveLeaseFree == pc[Owner] # "off" /\ lease = {}

Started(p) == pc[p] \notin {"off", "gone"}
Alone == helper \in {"none", "gone"} /\ \A p \in Procs : ~Started(p)

Goto(p, step) == pc' = [pc EXCEPT ![p] = step]
Release(p) == lease' = lease \ {p}
WriteFiles(kind, a) == disk' = [disk EXCEPT !.files[kind] = a]

(***************************************************************************)
(* SessionWorkspace::Create and the life of the owner.                     *)
(***************************************************************************)
AcquireWriterLease ==
  /\ pc[Owner] = "off" /\ Goto(Owner, "leased")
  /\ lease' = lease \cup {Owner} /\ quiet' = {}
  /\ UNCHANGED <<helper, disk, draft>>

CreateDirectory ==
  /\ pc[Owner] = "leased" /\ Goto(Owner, "made")
  /\ disk' = [disk EXCEPT !.dir = "partial"]
  /\ UNCHANGED <<helper, lease, draft, quiet>>

\* The first manifest, and the journals that RecordingSession opens.
PersistFirstManifest ==
  /\ pc[Owner] = "made" /\ Goto(Owner, "recording")
  /\ disk' = [disk EXCEPT !.manifest.status = "recording",
                          !.files["events"].partial = NewFile]
  /\ UNCHANGED <<helper, lease, draft, quiet>>

\* Create fails and removes what it made, or the session cannot be started and
\* its directory is left to a later launch.
CreateFails ==
  /\ \/ pc[Owner] \in {"leased", "made"} /\ disk' = [disk EXCEPT !.dir = "none"]
     \/ pc[Owner] = "recording" /\ UNCHANGED disk
  /\ Goto(Owner, "done") /\ Release(Owner)
  /\ UNCHANGED <<helper, draft, quiet>>

AppendRecord(kind) ==
  LET a == disk.files[kind] IN
  /\ a.partial.tail = "clean" /\ a.partial.whole < MaxRecords
  /\ WriteFiles(kind, [a EXCEPT !.partial.whole = @ + 1])

OwnerRecords ==
  /\ pc[Owner] = "recording" /\ AppendRecord("events")
  /\ UNCHANGED <<pc, helper, lease, draft, quiet>>

LaunchHelper ==
  /\ pc[Owner] = "recording" /\ helper = "none" /\ helper' = "booting"
  /\ UNCHANGED <<pc, lease, disk, draft, quiet>>

\* TryFinalize, once the helper is known to be gone.
BeginFinalization ==
  /\ pc[Owner] = "recording" /\ helper = "gone" /\ Goto(Owner, "prefix")
  /\ UNCHANGED <<helper, lease, disk, draft, quiet>>

(***************************************************************************)
(* The helper: first the lease, then the paths and the parent.             *)
(***************************************************************************)
HelperBoots ==
  /\ helper = "booting"
  /\ IF SharedLeaseFree
       THEN helper' = "checking" /\ lease' = lease \cup {"helper"}
       ELSE helper' = "gone" /\ UNCHANGED lease
  /\ UNCHANGED <<pc, disk, draft, quiet>>

HelperOpensCapture ==
  /\ helper = "checking" /\ disk.dir = "partial" /\ pc[Owner] # "gone"
  /\ disk.files["pcap"] = NoArtifact
  /\ helper' = "writing"
  /\ WriteFiles("pcap", [NoArtifact EXCEPT !.partial = NewFile])
  /\ UNCHANGED <<pc, lease, draft, quiet>>

HelperRecords ==
  /\ helper = "writing" /\ AppendRecord("pcap")
  /\ UNCHANGED <<pc, helper, lease, draft, quiet>>

Published(a) == [a EXCEPT !.final = a.partial, !.partial = NoFile]

HelperPublishes ==
  /\ helper = "writing" /\ Exists(disk.files["pcap"].partial)
  /\ WriteFiles("pcap", Published(disk.files["pcap"]))
  /\ UNCHANGED <<pc, helper, lease, draft, quiet>>

\* A file open when its writer dies may end inside a record, or in bytes that no
\* reader accepts, or hold records that no validator does.
Died(a) ==
  IF Exists(a.partial)
    THEN {[a EXCEPT !.partial = rest] : rest \in {c \in Contents : c.whole = a.partial.whole}}
    ELSE {a}

\* It ends, is refused, or dies; its lease goes with it.
HelperEnds ==
  /\ helper \in {"booting", "checking", "writing"} /\ helper' = "gone"
  /\ Release("helper")
  /\ IF helper = "writing"
       THEN \E left \in Died(disk.files["pcap"]) : WriteFiles("pcap", left)
       ELSE UNCHANGED disk
  /\ UNCHANGED <<pc, draft, quiet>>

(***************************************************************************)
(* RecoverAbandonedSessions: the scan, and the lease before anything else. *)
(***************************************************************************)
Found ==
  IF disk.dir = "partial" THEN "found_partial"
  ELSE IF disk.dir = "sealed" /\ disk.archive = <<>> THEN "found_sealed"
  ELSE "done"

Scan(l) ==
  /\ pc[l] = "off" /\ Goto(l, Found)
  /\ quiet' = IF Alone THEN {l} ELSE {}
  /\ UNCHANGED <<helper, lease, disk, draft>>

\* A lease that is busy, or a directory that is no longer what the scan saw or has
\* no manifest, ends the launch.
Acquires(l, step) ==
  /\ Goto(l, step) /\ lease' = lease \cup {l}
  /\ UNCHANGED <<helper, disk, draft, quiet>>

Skips(l) ==
  /\ Goto(l, "done") /\ UNCHANGED <<helper, lease, disk, draft, quiet>>

OpenAbandoned(l) ==
  /\ pc[l] = "found_partial"
  /\ IF ExclusiveLeaseFree /\ disk.dir = "partial" /\ disk.manifest # NoManifest
       THEN Acquires(l, "quarantine") ELSE Skips(l)

\* RecoverMissingArchive, up to the archive.
OpenSealed(l) ==
  /\ pc[l] = "found_sealed"
  /\ IF ExclusiveLeaseFree /\ ValidSession(disk) /\ disk.archive = <<>>
       THEN Acquires(l, "archive") ELSE Skips(l)

(***************************************************************************)
(* The steps on one artifact. Each is one file operation; nothing is       *)
(* deleted, and a name for what is set aside is always found.              *)
(***************************************************************************)
Trimmed(a) == [a EXCEPT !.partial.tail = "clean"]
\* Mutant: what cannot be read is removed.
PartialRemoved(a) == [a EXCEPT !.partial = NoFile]

PartialAside(a) == [a EXCEPT !.partial = NoFile, !.aside = @ \cup {a.partial}]
FinalAside(a) == [a EXCEPT !.final = NoFile, !.aside = @ \cup {a.final}]

\* RecoverOne's and RecoverJournal's next operation on the partial file: beside a
\* final one it is set aside, a torn tail is trimmed, what can be read is published.
PartialStep(a) ==
  IF Exists(a.final) \/ a.partial.tail = "bad" THEN PartialAside(a)
  ELSE IF a.partial.tail = "torn" THEN Trimmed(a)
  ELSE Published(a)

BadFinal(a) == Exists(a.final) /\ ~Valid(a.final)

Works(p, kind, a) ==
  /\ WriteFiles(kind, a) /\ UNCHANGED <<pc, helper, lease, draft, quiet>>
Moves(p, step) ==
  /\ Goto(p, step) /\ UNCHANGED <<helper, lease, disk, draft, quiet>>

\* QuarantineInvalidFinal, before the prefix is recovered.
Quarantine(l) ==
  /\ pc[l] = "quarantine"
  /\ LET a == disk.files["pcap"] IN
       IF BadFinal(a) THEN Works(l, "pcap", FinalAside(a)) ELSE Moves(l, "prefix")

\* RecoverCapturePrefix, by a launch or by the owner itself.
RecoverPrefix(p) ==
  /\ pc[p] = "prefix"
  /\ LET a == disk.files["pcap"] IN
       IF Exists(a.partial) THEN Works(p, "pcap", PartialStep(a))
                            ELSE Moves(p, "validate")

\* Mutant: what the recovery published is taken as it is.
ValidationSkipped(p) == pc[p] = "validate" /\ Moves(p, "journals")

\* ValidateRecoveredCaptureArtifact sets an invalid PCAP aside; the owner's
\* ValidateDevicePcap refuses it.
ValidateRecovered(p) ==
  /\ pc[p] = "validate"
  /\ LET a == disk.files["pcap"] IN
       IF ~BadFinal(a) THEN Moves(p, "journals")
       ELSE p # Owner /\ Works(p, "pcap", FinalAside(a))

\* RecoverJournal; or the owner's GameplayJournal::Finalize, over its own records.
RecoverJournals(p) ==
  /\ pc[p] = "journals"
  /\ LET a == disk.files["events"] IN
       IF BadFinal(a) /\ p # Owner THEN Works(p, "events", FinalAside(a))
       ELSE IF Exists(a.partial) THEN Works(p, "events", PartialStep(a))
       ELSE Moves(p, IF p = Owner THEN "seal" ELSE "unknown")

\* Mutant: temporaries are not looked for.
UnknownPartialsIgnored(l) == pc[l] = "unknown" /\ Moves(l, "seal")

PreserveUnknownPartials(l) ==
  /\ pc[l] = "unknown" /\ Goto(l, "seal")
  /\ disk' = [disk EXCEPT !.stray = FALSE]
  /\ UNCHANGED <<helper, lease, draft, quiet>>

(***************************************************************************)
(* SessionWorkspace::Seal, with the UpdateRuntimeSummary before it.        *)
(***************************************************************************)
\* What TryFinalize or RecoverAbandonedSession claims of the capture.
HasEvidence == Exists(disk.files["pcap"].final) /\ disk.files["pcap"].final.whole # 0

\* The owner decides on its status before (RecordingSession); a launch calls the
\* capture lost when it could verify some of it.
Statuses(p) ==
  IF p = Owner THEN Terminal
  ELSE {IF HasEvidence THEN "capture_lost" ELSE "interrupted"}

SealManifest(p) ==
  /\ pc[p] = "seal" /\ Goto(p, "checksums")
  /\ \E status \in Statuses(p) :
       disk' = [disk EXCEPT !.manifest = [status |-> status, verified |-> HasEvidence]]
  /\ UNCHANGED <<helper, lease, draft, quiet>>

SealChecksums(p) ==
  /\ pc[p] = "checksums" /\ ~Unfinished(disk) /\ Goto(p, "complete")
  /\ disk' = [disk EXCEPT !.sums = <<Inventory(disk)>>]
  /\ UNCHANGED <<helper, lease, draft, quiet>>

SealComplete(p) ==
  /\ pc[p] = "complete" /\ Goto(p, "move")
  /\ disk' = [disk EXCEPT !.complete = <<[status |-> disk.manifest.status,
                                          sums |-> disk.sums]>>]
  /\ UNCHANGED <<helper, lease, draft, quiet>>

SealMove(p) ==
  /\ pc[p] = "move" /\ disk.dir = "partial" /\ Goto(p, "archive")
  /\ disk' = [disk EXCEPT !.dir = "sealed"]
  /\ UNCHANGED <<helper, lease, draft, quiet>>

(***************************************************************************)
(* CreateSessionArchive; then the owner releases its lease, and a launch   *)
(* lets its own go with the workspace.                                     *)
(***************************************************************************)
\* Mutant: the archive is written under its final name.
ArchiveInPlace(p) ==
  /\ pc[p] = "archive" /\ ValidSession(disk) /\ disk.archive = <<>>
  /\ Goto(p, "publish") /\ draft' = [draft EXCEPT ![p] = <<Directory(disk)>>]
  /\ disk' = [disk EXCEPT !.archive = <<[Directory(disk) EXCEPT !.complete = <<>>]>>]
  /\ UNCHANGED <<helper, lease, quiet>>

WriteArchive(p) ==
  /\ pc[p] = "archive" /\ ValidSession(disk) /\ disk.archive = <<>>
  /\ Goto(p, "publish") /\ draft' = [draft EXCEPT ![p] = <<Directory(disk)>>]
  /\ UNCHANGED <<helper, lease, disk, quiet>>

PublishArchive(p) ==
  /\ pc[p] = "publish" /\ disk.archive = <<>> /\ Goto(p, "done") /\ Release(p)
  /\ disk' = [disk EXCEPT !.archive = draft[p]]
  /\ draft' = [draft EXCEPT ![p] = <<>>]
  /\ UNCHANGED <<helper, quiet>>

(***************************************************************************)
(* What can go wrong anywhere.                                             *)
(***************************************************************************)
Working == {"quarantine", "prefix", "validate", "journals", "unknown", "seal",
            "checksums", "complete", "move", "archive", "publish"}

\* An exception ends the work. The owner keeps its lease until it ends itself
\* (FinalizationFailed); a launch goes on to the next session.
Throws(p) ==
  /\ IF p = Owner THEN Goto(p, "failed") /\ UNCHANGED lease
                  ELSE Goto(p, "done") /\ Release(p)
  /\ draft' = [draft EXCEPT ![p] = <<>>]
  /\ UNCHANGED <<helper, disk>>

\* What the code itself refuses: the owner a capture that is not valid, the seal an
\* unfinished file, the move an existing directory, the archive an invalid session
\* or an existing archive.
Refuses(p) ==
  \/ pc[p] = "validate" /\ p = Owner /\ BadFinal(disk.files["pcap"])
  \/ pc[p] = "checksums" /\ Unfinished(disk)
  \/ pc[p] = "move" /\ disk.dir # "partial"
  \/ pc[p] = "archive" /\ ~ValidSession(disk)
  \/ pc[p] \in {"archive", "publish"} /\ disk.archive # <<>>

StepRefused(p) == Refuses(p) /\ Throws(p) /\ UNCHANGED quiet

\* The operating system fails any step before it has its effect.
StepFails(p) == pc[p] \in Working /\ Throws(p) /\ quiet' = quiet \ {p}

\* The steps in which a process may be inside AtomicWriteFile.
InAtomicWrite == {"made", "recording", "prefix", "seal", "checksums", "complete"}
JournalsOpen == {"recording", "prefix", "validate", "journals"}

\* A process ends, at any point: its leases go, its open files end anyhow.
ProcessEnds(p) ==
  /\ Started(p) /\ Goto(p, "gone") /\ Release(p)
  /\ draft' = [draft EXCEPT ![p] = <<>>] /\ quiet' = quiet \ {p}
  /\ \E left \in IF p = Owner /\ pc[p] \in JournalsOpen THEN Died(disk.files["events"])
                                                       ELSE {disk.files["events"]},
        temporary \in IF pc[p] \in InAtomicWrite THEN BOOLEAN ELSE {FALSE} :
       disk' = [disk EXCEPT !.files["events"] = left, !.stray = @ \/ temporary]
  /\ UNCHANGED helper

(***************************************************************************)
(* The specification.                                                      *)
(***************************************************************************)
StoreInit ==
  /\ pc = [p \in Procs |-> "off"] /\ helper = "none" /\ lease = {} /\ quiet = {}
  /\ disk = [dir |-> "none", manifest |-> NoManifest, files |-> [k \in Kinds |-> NoArtifact],
             stray |-> FALSE, sums |-> <<>>, complete |-> <<>>, archive |-> <<>>]
  /\ draft = [p \in Procs |-> <<>>]

OwnerStep ==
  \/ AcquireWriterLease \/ CreateDirectory \/ PersistFirstManifest \/ CreateFails
  \/ OwnerRecords \/ LaunchHelper \/ BeginFinalization

HelperStep ==
  HelperBoots \/ HelperOpensCapture \/ HelperRecords \/ HelperPublishes \/ HelperEnds

LaunchStep(l) ==
  Scan(l) \/ OpenAbandoned(l) \/ OpenSealed(l) \/ Quarantine(l) \/ PreserveUnknownPartials(l)

\* What the owner and a launch do alike.
Finalizes(p) ==
  \/ RecoverPrefix(p) \/ ValidateRecovered(p) \/ RecoverJournals(p)
  \/ SealManifest(p) \/ SealChecksums(p) \/ SealComplete(p) \/ SealMove(p)
  \/ WriteArchive(p) \/ PublishArchive(p)
  \/ StepRefused(p) \/ StepFails(p) \/ ProcessEnds(p)

\* Nobody is left, and no launch will come.
Deserted ==
  /\ \A p \in Procs : pc[p] = "gone"
  /\ helper \in {"none", "gone"}
  /\ UNCHANGED storeVars

StoreNext ==
  \/ OwnerStep \/ HelperStep
  \/ \E l \in Launches : LaunchStep(l)
  \/ \E p \in Procs : Finalizes(p)
  \/ Deserted

StoreSpec == StoreInit /\ [][StoreNext]_storeVars

(***************************************************************************)
(* Properties.                                                             *)
(***************************************************************************)
Steps == Working \cup {"off", "leased", "made", "recording", "found_partial",
                       "found_sealed", "done", "failed", "gone"}

Disk == [dir : {"none", "partial", "sealed"}, manifest : Manifest,
         files : [Kinds -> Artifact], stray : BOOLEAN, sums : Seq(Inventories),
         complete : Seq(Sealing), archive : Seq(Sessions)]

\* Every variable keeps its type.
StoreTypeOK ==
  /\ pc \in [Procs -> Steps] /\ disk \in Disk
  /\ helper \in {"none", "booting", "checking", "writing", "gone"}
  /\ lease \subseteq Procs \cup {"helper"} /\ quiet \subseteq Launches
  /\ draft \in [Procs -> Seq(Sessions)]

\* While a launch works on the directory nobody else does: not the participant, not
\* a helper that boots late, not another launch.
Writing(p) == pc[p] \in Working \cup {"leased", "made", "recording"}

RecoveryIsAlone ==
  \A l \in Launches : pc[l] \in Working =>
    /\ helper \notin {"checking", "writing"}
    /\ \A p \in Procs \ {l} : ~Writing(p)

\* Whole records, once written, stay readable somewhere in the directory, whatever
\* is recovered, crashes and is recovered again.
Whole(file) == IF Exists(file) THEN file.whole ELSE 0
Held(a) == {a.partial, a.final} \cup a.aside

RecordsSurvive ==
  [][\A kind \in Kinds : \A old \in Held(disk.files[kind]) :
       \E new \in Held(disk'.files[kind]) : Whole(new) >= Whole(old)]_storeVars

\* A directory under its final name passes the validator, holds no unfinished file
\* and no final one that a reader would refuse.
SealedIsWhole ==
  disk.dir = "sealed" =>
    /\ ValidSession(disk) /\ ~Unfinished(disk)
    /\ \A kind \in Kinds : ~BadFinal(disk.files[kind])

\* A terminal manifest claims authoritative evidence exactly when a valid PCAP with
\* a record is there, also over a crash between the manifest and the seal.
EvidenceIsReal ==
  LET file == disk.files["pcap"].final IN
  disk.dir = "sealed" =>
    (disk.manifest.verified <=> Exists(file) /\ Valid(file) /\ file.whole # 0)

\* A sealed session is what it says it is, in every well-typed state of the disk.
SealedIsTrue == StoreTypeOK /\ SealedIsWhole /\ EvidenceIsReal

\* A launch that nothing disturbed leaves a session with its archive, whatever
\* state the crashes before it left it in, unless not even a manifest was written.
LaunchRepairs ==
  \A l \in quiet :
    pc[l] = "done" /\ disk.dir # "none" /\ disk.manifest # NoManifest
      => disk.archive # <<>>

\* The store publishes a session and its archive, each once, whole and for good.
Visible == IF disk.dir = "sealed" THEN <<Directory(disk)>> ELSE <<>>

Publication == INSTANCE SessionPublication WITH session <- Visible, archive <- disk.archive

ImplementsPublication == Publication!PublicationSpec
=============================================================================
