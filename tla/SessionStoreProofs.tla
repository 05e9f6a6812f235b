------------------------- MODULE SessionStoreProofs -------------------------
(***************************************************************************)
(* Proofs about the session store, for every set of launches and every     *)
(* number of records.                                                      *)
(***************************************************************************)
EXTENDS SessionStore, TLAPS

(***************************************************************************)
(* Who is where, and who holds the lease. This part needs nothing of what  *)
(* is on disk.                                                             *)
(***************************************************************************)
OwnerSteps == Steps \ {"quarantine", "unknown", "found_partial", "found_sealed"}
LaunchSteps == Working \cup {"off", "found_partial", "found_sealed", "done", "gone"}
HelperSteps == {"none", "booting", "checking", "writing", "gone"}

ControlTypes ==
  /\ pc \in [Procs -> Steps] /\ pc[Owner] \in OwnerSteps
  /\ \A l \in Launches : pc[l] \in LaunchSteps
  /\ helper \in HelperSteps /\ lease \subseteq Procs \cup {"helper"}

\* Whoever writes holds the lease, and a launch that holds it holds it alone.
LeaseInv ==
  /\ \A l \in Launches : pc[l] \in Working => l \in lease
  /\ \A l \in Launches : l \in lease => lease = {l}
  /\ Writing(Owner) => Owner \in lease
  /\ helper \in {"checking", "writing"} => "helper" \in lease
  /\ pc[Owner] = "off" => SharedLeaseFree

ControlInv == ControlTypes /\ LeaseInv

USE StoreAssumption DEF Procs, Owner, Goto

LEMMA ControlInit == StoreInit => ControlInv
BY DEF StoreInit, ControlInv, ControlTypes, LeaseInv, OwnerSteps, LaunchSteps, HelperSteps,
       Steps, Working, Writing, SharedLeaseFree

\* A process that works goes on, or stops.
LEMMA ControlGoesOn ==
  ASSUME ControlInv, NEW p \in Procs, pc[p] \in Working, NEW s \in Working,
         p = Owner => s \in OwnerSteps, Goto(p, s), UNCHANGED <<helper, lease>>
  PROVE  ControlInv'
BY DEF ControlInv, ControlTypes, LeaseInv, OwnerSteps, LaunchSteps, HelperSteps,
       Steps, Working, Writing, SharedLeaseFree

LEMMA ControlStops ==
  ASSUME ControlInv, NEW p \in Procs, Started(p),
         NEW s \in {"done", "gone"}, Goto(p, s), Release(p), UNCHANGED helper
  PROVE  ControlInv'
BY DEF ControlInv, ControlTypes, LeaseInv, OwnerSteps, LaunchSteps, HelperSteps,
       Steps, Working, Writing, SharedLeaseFree, Started, Release

LEMMA ControlThrows ==
  ASSUME ControlInv, NEW p \in Procs, pc[p] \in Working, Throws(p)
  PROVE  ControlInv'
<1>1. CASE p = Owner
  BY <1>1 DEF Throws, ControlInv, ControlTypes, LeaseInv, OwnerSteps, LaunchSteps,
       HelperSteps, Steps, Working, Writing, SharedLeaseFree
<1>2. CASE p # Owner
  BY <1>2, ControlStops DEF Throws, Started, Working
<1> QED
  BY <1>1, <1>2

LEMMA ControlOwner == ControlInv /\ OwnerStep => ControlInv'
<1> SUFFICES ASSUME ControlInv, OwnerStep PROVE ControlInv'
  OBVIOUS
<1> USE DEF ControlInv, ControlTypes, LeaseInv, OwnerSteps, LaunchSteps, HelperSteps,
            Steps, Working, Writing, SharedLeaseFree
<1>1. CASE AcquireWriterLease
  BY <1>1 DEF AcquireWriterLease
<1>2. CASE CreateDirectory
  BY <1>2 DEF CreateDirectory
<1>3. CASE PersistFirstManifest
  BY <1>3 DEF PersistFirstManifest
<1>4. CASE CreateFails
  BY <1>4, ControlStops DEF CreateFails, Started
<1>5. CASE OwnerRecords
  BY <1>5 DEF OwnerRecords
<1>6. CASE LaunchHelper
  BY <1>6 DEF LaunchHelper
<1>7. CASE BeginFinalization
  BY <1>7 DEF BeginFinalization
<1> QED
  BY <1>1, <1>2, <1>3, <1>4, <1>5, <1>6, <1>7 DEF OwnerStep

LEMMA ControlHelper == ControlInv /\ HelperStep => ControlInv'
<1> SUFFICES ASSUME ControlInv, HelperStep PROVE ControlInv'
  OBVIOUS
<1> USE DEF ControlInv, ControlTypes, LeaseInv, OwnerSteps, LaunchSteps, HelperSteps,
            Steps, Working, Writing, SharedLeaseFree
<1>1. CASE HelperBoots
  <2>1. CASE SharedLeaseFree
    <3>1. helper' = "checking" /\ lease' = lease \cup {"helper"} /\ pc' = pc
      BY <1>1, <2>1 DEF HelperBoots
    <3> QED
      BY <2>1, <3>1
  <2>2. CASE ~SharedLeaseFree
    <3>1. helper' = "gone" /\ lease' = lease /\ pc' = pc
      BY <1>1, <2>2 DEF HelperBoots
    <3> QED
      BY <3>1
  <2> QED
    BY <2>1, <2>2
<1>2. CASE HelperOpensCapture
  BY <1>2 DEF HelperOpensCapture
<1>3. CASE HelperRecords
  BY <1>3 DEF HelperRecords
<1>4. CASE HelperPublishes
  BY <1>4 DEF HelperPublishes
<1>5. CASE HelperEnds
  BY <1>5 DEF HelperEnds, Release
<1> QED
  BY <1>1, <1>2, <1>3, <1>4, <1>5 DEF HelperStep

\* A launch takes the lease only when nobody has it, so it is alone at once.
LEMMA ControlAcquires ==
  ASSUME ControlInv, NEW l \in Launches, ExclusiveLeaseFree, NEW s \in Working, Acquires(l, s)
  PROVE  ControlInv'
BY DEF Acquires, ExclusiveLeaseFree, ControlInv, ControlTypes, LeaseInv, OwnerSteps,
       LaunchSteps, HelperSteps, Steps, Working, Writing, SharedLeaseFree

LEMMA ControlSkips ==
  ASSUME ControlInv, NEW l \in Launches, pc[l] \notin Working, NEW s \in LaunchSteps \ Working,
         Goto(l, s), UNCHANGED <<helper, lease>>
  PROVE  ControlInv'
BY DEF ControlInv, ControlTypes, LeaseInv, OwnerSteps, LaunchSteps, HelperSteps,
       Steps, Working, Writing, SharedLeaseFree

LEMMA ControlUnmoved ==
  ASSUME ControlInv, UNCHANGED <<pc, helper, lease>>
  PROVE  ControlInv'
BY DEF ControlInv, ControlTypes, LeaseInv, Writing, SharedLeaseFree

LEMMA ControlLaunch ==
  ASSUME ControlInv, NEW l \in Launches, LaunchStep(l)
  PROVE  ControlInv'
<1>1. CASE Scan(l)
  <2>1. Found \in LaunchSteps \ Working
    BY DEF Found, LaunchSteps, Working
  <2> QED
    BY <1>1, <2>1, ControlSkips DEF Scan, Working
<1>2. CASE OpenAbandoned(l)
  BY <1>2, ControlAcquires, ControlSkips DEF OpenAbandoned, Skips, LaunchSteps, Working
<1>3. CASE OpenSealed(l)
  BY <1>3, ControlAcquires, ControlSkips DEF OpenSealed, Skips, LaunchSteps, Working
<1>4. CASE Quarantine(l)
  <2>1. pc[l] \in Working /\ "prefix" \in Working
    BY <1>4 DEF Quarantine, Working
  <2> QED
    BY <1>4, <2>1, ControlGoesOn, ControlUnmoved DEF Quarantine, Works, Moves
<1>5. CASE PreserveUnknownPartials(l)
  BY <1>5, ControlGoesOn DEF PreserveUnknownPartials, Working
<1> QED
  BY <1>1, <1>2, <1>3, <1>4, <1>5 DEF LaunchStep

LEMMA ControlFinalizes ==
  ASSUME ControlInv, NEW p \in Procs, Finalizes(p)
  PROVE  ControlInv'
<1> USE DEF Working, OwnerSteps, Steps
<1>1. CASE RecoverPrefix(p)
  BY <1>1, ControlGoesOn, ControlUnmoved DEF RecoverPrefix, Works, Moves
<1>2. CASE ValidateRecovered(p)
  BY <1>2, ControlGoesOn, ControlUnmoved DEF ValidateRecovered, Works, Moves
<1>3. CASE RecoverJournals(p)
  BY <1>3, ControlGoesOn, ControlUnmoved DEF RecoverJournals, Works, Moves
<1>4. CASE SealManifest(p)
  BY <1>4, ControlGoesOn DEF SealManifest
<1>5. CASE SealChecksums(p)
  BY <1>5, ControlGoesOn DEF SealChecksums
<1>6. CASE SealComplete(p)
  BY <1>6, ControlGoesOn DEF SealComplete
<1>7. CASE SealMove(p)
  BY <1>7, ControlGoesOn DEF SealMove
<1>8. CASE WriteArchive(p)
  BY <1>8, ControlGoesOn DEF WriteArchive
<1>9. CASE PublishArchive(p)
  BY <1>9, ControlStops DEF PublishArchive, Started
<1>10. CASE StepRefused(p)
  BY <1>10, ControlThrows DEF StepRefused, Refuses
<1>11. CASE StepFails(p)
  BY <1>11, ControlThrows DEF StepFails
<1>12. CASE ProcessEnds(p)
  BY <1>12, ControlStops DEF ProcessEnds
<1> QED
  BY <1>1, <1>2, <1>3, <1>4, <1>5, <1>6, <1>7, <1>8, <1>9, <1>10, <1>11, <1>12 DEF Finalizes

LEMMA ControlNext == ControlInv /\ [StoreNext]_storeVars => ControlInv'
<1> SUFFICES ASSUME ControlInv, [StoreNext]_storeVars PROVE ControlInv'
  OBVIOUS
<1>1. CASE Deserted \/ UNCHANGED storeVars
  BY <1>1, ControlUnmoved DEF Deserted, storeVars
<1> QED
  BY <1>1, ControlOwner, ControlHelper, ControlLaunch, ControlFinalizes DEF StoreNext

LEMMA ControlHolds == StoreSpec => []ControlInv
BY ControlInit, ControlNext, PTL DEF StoreSpec

LEMMA ControlIsAlone == ControlInv => RecoveryIsAlone
BY DEF ControlInv, ControlTypes, LeaseInv, RecoveryIsAlone, Writing, Working, LaunchSteps

\* While a launch works on the directory nobody else does, however late a helper
\* boots, whoever crashes, and however many launches there are.
THEOREM StoreRecoveryIsAlone == StoreSpec => []RecoveryIsAlone
BY ControlHolds, ControlIsAlone, PTL

(***************************************************************************)
(* Types. What is written at the seal is well typed because the manifest   *)
(* is terminal by then, and stays so because its writer is alone.          *)
(***************************************************************************)
LEMMA ArtifactOps ==
  ASSUME NEW a \in Artifact
  PROVE  /\ Published(a) \in Artifact
         /\ Exists(a.partial) => Trimmed(a) \in Artifact /\ PartialAside(a) \in Artifact
         /\ Exists(a.final) => FinalAside(a) \in Artifact
         /\ Exists(a.partial) => PartialStep(a) \in Artifact
         /\ \A left \in Died(a) : left \in Artifact
<1> USE DEF Artifact
<1>1. Published(a) \in Artifact
  BY DEF Published, NoFile
<1>2. ASSUME Exists(a.partial) PROVE Trimmed(a) \in Artifact
  BY <1>2 DEF Exists, Trimmed, Contents
<1>3. ASSUME Exists(a.partial) PROVE PartialAside(a) \in Artifact
  BY <1>3 DEF Exists, PartialAside, NoFile
<1>4. ASSUME Exists(a.final) PROVE FinalAside(a) \in Artifact
  BY <1>4 DEF Exists, FinalAside, NoFile
<1>5. ASSUME Exists(a.partial) PROVE PartialStep(a) \in Artifact
  BY <1>1, <1>2, <1>3, <1>5 DEF PartialStep
<1>6. ASSUME NEW left \in Died(a) PROVE left \in Artifact
  BY <1>6 DEF Died, Exists, Contents
<1> QED
  BY <1>1, <1>2, <1>3, <1>4, <1>5, <1>6

LEMMA NewCaptureType == [NoArtifact EXCEPT !.partial = NewFile] \in Artifact
<1>1. NewFile \in Contents
  BY DEF NewFile, Contents
<1>2. [NoArtifact EXCEPT !.partial = NewFile] = [partial |-> NewFile, final |-> NoFile, aside |-> {}]
  BY DEF NoArtifact
<1> QED
  BY <1>1, <1>2 DEF Artifact

LEMMA WriteFilesEffect ==
  ASSUME disk \in Disk, NEW kind \in Kinds, NEW a \in Artifact, WriteFiles(kind, a)
  PROVE  /\ disk' \in Disk /\ disk'.files = [disk.files EXCEPT ![kind] = a]
         /\ disk'.dir = disk.dir /\ disk'.manifest = disk.manifest
         /\ disk'.stray = disk.stray /\ disk'.sums = disk.sums
         /\ disk'.complete = disk.complete /\ disk'.archive = disk.archive
BY DEF WriteFiles, Disk

Concluding == {"checksums", "complete"}
DataTypes ==
  /\ disk \in Disk /\ quiet \subseteq Launches /\ draft \in [Procs -> Seq(Sessions)]
  /\ \A p \in Procs : pc[p] \in Concluding => disk.manifest.status \in Terminal

LEMMA DataInit == StoreInit => DataTypes
BY DEF StoreInit, DataTypes, Concluding, Disk, Manifest, NoManifest, Artifact, NoArtifact, NoFile

LEMMA DirectoryType ==
  ASSUME disk \in Disk PROVE Inventory(disk) \in Inventories /\ Directory(disk) \in Sessions
BY DEF Disk, Inventory, Inventories, Directory, Sessions

\* A process moves, and the manifest stays as it is.
LEMMA TerminalStays ==
  ASSUME ControlInv, DataTypes, disk'.manifest = disk.manifest, NEW p \in Procs, NEW s,
         Goto(p, s), s \in Concluding => pc[p] \in Concluding
  PROVE  \A q \in Procs : pc'[q] \in Concluding => disk'.manifest.status \in Terminal
BY DEF ControlInv, ControlTypes, DataTypes

LEMMA DataWorks ==
  ASSUME DataTypes, NEW kind \in Kinds, NEW a \in Artifact,
         WriteFiles(kind, a), UNCHANGED <<pc, draft, quiet>>
  PROVE  DataTypes'
BY WriteFilesEffect DEF DataTypes

LEMMA DataMoves ==
  ASSUME ControlInv, DataTypes, NEW p \in Procs, NEW s, Goto(p, s),
         s \in Concluding => pc[p] \in Concluding,
         UNCHANGED disk, draft' \in [Procs -> Seq(Sessions)], quiet' \subseteq Launches
  PROVE  DataTypes'
BY TerminalStays DEF DataTypes

LEMMA DataThrows ==
  ASSUME ControlInv, DataTypes, NEW p \in Procs, Throws(p), quiet' \subseteq Launches
  PROVE  DataTypes'
<1>1. draft' \in [Procs -> Seq(Sessions)]
  BY DEF Throws, DataTypes
<1> QED
  BY <1>1, DataMoves DEF Throws, Concluding

LEMMA AppendRecordType ==
  ASSUME disk \in Disk, NEW kind \in Kinds, AppendRecord(kind)
  PROVE  \E a \in Artifact : WriteFiles(kind, a)
<1> DEFINE a == disk.files[kind]
           b == [a EXCEPT !.partial.whole = @ + 1]
<1>1. a \in Artifact /\ a.partial.tail = "clean" /\ a.partial.whole < MaxRecords
  BY DEF AppendRecord, Disk
<1>2. a.partial \in Contents
  BY <1>1 DEF Artifact, NoFile
<1>3. b \in Artifact
  BY <1>1, <1>2 DEF Artifact, Contents
<1>4. WriteFiles(kind, b)
  BY DEF AppendRecord
<1> QED
  BY <1>3, <1>4

LEMMA DataOwner == ControlInv /\ DataTypes /\ OwnerStep => DataTypes'
<1> SUFFICES ASSUME ControlInv, DataTypes, OwnerStep PROVE DataTypes'
  OBVIOUS
<1>1. CASE AcquireWriterLease
  BY <1>1, DataMoves DEF AcquireWriterLease, Concluding, DataTypes
<1>2. CASE CreateDirectory
  <2>1. disk' \in Disk /\ disk'.manifest = disk.manifest
    BY <1>2 DEF CreateDirectory, DataTypes, Disk
  <2> QED
    BY <1>2, <2>1, TerminalStays DEF CreateDirectory, Concluding, DataTypes
<1>3. CASE PersistFirstManifest
  <2> DEFINE m == [disk.manifest EXCEPT !.status = "recording"]
             b == [disk.files["events"] EXCEPT !.partial = NewFile]
  <2>3. m \in Manifest
    BY DEF DataTypes, Disk, Manifest
  <2>4. NewFile \in Contents
    BY DEF NewFile, Contents
  <2>5. b \in Artifact
    BY <2>4 DEF DataTypes, Disk, Kinds, Artifact
  <2>6. disk' = [disk EXCEPT !.manifest = m, !.files = [disk.files EXCEPT !["events"] = b]]
    BY <1>3 DEF PersistFirstManifest, DataTypes, Disk
  <2>1. disk' \in Disk
    <3> HIDE DEF m, b
    <3> QED
      BY <2>3, <2>5, <2>6 DEF DataTypes, Disk, Kinds
  <2>2. \A p \in Procs : pc'[p] \notin Concluding
    <3>1. Writing(Owner) /\ RecoveryIsAlone
      BY <1>3, ControlIsAlone DEF PersistFirstManifest, Writing
    <3>2. \A l \in Launches : pc[l] \notin Working
      BY <3>1 DEF RecoveryIsAlone
    <3> QED
      BY <1>3, <3>2 DEF PersistFirstManifest, Concluding, Working, ControlInv, ControlTypes
  <2> QED
    BY <1>3, <2>1, <2>2 DEF PersistFirstManifest, DataTypes
<1>4. CASE CreateFails
  <2>1. disk' \in Disk /\ disk'.manifest = disk.manifest
    BY <1>4 DEF CreateFails, DataTypes, Disk
  <2> QED
    BY <1>4, <2>1, TerminalStays DEF CreateFails, Concluding, DataTypes
<1>5. CASE OwnerRecords
  <2>1. PICK a \in Artifact : WriteFiles("events", a)
    BY <1>5, AppendRecordType DEF OwnerRecords, DataTypes, Kinds
  <2> QED
    BY <1>5, <2>1, DataWorks DEF OwnerRecords, Kinds
<1>6. CASE LaunchHelper
  BY <1>6 DEF LaunchHelper, DataTypes
<1>7. CASE BeginFinalization
  BY <1>7, DataMoves DEF BeginFinalization, Concluding, DataTypes
<1> QED
  BY <1>1, <1>2, <1>3, <1>4, <1>5, <1>6, <1>7 DEF OwnerStep

LEMMA DataHelper == ControlInv /\ DataTypes /\ HelperStep => DataTypes'
<1> SUFFICES ASSUME ControlInv, DataTypes, HelperStep PROVE DataTypes'
  OBVIOUS
<1>0. disk \in Disk /\ disk.files["pcap"] \in Artifact
  BY DEF DataTypes, Disk, Kinds
<1>1. CASE HelperBoots
  BY <1>1 DEF HelperBoots, DataTypes
<1>2. CASE HelperOpensCapture
  <2>1. [NoArtifact EXCEPT !.partial = NewFile] \in Artifact
    BY NewCaptureType
  <2> QED
    BY <1>2, <2>1, DataWorks DEF HelperOpensCapture, Kinds
<1>3. CASE HelperRecords
  <2>1. PICK a \in Artifact : WriteFiles("pcap", a)
    BY <1>0, <1>3, AppendRecordType DEF HelperRecords, Kinds
  <2> QED
    BY <1>3, <2>1, DataWorks DEF HelperRecords, Kinds
<1>4. CASE HelperPublishes
  BY <1>0, <1>4, ArtifactOps, DataWorks DEF HelperPublishes, Kinds
<1>5. CASE HelperEnds
  <2>1. CASE helper = "writing"
    <3>1. PICK left \in Died(disk.files["pcap"]) : WriteFiles("pcap", left)
      BY <1>5, <2>1 DEF HelperEnds
    <3>2. left \in Artifact
      BY <1>0, ArtifactOps
    <3> QED
      BY <1>5, <3>1, <3>2, DataWorks DEF HelperEnds, Kinds
  <2>2. CASE helper # "writing"
    BY <1>5, <2>2 DEF HelperEnds, DataTypes
  <2> QED
    BY <2>1, <2>2
<1> QED
  BY <1>1, <1>2, <1>3, <1>4, <1>5 DEF HelperStep

LEMMA DataLaunch ==
  ASSUME ControlInv, DataTypes, NEW l \in Launches, LaunchStep(l)
  PROVE  DataTypes'
<1>0. disk \in Disk /\ disk.files["pcap"] \in Artifact /\ quiet \subseteq Launches
  BY DEF DataTypes, Disk, Kinds
<1>1. CASE Scan(l)
  BY <1>1, DataMoves DEF Scan, Found, Concluding, DataTypes
<1>2. CASE OpenAbandoned(l)
  BY <1>2, DataMoves DEF OpenAbandoned, Acquires, Skips, Concluding, DataTypes
<1>3. CASE OpenSealed(l)
  BY <1>3, DataMoves DEF OpenSealed, Acquires, Skips, Concluding, DataTypes
<1>4. CASE Quarantine(l)
  <2>1. CASE BadFinal(disk.files["pcap"])
    BY <1>0, <1>4, <2>1, ArtifactOps, DataWorks DEF Quarantine, Works, BadFinal, Kinds
  <2>2. CASE ~BadFinal(disk.files["pcap"])
    BY <1>4, <2>2, DataMoves DEF Quarantine, Moves, Concluding, DataTypes
  <2> QED
    BY <2>1, <2>2
<1>5. CASE PreserveUnknownPartials(l)
  <2>1. disk' \in Disk /\ disk'.manifest = disk.manifest
    BY <1>5 DEF PreserveUnknownPartials, DataTypes, Disk
  <2> QED
    BY <1>5, <2>1, TerminalStays DEF PreserveUnknownPartials, Concluding, DataTypes
<1> QED
  BY <1>1, <1>2, <1>3, <1>4, <1>5 DEF LaunchStep

LEMMA DataFinalizes ==
  ASSUME ControlInv, DataTypes, NEW p \in Procs, Finalizes(p)
  PROVE  DataTypes'
<1>0. /\ disk \in Disk /\ quiet \subseteq Launches /\ draft \in [Procs -> Seq(Sessions)]
      /\ disk.files["pcap"] \in Artifact /\ disk.files["events"] \in Artifact
  BY DEF DataTypes, Disk, Kinds
<1>1. CASE RecoverPrefix(p)
  <2>1. CASE Exists(disk.files["pcap"].partial)
    BY <1>0, <1>1, <2>1, ArtifactOps, DataWorks DEF RecoverPrefix, Works, Kinds
  <2>2. CASE ~Exists(disk.files["pcap"].partial)
    BY <1>0, <1>1, <2>2, DataMoves DEF RecoverPrefix, Moves, Concluding
  <2> QED
    BY <2>1, <2>2
<1>2. CASE ValidateRecovered(p)
  <2>1. CASE BadFinal(disk.files["pcap"])
    BY <1>0, <1>2, <2>1, ArtifactOps, DataWorks DEF ValidateRecovered, Works, BadFinal, Kinds
  <2>2. CASE ~BadFinal(disk.files["pcap"])
    BY <1>0, <1>2, <2>2, DataMoves DEF ValidateRecovered, Moves, Concluding
  <2> QED
    BY <2>1, <2>2
<1>3. CASE RecoverJournals(p)
  <2> DEFINE a == disk.files["events"]
  <2>1. CASE BadFinal(a) /\ p # Owner
    BY <1>0, <1>3, <2>1, ArtifactOps, DataWorks DEF RecoverJournals, Works, BadFinal, Kinds
  <2>2. CASE ~(BadFinal(a) /\ p # Owner) /\ Exists(a.partial)
    <3>1. WriteFiles("events", PartialStep(a)) /\ UNCHANGED <<pc, draft, quiet>>
      BY <1>3, <2>2 DEF RecoverJournals, Works
    <3> QED
      BY <1>0, <2>2, <3>1, ArtifactOps, DataWorks DEF Kinds
  <2>3. CASE ~(BadFinal(a) /\ p # Owner) /\ ~Exists(a.partial)
    BY <1>0, <1>3, <2>3, DataMoves DEF RecoverJournals, Moves, Concluding
  <2> QED
    BY <2>1, <2>2, <2>3
<1>4. CASE SealManifest(p)
  <2>1. PICK status \in Statuses(p) :
          disk' = [disk EXCEPT !.manifest = [status |-> status, verified |-> HasEvidence]]
    BY <1>4 DEF SealManifest
  <2>2. status \in Terminal /\ HasEvidence \in BOOLEAN
    BY DEF Statuses, Terminal, HasEvidence
  <2>3. disk' \in Disk /\ disk'.manifest.status \in Terminal
    BY <1>0, <2>1, <2>2 DEF Disk, Manifest
  <2> QED
    BY <1>0, <1>4, <2>3 DEF SealManifest, DataTypes
<1>5. CASE SealChecksums(p)
  <2> DEFINE sums == <<Inventory(disk)>>
  <2>2. sums \in Seq(Inventories) /\ disk' = [disk EXCEPT !.sums = sums]
    BY <1>0, <1>5, DirectoryType DEF SealChecksums
  <2>1. disk' \in Disk /\ disk'.manifest = disk.manifest
    <3> HIDE DEF sums
    <3> QED
      BY <1>0, <2>2 DEF Disk
  <2> QED
    BY <1>0, <1>5, <2>1, TerminalStays DEF SealChecksums, Concluding, DataTypes
<1>6. CASE SealComplete(p)
  <2>1. disk.manifest.status \in Terminal /\ disk.sums \in Seq(Inventories)
    BY <1>6 DEF SealComplete, DataTypes, Concluding, Disk
  <2> DEFINE complete == <<[status |-> disk.manifest.status, sums |-> disk.sums]>>
  <2>2. complete \in Seq(Sealing) /\ disk' = [disk EXCEPT !.complete = complete]
    BY <1>6, <2>1 DEF SealComplete, Sealing
  <2>3. disk' \in Disk /\ disk'.manifest = disk.manifest
    <3> HIDE DEF complete
    <3> QED
      BY <1>0, <2>2 DEF Disk
  <2> QED
    BY <1>0, <1>6, <2>3, TerminalStays DEF SealComplete, Concluding, DataTypes
<1>7. CASE SealMove(p)
  <2>1. disk' \in Disk /\ disk'.manifest = disk.manifest
    BY <1>0, <1>7 DEF SealMove, Disk
  <2> QED
    BY <1>0, <1>7, <2>1, TerminalStays DEF SealMove, Concluding, DataTypes
<1>8. CASE WriteArchive(p)
  <2>1. draft' \in [Procs -> Seq(Sessions)]
    BY <1>0, <1>8, DirectoryType DEF WriteArchive
  <2> QED
    BY <1>0, <1>8, <2>1, DataMoves DEF WriteArchive, Concluding
<1>9. CASE PublishArchive(p)
  <2>1. disk' \in Disk /\ disk'.manifest = disk.manifest
    BY <1>0, <1>9 DEF PublishArchive, Disk
  <2>2. draft' \in [Procs -> Seq(Sessions)]
    BY <1>0, <1>9 DEF PublishArchive
  <2> QED
    BY <1>0, <1>9, <2>1, <2>2, TerminalStays DEF PublishArchive, Concluding, DataTypes
<1>10. CASE StepRefused(p)
  BY <1>0, <1>10, DataThrows DEF StepRefused
<1>11. CASE StepFails(p)
  BY <1>0, <1>11, DataThrows DEF StepFails
<1>12. CASE ProcessEnds(p)
  <2>1. PICK left \in Artifact, temporary \in BOOLEAN :
          disk' = [disk EXCEPT !.files["events"] = left, !.stray = @ \/ temporary]
    BY <1>0, <1>12, ArtifactOps DEF ProcessEnds
  <2>2. disk' \in Disk /\ disk'.manifest = disk.manifest
    BY <1>0, <2>1 DEF Disk, Kinds
  <2>3. draft' \in [Procs -> Seq(Sessions)]
    BY <1>0, <1>12 DEF ProcessEnds
  <2> QED
    BY <1>0, <1>12, <2>2, <2>3, TerminalStays DEF ProcessEnds, Concluding, DataTypes
<1> QED
  BY <1>1, <1>2, <1>3, <1>4, <1>5, <1>6, <1>7, <1>8, <1>9, <1>10, <1>11, <1>12 DEF Finalizes

LEMMA DataNext == ControlInv /\ DataTypes /\ [StoreNext]_storeVars => DataTypes'
<1> SUFFICES ASSUME ControlInv, DataTypes, [StoreNext]_storeVars PROVE DataTypes'
  OBVIOUS
<1>1. CASE Deserted \/ UNCHANGED storeVars
  BY <1>1 DEF Deserted, storeVars, DataTypes
<1> QED
  BY <1>1, DataOwner, DataHelper, DataLaunch, DataFinalizes DEF StoreNext

TypeInv == ControlInv /\ DataTypes

LEMMA TypesHold == StoreSpec => []TypeInv
BY ControlInit, ControlNext, DataInit, DataNext, PTL DEF StoreSpec, TypeInv

\* Every variable keeps its type, the sealed and archived contents included.
THEOREM StoreTypes == StoreSpec => []StoreTypeOK
<1>1. TypeInv => StoreTypeOK
  BY DEF TypeInv, ControlInv, ControlTypes, DataTypes, HelperSteps, StoreTypeOK
<1> QED
  BY <1>1, TypesHold, PTL

(***************************************************************************)
(* Where the directory is. Before the rename only its writer, who is       *)
(* alone, changes what is in it; after it nobody does. The draft of an     *)
(* archive is therefore still the session when it is published.            *)
(***************************************************************************)
Unsealed == (Working \ {"archive", "publish"}) \cup {"made", "recording"}
Resealing == {"archive", "publish", "found_sealed"}

PlaceInv ==
  /\ pc[Owner] \in {"off", "leased"} => disk.dir = "none"
  /\ pc[Owner] \in {"off", "leased", "made"} => helper = "none"
  /\ pc[Owner] \in Working => helper = "gone"
  /\ \A p \in Procs : pc[p] \in Unsealed => disk.dir = "partial"
  /\ helper = "writing" => disk.dir = "partial"
  /\ \A p \in Procs : pc[p] \in Resealing => disk.dir = "sealed"
  /\ \A p \in Procs : pc[p] = "publish" => draft[p] = <<Directory(disk)>>
  /\ disk.archive # <<>> => disk.dir = "sealed"

\* What a step that publishes nothing does to the directory.
Calm ==
  /\ disk'.dir = disk.dir /\ disk'.archive = disk.archive
  /\ disk.dir = "sealed" => Directory(disk') = Directory(disk)

LEMMA PlaceInit == StoreInit => PlaceInv
BY DEF StoreInit, PlaceInv, Unsealed, Resealing, Working

LEMMA WritesCalmly ==
  ASSUME TypeInv, NEW kind \in Kinds, NEW a \in Artifact, WriteFiles(kind, a),
         disk.dir = "partial"
  PROVE  Calm
BY WriteFilesEffect DEF Calm, TypeInv, DataTypes

LEMMA PlaceUnmoved ==
  ASSUME PlaceInv, Calm, UNCHANGED <<pc, draft>>,
         \/ helper' = helper
         \/ helper # "gone" /\ pc[Owner] \notin {"off", "leased", "made"}
            /\ (helper' = "writing" => disk.dir = "partial")
  PROVE  PlaceInv'
BY DEF PlaceInv, Calm, Unsealed, Resealing

LEMMA PlaceMoves ==
  ASSUME TypeInv, PlaceInv, Calm, NEW p \in Procs, NEW s, Goto(p, s), UNCHANGED helper,
         draft' = draft \/ draft' = [draft EXCEPT ![p] = <<>>],
         s \in Unsealed => disk.dir = "partial",
         s \in Resealing \ {"publish"} => disk.dir = "sealed",
         s # "publish",
         p = Owner /\ s \in Working => helper = "gone",
         p = Owner => s \notin {"off", "leased", "made"}
  PROVE  PlaceInv'
<1>1. \A q \in Procs : pc'[q] = IF q = p THEN s ELSE pc[q]
  BY DEF TypeInv, ControlInv, ControlTypes
<1>2. \A q \in Procs : pc'[q] \in Unsealed => disk'.dir = "partial"
  BY <1>1 DEF PlaceInv, Calm
<1>3. \A q \in Procs : pc'[q] \in Resealing => disk'.dir = "sealed"
  BY <1>1 DEF PlaceInv, Calm
<1>4. \A q \in Procs : pc'[q] = "publish" => draft'[q] = <<Directory(disk')>>
  BY <1>1 DEF PlaceInv, Calm, TypeInv, DataTypes, Resealing
<1> QED
  BY <1>1, <1>2, <1>3, <1>4 DEF PlaceInv, Calm

Promised ==
  \/ Publication!PublishSession \/ Publication!PublishArchive
  \/ UNCHANGED <<Visible, disk.archive>>

LEMMA CalmIsPromised == Calm => Promised
BY DEF Calm, Promised, Visible

LEMMA PlaceOwner == TypeInv /\ PlaceInv /\ OwnerStep => PlaceInv' /\ Promised
<1> SUFFICES ASSUME TypeInv, PlaceInv, OwnerStep PROVE PlaceInv' /\ Promised
  OBVIOUS
<1>0. /\ disk \in Disk /\ pc \in [Procs -> Steps] /\ draft \in [Procs -> Seq(Sessions)]
      /\ RecoveryIsAlone
  BY ControlIsAlone DEF TypeInv, DataTypes, ControlInv, ControlTypes
<1> DEFINE Alone1 == \A l \in Launches : pc[l] \notin Working
<1>a. ASSUME Writing(Owner) PROVE Alone1
  BY <1>0, <1>a DEF RecoveryIsAlone
<1>u. UNCHANGED disk => Calm
  BY DEF Calm
<1>1. CASE AcquireWriterLease
  <2>1. pc[Owner] = "off" /\ pc'[Owner] = "leased" /\ UNCHANGED disk /\ UNCHANGED <<helper, draft>>
    BY <1>0, <1>1 DEF AcquireWriterLease
  <2>2. \A q \in Launches : pc'[q] = pc[q]
    BY <1>0, <1>1 DEF AcquireWriterLease
  <2>3. PlaceInv'
    BY <2>1, <2>2 DEF PlaceInv, Unsealed, Resealing, Working
  <2> QED
    BY <1>u, <2>1, <2>3, CalmIsPromised
<1>2. CASE CreateDirectory
  <2>1. /\ pc[Owner] = "leased" /\ pc'[Owner] = "made" /\ UNCHANGED <<helper, draft>>
        /\ \A q \in Launches : pc'[q] = pc[q]
    BY <1>0, <1>2 DEF CreateDirectory
  <2>2. disk.dir = "none" /\ disk'.dir = "partial" /\ disk'.archive = disk.archive
    BY <1>0, <1>2 DEF CreateDirectory, PlaceInv, Disk
  <2>3. Alone1
    BY <2>1, <1>a DEF Writing
  <2>4. PlaceInv'
    BY <2>1, <2>2, <2>3 DEF PlaceInv, Unsealed, Resealing, Working
  <2>5. Promised
    BY <2>2 DEF Promised, Visible
  <2> QED
    BY <2>4, <2>5
<1>3. CASE PersistFirstManifest
  <2>1. /\ pc[Owner] = "made" /\ Goto(Owner, "recording") /\ UNCHANGED <<helper, draft>>
        /\ disk.dir = "partial"
    BY <1>3 DEF PersistFirstManifest, PlaceInv, Unsealed
  <2>2. disk'.dir = disk.dir /\ disk'.archive = disk.archive
    BY <1>0, <1>3 DEF PersistFirstManifest, Disk
  <2>3. Calm
    BY <2>1, <2>2 DEF Calm
  <2> QED
    BY <2>1, <2>3, PlaceMoves, CalmIsPromised DEF Resealing, Working
<1>4. CASE CreateFails
  <2>1. CASE pc[Owner] = "recording"
    <3>1. Goto(Owner, "done") /\ UNCHANGED <<disk, helper, draft>>
      BY <1>4, <2>1 DEF CreateFails
    <3> QED
      BY <1>u, <3>1, PlaceMoves, CalmIsPromised DEF Unsealed, Resealing, Working
  <2>2. CASE pc[Owner] \in {"leased", "made"}
    <3>1. /\ pc'[Owner] = "done" /\ UNCHANGED <<helper, draft>>
          /\ \A q \in Launches : pc'[q] = pc[q]
      BY <1>0, <1>4, <2>2 DEF CreateFails
    <3>2. disk.dir # "sealed" /\ disk'.dir = "none" /\ disk'.archive = disk.archive
      BY <1>0, <1>4, <2>2 DEF CreateFails, PlaceInv, Unsealed, Disk
    <3>3. Alone1
      BY <2>2, <1>a DEF Writing
    <3>4. \A l \in Launches : pc[l] \notin Unsealed
      BY <3>3 DEF Unsealed, TypeInv, ControlInv, ControlTypes, LaunchSteps
    <3>5. PlaceInv'
      BY <2>2, <3>1, <3>2, <3>4 DEF PlaceInv, Unsealed, Resealing, Working
    <3>6. Promised
      BY <3>2 DEF Promised, Visible
    <3> QED
      BY <3>5, <3>6
  <2> QED
    BY <1>4, <2>1, <2>2 DEF CreateFails
<1>5. CASE OwnerRecords
  <2>1. PICK a \in Artifact : WriteFiles("events", a)
    BY <1>0, <1>5, AppendRecordType DEF OwnerRecords, Kinds
  <2>2. disk.dir = "partial"
    BY <1>5 DEF OwnerRecords, PlaceInv, Unsealed
  <2>3. Calm
    BY <2>1, <2>2, WritesCalmly DEF Kinds
  <2> QED
    BY <1>5, <2>3, PlaceUnmoved, CalmIsPromised DEF OwnerRecords
<1>6. CASE LaunchHelper
  BY <1>6, <1>u, PlaceUnmoved, CalmIsPromised DEF LaunchHelper
<1>7. CASE BeginFinalization
  <2>1. disk.dir = "partial"
    BY <1>7 DEF BeginFinalization, PlaceInv, Unsealed
  <2> QED
    BY <1>7, <1>u, <2>1, PlaceMoves, CalmIsPromised DEF BeginFinalization, Resealing
<1> QED
  BY <1>1, <1>2, <1>3, <1>4, <1>5, <1>6, <1>7 DEF OwnerStep

LEMMA PlaceHelper == TypeInv /\ PlaceInv /\ HelperStep => PlaceInv' /\ Promised
<1> SUFFICES ASSUME TypeInv, PlaceInv, HelperStep PROVE PlaceInv' /\ Promised
  OBVIOUS
<1>0. disk \in Disk /\ disk.files["pcap"] \in Artifact
  BY DEF TypeInv, DataTypes, Disk, Kinds
<1>u. UNCHANGED disk => Calm
  BY DEF Calm
<1>w. helper # "none" => pc[Owner] \notin {"off", "leased", "made"}
  BY DEF PlaceInv
<1>1. CASE HelperBoots
  <2>1. helper = "booting" /\ helper' # "writing" /\ UNCHANGED <<pc, draft, disk>>
    BY <1>1 DEF HelperBoots
  <2> QED
    BY <1>u, <1>w, <2>1, PlaceUnmoved, CalmIsPromised
<1>2. CASE HelperOpensCapture
  <2>1. [NoArtifact EXCEPT !.partial = NewFile] \in Artifact
    BY NewCaptureType
  <2>2. Calm
    BY <1>2, <2>1, WritesCalmly DEF HelperOpensCapture, Kinds
  <2> QED
    BY <1>2, <1>w, <2>2, PlaceUnmoved, CalmIsPromised DEF HelperOpensCapture
<1>3. CASE HelperRecords
  <2>1. PICK a \in Artifact : WriteFiles("pcap", a)
    BY <1>0, <1>3, AppendRecordType DEF HelperRecords, Kinds
  <2>2. Calm
    BY <1>3, <2>1, WritesCalmly DEF HelperRecords, PlaceInv, Kinds
  <2> QED
    BY <1>3, <2>2, PlaceUnmoved, CalmIsPromised DEF HelperRecords
<1>4. CASE HelperPublishes
  <2>1. Calm
    BY <1>0, <1>4, ArtifactOps, WritesCalmly DEF HelperPublishes, PlaceInv, Kinds
  <2> QED
    BY <1>4, <2>1, PlaceUnmoved, CalmIsPromised DEF HelperPublishes
<1>5. CASE HelperEnds
  <2>1. CASE helper = "writing"
    <3>1. PICK left \in Died(disk.files["pcap"]) : WriteFiles("pcap", left)
      BY <1>5, <2>1 DEF HelperEnds
    <3>2. left \in Artifact
      BY <1>0, ArtifactOps
    <3>3. Calm
      BY <2>1, <3>1, <3>2, WritesCalmly DEF PlaceInv, Kinds
    <3> QED
      BY <1>5, <1>w, <2>1, <3>3, PlaceUnmoved, CalmIsPromised DEF HelperEnds
  <2>2. CASE helper # "writing"
    BY <1>5, <1>u, <1>w, <2>2, PlaceUnmoved, CalmIsPromised DEF HelperEnds
  <2> QED
    BY <2>1, <2>2
<1> QED
  BY <1>1, <1>2, <1>3, <1>4, <1>5 DEF HelperStep

LEMMA PlaceLaunch ==
  ASSUME TypeInv, PlaceInv, NEW l \in Launches, LaunchStep(l)
  PROVE  PlaceInv' /\ Promised
<1>0. disk \in Disk /\ disk.files["pcap"] \in Artifact
  BY DEF TypeInv, DataTypes, Disk, Kinds
<1>u. UNCHANGED disk => Calm
  BY DEF Calm
<1>1. CASE Scan(l)
  <2>1. Found \in {"found_partial", "found_sealed", "done"} /\ (Found = "found_sealed" => disk.dir = "sealed")
    BY DEF Found
  <2>2. Goto(l, Found) /\ UNCHANGED <<helper, disk, draft>>
    BY <1>1 DEF Scan
  <2> QED
    BY <1>u, <2>1, <2>2, PlaceMoves, CalmIsPromised DEF Unsealed, Resealing, Working
<1>2. CASE OpenAbandoned(l)
  <2>1. CASE ExclusiveLeaseFree /\ disk.dir = "partial" /\ disk.manifest # NoManifest
    <3>1. Goto(l, "quarantine") /\ UNCHANGED <<helper, disk, draft>>
      BY <1>2, <2>1 DEF OpenAbandoned, Acquires
    <3> QED
      BY <1>u, <2>1, <3>1, PlaceMoves, CalmIsPromised DEF Resealing
  <2>2. CASE Skips(l)
    BY <1>u, <2>2, PlaceMoves, CalmIsPromised DEF Skips, Unsealed, Resealing, Working
  <2> QED
    BY <1>2, <2>1, <2>2 DEF OpenAbandoned
<1>3. CASE OpenSealed(l)
  <2>1. pc[l] = "found_sealed" /\ disk.dir = "sealed"
    BY <1>3 DEF OpenSealed, PlaceInv, Resealing
  <2>2. CASE Acquires(l, "archive")
    <3>1. Goto(l, "archive") /\ UNCHANGED <<helper, disk, draft>>
      BY <2>2 DEF Acquires
    <3> QED
      BY <1>u, <2>1, <3>1, PlaceMoves, CalmIsPromised DEF Unsealed, Working
  <2>3. CASE Skips(l)
    BY <1>u, <2>3, PlaceMoves, CalmIsPromised DEF Skips, Unsealed, Resealing, Working
  <2> QED
    BY <1>3, <2>2, <2>3 DEF OpenSealed
<1>4. CASE Quarantine(l)
  <2>1. disk.dir = "partial"
    BY <1>4 DEF Quarantine, PlaceInv, Unsealed, Working
  <2>2. CASE BadFinal(disk.files["pcap"])
    <3>1. WriteFiles("pcap", FinalAside(disk.files["pcap"])) /\ UNCHANGED <<pc, helper, draft>>
      BY <1>4, <2>2 DEF Quarantine, Works
    <3>2. Calm
      BY <1>0, <2>1, <2>2, <3>1, ArtifactOps, WritesCalmly DEF BadFinal, Kinds
    <3> QED
      BY <3>1, <3>2, PlaceUnmoved, CalmIsPromised
  <2>3. CASE ~BadFinal(disk.files["pcap"])
    <3>1. Goto(l, "prefix") /\ UNCHANGED <<helper, disk, draft>>
      BY <1>4, <2>3 DEF Quarantine, Moves
    <3> QED
      BY <1>u, <2>1, <3>1, PlaceMoves, CalmIsPromised DEF Resealing
  <2> QED
    BY <2>2, <2>3
<1>5. CASE PreserveUnknownPartials(l)
  <2>1. disk.dir = "partial"
    BY <1>5 DEF PreserveUnknownPartials, PlaceInv, Unsealed, Working
  <2>2. disk'.dir = disk.dir /\ disk'.archive = disk.archive
    BY <1>0, <1>5 DEF PreserveUnknownPartials, Disk
  <2>3. Calm
    BY <2>1, <2>2 DEF Calm
  <2> QED
    BY <1>5, <2>1, <2>3, PlaceMoves, CalmIsPromised DEF PreserveUnknownPartials, Resealing
<1> QED
  BY <1>1, <1>2, <1>3, <1>4, <1>5 DEF LaunchStep

\* The two steps that publish, and the one that drafts what the second publishes.
LEMMA PlaceSealMove ==
  ASSUME TypeInv, PlaceInv, NEW p \in Procs, SealMove(p)
  PROVE  PlaceInv' /\ Promised
<1>1. /\ disk \in Disk /\ pc \in [Procs -> Steps] /\ pc[p] = "move" /\ disk.dir = "partial"
      /\ UNCHANGED <<helper, draft>>
  BY DEF SealMove, TypeInv, DataTypes, ControlInv, ControlTypes
<1>2. /\ disk' \in Disk /\ disk'.dir = "sealed" /\ disk'.archive = disk.archive
      /\ \A q \in Procs : pc'[q] = IF q = p THEN "archive" ELSE pc[q]
  BY <1>1 DEF SealMove, Disk
<1>3. helper # "writing" /\ \A q \in Procs \ {p} : ~Writing(q)
  <2>1. pc[p] \in Working /\ Writing(p) /\ RecoveryIsAlone
    BY <1>1, ControlIsAlone DEF TypeInv, Working, Writing
  <2>2. CASE p = Owner
    BY <2>1, <2>2 DEF PlaceInv, RecoveryIsAlone, TypeInv, ControlInv, ControlTypes, LaunchSteps, Writing, Working
  <2>3. CASE p # Owner
    BY <2>1, <2>3 DEF RecoveryIsAlone
  <2> QED
    BY <2>2, <2>3
<1>4. \A q \in Procs : pc'[q] \notin Unsealed /\ pc'[q] # "publish"
  BY <1>2, <1>3 DEF Unsealed, Writing, Working
<1>5. PlaceInv'
  BY <1>1, <1>2, <1>3, <1>4 DEF PlaceInv, Working
<1>6. Visible = <<>> /\ Visible' = <<Directory(disk')>>
  BY <1>1, <1>2 DEF Visible
<1>7. Directory(disk') \in Sessions
  BY <1>2 DEF Disk, Directory, Sessions
<1>8. Publication!PublishSession
  BY <1>2, <1>6, <1>7 DEF Publication!PublishSession
<1> QED
  BY <1>5, <1>8 DEF Promised

LEMMA PlacePublishArchive ==
  ASSUME TypeInv, PlaceInv, NEW p \in Procs, PublishArchive(p)
  PROVE  PlaceInv' /\ Promised
<1>1. /\ disk \in Disk /\ pc \in [Procs -> Steps] /\ draft \in [Procs -> Seq(Sessions)]
      /\ pc[p] = "publish" /\ disk.archive = <<>> /\ UNCHANGED helper
      /\ disk' = [disk EXCEPT !.archive = draft[p]]
  BY DEF PublishArchive, TypeInv, DataTypes, ControlInv, ControlTypes
<1>2. disk.dir = "sealed" /\ draft[p] = <<Directory(disk)>>
  BY <1>1 DEF PlaceInv, Resealing
<1>3. /\ disk'.dir = disk.dir /\ Directory(disk') = Directory(disk)
      /\ disk'.archive = <<Directory(disk)>>
  BY <1>1, <1>2 DEF Disk, Directory
<1>4. /\ \A q \in Procs : pc'[q] = IF q = p THEN "done" ELSE pc[q]
      /\ \A q \in Procs \ {p} : draft'[q] = draft[q]
  BY <1>1 DEF PublishArchive
<1>5. PlaceInv'
  BY <1>1, <1>2, <1>3, <1>4 DEF PlaceInv, Unsealed, Resealing, Working
<1>6. Visible = <<Directory(disk)>> /\ Visible' = Visible
  BY <1>2, <1>3 DEF Visible
<1>7. Publication!PublishArchive
  BY <1>1, <1>3, <1>6 DEF Publication!PublishArchive
<1> QED
  BY <1>5, <1>7 DEF Promised

LEMMA PlaceWriteArchive ==
  ASSUME TypeInv, PlaceInv, NEW p \in Procs, WriteArchive(p)
  PROVE  PlaceInv' /\ Promised
<1>1. /\ pc \in [Procs -> Steps] /\ draft \in [Procs -> Seq(Sessions)]
      /\ pc[p] = "archive" /\ UNCHANGED <<helper, disk>>
  BY DEF WriteArchive, TypeInv, DataTypes, ControlInv, ControlTypes
<1>2. /\ \A q \in Procs : pc'[q] = IF q = p THEN "publish" ELSE pc[q]
      /\ \A q \in Procs : draft'[q] = IF q = p THEN <<Directory(disk)>> ELSE draft[q]
  BY <1>1 DEF WriteArchive
<1>3. disk.dir = "sealed"
  BY <1>1 DEF PlaceInv, Resealing
<1>4. PlaceInv'
  BY <1>1, <1>2, <1>3 DEF PlaceInv, Unsealed, Resealing, Working
<1> QED
  BY <1>1, <1>4, CalmIsPromised DEF Calm

LEMMA PlaceThrows ==
  ASSUME TypeInv, PlaceInv, NEW p \in Procs, pc[p] \in Working, Throws(p)
  PROVE  PlaceInv' /\ Promised
<1>1. Calm /\ UNCHANGED helper /\ draft' = [draft EXCEPT ![p] = <<>>]
  BY DEF Throws, Calm
<1>2. PICK s \in {"failed", "done"} : Goto(p, s)
  BY DEF Throws
<1> QED
  BY <1>1, <1>2, PlaceMoves, CalmIsPromised DEF Unsealed, Resealing, Working

\* A step of the seal: what is written is written before the rename.
LEMMA PlaceSeals ==
  ASSUME TypeInv, PlaceInv, NEW p \in Procs, pc[p] \in Unsealed, NEW s \in Unsealed,
         Goto(p, s), UNCHANGED <<helper, draft>>, pc[p] \in Working, s \in Working,
         disk'.dir = disk.dir, disk'.archive = disk.archive
  PROVE  PlaceInv' /\ Promised
<1>1. disk.dir = "partial"
  BY DEF PlaceInv
<1>2. Calm
  BY <1>1 DEF Calm
<1>3. p = Owner => helper = "gone"
  BY DEF PlaceInv
<1>4. s \notin Resealing /\ s \notin {"off", "leased", "made", "publish"}
  BY DEF Unsealed, Resealing, Working
<1> QED
  BY <1>1, <1>2, <1>3, <1>4, PlaceMoves, CalmIsPromised

LEMMA PlaceWorks ==
  ASSUME TypeInv, PlaceInv, NEW p \in Procs, pc[p] \in Unsealed, NEW kind \in Kinds,
         NEW a \in Artifact, WriteFiles(kind, a), UNCHANGED <<pc, helper, draft>>
  PROVE  PlaceInv' /\ Promised
<1>1. disk.dir = "partial"
  BY DEF PlaceInv
<1> QED
  BY <1>1, WritesCalmly, PlaceUnmoved, CalmIsPromised

LEMMA PlaceFinalizes ==
  ASSUME TypeInv, PlaceInv, NEW p \in Procs, Finalizes(p)
  PROVE  PlaceInv' /\ Promised
<1> DEFINE pcap == disk.files["pcap"]
           events == disk.files["events"]
<1>0. disk \in Disk /\ pcap \in Artifact /\ events \in Artifact
  BY DEF TypeInv, DataTypes, Disk, Kinds
<1>a. {"prefix", "validate", "journals", "unknown", "seal", "checksums", "complete", "move"}
        \subseteq Unsealed \cap Working
  BY DEF Unsealed, Working
<1>1. CASE RecoverPrefix(p)
  <2>1. CASE Exists(pcap.partial)
    <3>1. WriteFiles("pcap", PartialStep(pcap)) /\ UNCHANGED <<pc, helper, draft>>
      BY <1>1, <2>1 DEF RecoverPrefix, Works
    <3>2. pc[p] \in Unsealed
      BY <1>1, <1>a DEF RecoverPrefix
    <3> QED
      BY <1>0, <2>1, <3>1, <3>2, ArtifactOps, PlaceWorks DEF Kinds
  <2>2. CASE ~Exists(pcap.partial)
    BY <1>1, <1>a, <2>2, PlaceSeals DEF RecoverPrefix, Moves
  <2> QED
    BY <2>1, <2>2
<1>2. CASE ValidateRecovered(p)
  <2>1. CASE BadFinal(pcap)
    <3>1. WriteFiles("pcap", FinalAside(pcap)) /\ UNCHANGED <<pc, helper, draft>>
      BY <1>2, <2>1 DEF ValidateRecovered, Works
    <3>2. pc[p] \in Unsealed /\ Exists(pcap.final)
      BY <1>2, <1>a, <2>1 DEF ValidateRecovered, BadFinal
    <3> QED
      BY <1>0, <3>1, <3>2, ArtifactOps, PlaceWorks DEF Kinds
  <2>2. CASE ~BadFinal(pcap)
    BY <1>2, <1>a, <2>2, PlaceSeals DEF ValidateRecovered, Moves
  <2> QED
    BY <2>1, <2>2
<1>3. CASE RecoverJournals(p)
  <2>0. pc[p] \in Unsealed \cap Working
    BY <1>3, <1>a DEF RecoverJournals
  <2>1. CASE BadFinal(events) /\ p # Owner
    <3>1. WriteFiles("events", FinalAside(events)) /\ UNCHANGED <<pc, helper, draft>>
      BY <1>3, <2>1 DEF RecoverJournals, Works
    <3>2. Exists(events.final)
      BY <2>1 DEF BadFinal
    <3> QED
      BY <1>0, <2>0, <3>1, <3>2, ArtifactOps, PlaceWorks DEF Kinds
  <2>2. CASE ~(BadFinal(events) /\ p # Owner) /\ Exists(events.partial)
    <3>1. WriteFiles("events", PartialStep(events)) /\ UNCHANGED <<pc, helper, draft>>
      BY <1>3, <2>2 DEF RecoverJournals, Works
    <3> QED
      BY <1>0, <2>0, <2>2, <3>1, ArtifactOps, PlaceWorks DEF Kinds
  <2>3. CASE ~(BadFinal(events) /\ p # Owner) /\ ~Exists(events.partial)
    <3>1. PICK s \in {"seal", "unknown"} : Goto(p, s)
      BY <1>3, <2>3 DEF RecoverJournals, Moves
    <3>2. UNCHANGED <<helper, draft, disk>>
      BY <1>3, <2>3 DEF RecoverJournals, Moves
    <3> QED
      BY <1>a, <2>0, <3>1, <3>2, PlaceSeals
  <2> QED
    BY <2>1, <2>2, <2>3
<1>4. CASE SealManifest(p)
  <2>1. disk'.dir = disk.dir /\ disk'.archive = disk.archive
    BY <1>0, <1>4 DEF SealManifest, Disk
  <2> QED
    BY <1>4, <1>a, <2>1, PlaceSeals DEF SealManifest
<1>5. CASE SealChecksums(p)
  <2>1. disk'.dir = disk.dir /\ disk'.archive = disk.archive
    BY <1>0, <1>5 DEF SealChecksums, Disk
  <2> QED
    BY <1>5, <1>a, <2>1, PlaceSeals DEF SealChecksums
<1>6. CASE SealComplete(p)
  <2>1. disk'.dir = disk.dir /\ disk'.archive = disk.archive
    BY <1>0, <1>6 DEF SealComplete, Disk
  <2> QED
    BY <1>6, <1>a, <2>1, PlaceSeals DEF SealComplete
<1>7. CASE SealMove(p)
  BY <1>7, PlaceSealMove
<1>8. CASE WriteArchive(p)
  BY <1>8, PlaceWriteArchive
<1>9. CASE PublishArchive(p)
  BY <1>9, PlacePublishArchive
<1>10. CASE StepRefused(p)
  <2>1. pc[p] \in Working /\ Throws(p)
    BY <1>10 DEF StepRefused, Refuses, Working
  <2> QED
    BY <2>1, PlaceThrows
<1>11. CASE StepFails(p)
  BY <1>11, PlaceThrows DEF StepFails
<1>12. CASE ProcessEnds(p)
  <2>1. PICK left, temporary :
          /\ left \in IF p = Owner /\ pc[p] \in JournalsOpen THEN Died(events) ELSE {events}
          /\ disk' = [disk EXCEPT !.files["events"] = left, !.stray = @ \/ temporary]
    BY <1>12 DEF ProcessEnds
  <2>2. disk'.dir = disk.dir /\ disk'.archive = disk.archive
    BY <1>0, <2>1 DEF Disk
  <2>3. ASSUME disk.dir = "sealed" PROVE Directory(disk') = Directory(disk)
    <3>1. pc[p] \notin JournalsOpen
      BY <2>3 DEF PlaceInv, JournalsOpen, Unsealed, Working
    <3>2. left = events
      BY <2>1, <3>1
    <3>3. /\ disk'.files = disk.files /\ disk'.manifest = disk.manifest
          /\ disk'.sums = disk.sums /\ disk'.complete = disk.complete
      BY <1>0, <2>1, <3>2 DEF Disk, Kinds
    <3> QED
      BY <3>3 DEF Directory
  <2>4. Calm
    BY <2>2, <2>3 DEF Calm
  <2> QED
    BY <1>12, <2>4, PlaceMoves, CalmIsPromised DEF ProcessEnds, Unsealed, Resealing, Working
<1> QED
  BY <1>1, <1>2, <1>3, <1>4, <1>5, <1>6, <1>7, <1>8, <1>9, <1>10, <1>11, <1>12 DEF Finalizes

LEMMA PlaceNext == TypeInv /\ PlaceInv /\ [StoreNext]_storeVars => PlaceInv' /\ Promised
<1> SUFFICES ASSUME TypeInv, PlaceInv, [StoreNext]_storeVars PROVE PlaceInv' /\ Promised
  OBVIOUS
<1>1. CASE Deserted \/ UNCHANGED storeVars
  <2>1. UNCHANGED storeVars
    BY <1>1 DEF Deserted
  <2>2. PlaceInv'
    BY <2>1 DEF storeVars, PlaceInv
  <2>3. Calm
    BY <2>1 DEF storeVars, Calm
  <2> QED
    BY <2>2, <2>3, CalmIsPromised
<1> QED
  BY <1>1, PlaceOwner, PlaceHelper, PlaceLaunch, PlaceFinalizes DEF StoreNext

LEMMA PlaceHolds == StoreSpec => []PlaceInv
BY PlaceInit, PlaceNext, TypesHold, PTL DEF StoreSpec

\* The store implements the publication it promises: the session directory appears
\* once and whole, its archive once and of exactly that directory, and neither changes.
THEOREM StorePublishes == StoreSpec => ImplementsPublication
<1>1. StoreInit => Publication!PublicationInit
  BY DEF StoreInit, Visible, Publication!PublicationInit
<1>2. Promised => [Publication!PublishSession \/ Publication!PublishArchive]_<<Visible, disk.archive>>
  BY DEF Promised
<1> QED
  BY <1>1, <1>2, PlaceNext, PlaceHolds, TypesHold, PTL
     DEF StoreSpec, ImplementsPublication, Publication!PublicationSpec

(***************************************************************************)
(* What is in the directory. SettledAt says what a process that has come   *)
(* to a step has made of it; a sealed directory has been through them all. *)
(***************************************************************************)
AfterManifest == {"checksums", "complete", "move"}
AfterJournals == AfterManifest \cup {"unknown", "seal"}
AfterValidate == AfterJournals \cup {"journals"}
AfterPrefix == AfterValidate \cup {"validate"}

SettledAt(step) ==
  /\ step \in AfterPrefix => ~Exists(disk.files["pcap"].partial)
  /\ step \in AfterValidate => ~BadFinal(disk.files["pcap"])
  /\ step \in AfterJournals =>
       ~Exists(disk.files["events"].partial) /\ ~BadFinal(disk.files["events"])
  /\ step \in AfterManifest => disk.manifest.verified = HasEvidence
  /\ step \in {"complete", "move"} => disk.sums = <<Inventory(disk)>> /\ ~disk.stray
  /\ step = "move" =>
       disk.complete = <<[status |-> disk.manifest.status, sums |-> disk.sums]>>

\* The owner's own journal is sound until it dies, and is made by it.
OwnJournal(step) ==
  LET a == disk.files["events"] IN
  /\ step \in JournalsOpen => (Exists(a.partial) => Valid(a.partial)) /\ ~BadFinal(a)
  /\ step \in {"off", "leased", "made"} => a = NoArtifact

ContentInv ==
  /\ \A p \in Procs : SettledAt(pc[p])
  /\ OwnJournal(pc[Owner])
  /\ disk.dir = "sealed" => SettledAt("move")

LEMMA ContentInit == StoreInit => ContentInv
BY DEF StoreInit, ContentInv, SettledAt, OwnJournal, AfterPrefix, AfterValidate, AfterJournals,
       AfterManifest, JournalsOpen, Kinds

\* Everything SettledAt and OwnJournal look at.
SameContent ==
  /\ disk'.manifest = disk.manifest /\ disk'.files = disk.files /\ disk'.sums = disk.sums
  /\ disk'.complete = disk.complete /\ disk'.stray = disk.stray

LEMMA SettledSame ==
  ASSUME SameContent
  PROVE  \A s : (SettledAt(s) => SettledAt(s)') /\ (OwnJournal(s) => OwnJournal(s)')
BY DEF SameContent, SettledAt, OwnJournal, HasEvidence, Inventory

\* A step that changes nothing that matters.
LEMMA ContentUnmoved ==
  ASSUME ContentInv, SameContent, disk'.dir = disk.dir, UNCHANGED pc
  PROVE  ContentInv'
BY SettledSame DEF ContentInv

LEMMA ContentMoves ==
  ASSUME TypeInv, ContentInv, SameContent, disk'.dir = disk.dir, NEW p \in Procs, NEW s, Goto(p, s),
         SettledAt(s), p = Owner => OwnJournal(s)
  PROVE  ContentInv'
<1>1. \A q \in Procs : pc'[q] = IF q = p THEN s ELSE pc[q]
  BY DEF TypeInv, ControlInv, ControlTypes
<1> QED
  BY <1>1, SettledSame DEF ContentInv

\* A process that writes is alone: nobody else has settled anything.
LEMMA OthersIdle ==
  ASSUME TypeInv, NEW p \in Procs, Writing(p)
  PROVE  /\ \A q \in Procs \ {p} : ~Writing(q)
         /\ p # Owner => pc[Owner] # "off"
<1>1. RecoveryIsAlone
  BY ControlIsAlone DEF TypeInv
<1>2. CASE p = Owner
  BY <1>1, <1>2 DEF RecoveryIsAlone, TypeInv, ControlInv, ControlTypes, LaunchSteps, Writing, Working
<1>3. CASE p # Owner
  <2>1. pc[p] \in Working
    BY <1>3 DEF TypeInv, ControlInv, ControlTypes, LaunchSteps, Writing, Working
  <2>2. p \in lease /\ p \in Launches
    BY <1>3, <2>1 DEF TypeInv, ControlInv, LeaseInv
  <2> QED
    BY <1>1, <1>3, <2>1, <2>2 DEF RecoveryIsAlone, TypeInv, ControlInv, LeaseInv, SharedLeaseFree
<1> QED
  BY <1>2, <1>3

LEMMA IdleSettles ==
  /\ \A s : s \notin AfterPrefix => SettledAt(s) /\ SettledAt(s)'
  /\ \A s : s \notin JournalsOpen \cup {"off", "leased", "made"} => OwnJournal(s) /\ OwnJournal(s)'
BY DEF SettledAt, OwnJournal, AfterPrefix, AfterValidate, AfterJournals, AfterManifest, JournalsOpen

LEMMA ContentWrites ==
  ASSUME TypeInv, NEW p \in Procs, Writing(p), NEW s, Goto(p, s),
         SettledAt(s)', p = Owner => OwnJournal(s)',
         disk'.dir = "sealed" => SettledAt("move")'
  PROVE  ContentInv'
<1>1. \A q \in Procs : pc'[q] = IF q = p THEN s ELSE pc[q]
  BY DEF TypeInv, ControlInv, ControlTypes
<1>2. \A q \in Procs \ {p} : pc[q] \notin AfterPrefix
  BY OthersIdle DEF Writing, Working, AfterPrefix, AfterValidate, AfterJournals, AfterManifest
<1>3. p # Owner => pc[Owner] \notin JournalsOpen \cup {"off", "leased", "made"}
  BY OthersIdle DEF Writing, Working, JournalsOpen
<1> QED
  BY <1>1, <1>2, <1>3, IdleSettles DEF ContentInv

LEMMA Steady ==
  ASSUME TypeInv, NEW p \in Procs, NEW s, pc[p] = s, UNCHANGED pc
  PROVE  Goto(p, s)
BY DEF TypeInv, ControlInv, ControlTypes

LEMMA ContentOwner == TypeInv /\ PlaceInv /\ ContentInv /\ OwnerStep => ContentInv'
<1> SUFFICES ASSUME TypeInv, PlaceInv, ContentInv, OwnerStep PROVE ContentInv'
  OBVIOUS
<1> DEFINE events == disk.files["events"]
<1>0. disk \in Disk /\ events \in Artifact
  BY DEF TypeInv, DataTypes, Disk, Kinds
<1>s. /\ \A s \in {"off", "leased", "made", "recording", "prefix", "done"} : s \notin AfterPrefix
      /\ "done" \notin JournalsOpen \cup {"off", "leased", "made"}
  BY DEF AfterPrefix, AfterValidate, AfterJournals, AfterManifest, JournalsOpen
<1>j. OwnJournal(pc[Owner])
  BY DEF ContentInv
<1>u. UNCHANGED disk => SameContent /\ disk'.dir = disk.dir
  BY DEF SameContent
<1>1. CASE AcquireWriterLease
  <2>1. pc[Owner] = "off" /\ Goto(Owner, "leased") /\ UNCHANGED disk
    BY <1>1 DEF AcquireWriterLease
  <2>2. OwnJournal("leased")
    BY <1>j, <2>1 DEF OwnJournal, JournalsOpen
  <2> QED
    BY <1>s, <1>u, <2>1, <2>2, IdleSettles, ContentMoves
<1>2. CASE CreateDirectory
  <2>1. pc[Owner] = "leased" /\ Writing(Owner) /\ Goto(Owner, "made")
    BY <1>2 DEF CreateDirectory, Writing
  <2>2. disk'.dir = "partial" /\ disk'.files = disk.files
    BY <1>0, <1>2 DEF CreateDirectory, Disk
  <2>3. OwnJournal("made")'
    BY <1>j, <2>1, <2>2 DEF OwnJournal, JournalsOpen
  <2> QED
    BY <1>s, <2>1, <2>2, <2>3, IdleSettles, ContentWrites
<1>3. CASE PersistFirstManifest
  <2>1. pc[Owner] = "made" /\ Writing(Owner) /\ Goto(Owner, "recording") /\ disk.dir = "partial"
    BY <1>3 DEF PersistFirstManifest, Writing, PlaceInv, Unsealed
  <2>2. events = NoArtifact
    BY <1>j, <2>1 DEF OwnJournal
  <2>3. disk'.dir = disk.dir /\ disk'.files["events"] = [events EXCEPT !.partial = NewFile]
    BY <1>0, <1>3 DEF PersistFirstManifest, Disk, Kinds
  <2>4. OwnJournal("recording")'
    BY <2>2, <2>3 DEF OwnJournal, NoArtifact, NewFile, NoFile, Valid, BadFinal, Exists, JournalsOpen
  <2> QED
    BY <1>s, <2>1, <2>3, <2>4, IdleSettles, ContentWrites
<1>4. CASE CreateFails
  <2>1. Writing(Owner) /\ Goto(Owner, "done")
    BY <1>4 DEF CreateFails, Writing
  <2>2. disk'.dir # "sealed"
    BY <1>0, <1>4 DEF CreateFails, PlaceInv, Unsealed, Disk
  <2> QED
    BY <1>s, <2>1, <2>2, IdleSettles, ContentWrites
<1>5. CASE OwnerRecords
  <2>1. pc[Owner] = "recording" /\ Writing(Owner) /\ UNCHANGED pc /\ disk.dir = "partial"
    BY <1>5 DEF OwnerRecords, Writing, PlaceInv, Unsealed
  <2>2. /\ disk'.dir = disk.dir /\ events.partial.tail = "clean"
        /\ disk'.files["events"] = [events EXCEPT !.partial.whole = @ + 1]
    BY <1>0, <1>5 DEF OwnerRecords, AppendRecord, WriteFiles, Disk, Kinds
  <2>3. events.partial \in Contents
    BY <1>0, <2>2 DEF Artifact, NoFile
  <2>4. Exists(events.partial) /\ Valid(events.partial) /\ ~BadFinal(events)
    BY <1>j, <2>1, <2>2 DEF OwnJournal, JournalsOpen, Exists, NoFile
  <2>5. OwnJournal("recording")'
    BY <1>0, <2>2, <2>3, <2>4
       DEF OwnJournal, Artifact, Contents, Valid, BadFinal, Exists, JournalsOpen
  <2> QED
    BY <1>s, <2>1, <2>2, <2>5, Steady, IdleSettles, ContentWrites
<1>6. CASE LaunchHelper
  BY <1>6, <1>u, ContentUnmoved DEF LaunchHelper
<1>7. CASE BeginFinalization
  <2>1. pc[Owner] = "recording" /\ Goto(Owner, "prefix") /\ UNCHANGED disk
    BY <1>7 DEF BeginFinalization
  <2>2. OwnJournal("prefix")
    BY <1>j, <2>1 DEF OwnJournal, JournalsOpen
  <2> QED
    BY <1>s, <1>u, <2>1, <2>2, IdleSettles, ContentMoves
<1> QED
  BY <1>1, <1>2, <1>3, <1>4, <1>5, <1>6, <1>7 DEF OwnerStep

\* While the helper may write nobody has settled anything either.
LEMMA ContentHelperWrites ==
  ASSUME TypeInv, PlaceInv, ContentInv, helper \in {"checking", "writing"}, disk.dir = "partial",
         NEW a \in Artifact, WriteFiles("pcap", a), UNCHANGED pc
  PROVE  ContentInv'
<1>1. \A p \in Procs : pc[p] \notin Working
  <2>1. ASSUME NEW l \in Launches PROVE pc[l] \notin Working
    BY ControlIsAlone DEF TypeInv, RecoveryIsAlone
  <2>2. pc[Owner] \notin Working
    BY DEF PlaceInv
  <2> QED
    BY <2>1, <2>2
<1>2. \A p \in Procs : pc'[p] \notin AfterPrefix
  BY <1>1 DEF Working, AfterPrefix, AfterValidate, AfterJournals, AfterManifest
<1>3. disk'.dir = "partial" /\ disk'.files["events"] = disk.files["events"]
  BY WriteFilesEffect DEF TypeInv, DataTypes, Disk, Kinds
<1>4. OwnJournal(pc[Owner])'
  BY <1>3 DEF ContentInv, OwnJournal
<1> QED
  BY <1>2, <1>3, <1>4, IdleSettles DEF ContentInv

LEMMA ContentHelper == TypeInv /\ PlaceInv /\ ContentInv /\ HelperStep => ContentInv'
<1> SUFFICES ASSUME TypeInv, PlaceInv, ContentInv, HelperStep PROVE ContentInv'
  OBVIOUS
<1>0. disk \in Disk /\ disk.files["pcap"] \in Artifact
  BY DEF TypeInv, DataTypes, Disk, Kinds
<1>u. UNCHANGED disk => SameContent /\ disk'.dir = disk.dir
  BY DEF SameContent
<1>1. CASE HelperBoots
  BY <1>1, <1>u, ContentUnmoved DEF HelperBoots
<1>2. CASE HelperOpensCapture
  <2>1. [NoArtifact EXCEPT !.partial = NewFile] \in Artifact
    BY NewCaptureType
  <2> QED
    BY <1>2, <2>1, ContentHelperWrites DEF HelperOpensCapture
<1>3. CASE HelperRecords
  <2>1. PICK a \in Artifact : WriteFiles("pcap", a)
    BY <1>0, <1>3, AppendRecordType DEF HelperRecords, Kinds
  <2> QED
    BY <1>3, <2>1, ContentHelperWrites DEF HelperRecords, PlaceInv
<1>4. CASE HelperPublishes
  BY <1>0, <1>4, ArtifactOps, ContentHelperWrites DEF HelperPublishes, PlaceInv
<1>5. CASE HelperEnds
  <2>1. CASE helper = "writing"
    <3>1. PICK left \in Died(disk.files["pcap"]) : WriteFiles("pcap", left)
      BY <1>5, <2>1 DEF HelperEnds
    <3>2. left \in Artifact
      BY <1>0, ArtifactOps
    <3> QED
      BY <1>5, <2>1, <3>1, <3>2, ContentHelperWrites DEF HelperEnds, PlaceInv
  <2>2. CASE helper # "writing"
    BY <1>5, <1>u, <2>2, ContentUnmoved DEF HelperEnds
  <2> QED
    BY <2>1, <2>2
<1> QED
  BY <1>1, <1>2, <1>3, <1>4, <1>5 DEF HelperStep

\* A process works on one artifact and stays where it is.
LEMMA ContentWorks ==
  ASSUME TypeInv, PlaceInv, NEW p \in Procs, NEW s, pc[p] = s, s \in Unsealed \cap Working,
         UNCHANGED pc, disk'.dir = disk.dir, SettledAt(s)', p = Owner => OwnJournal(s)'
  PROVE  ContentInv'
<1>1. Goto(p, s) /\ Writing(p) /\ disk'.dir # "sealed"
  BY Steady DEF Writing, PlaceInv
<1> QED
  BY <1>1, ContentWrites

\* A process goes on, and nothing it looked at has changed.
LEMMA ContentGoesOn ==
  ASSUME TypeInv, ContentInv, NEW p \in Procs, NEW s, Goto(p, s), UNCHANGED disk, SettledAt(s),
         p = Owner => OwnJournal(s)
  PROVE  ContentInv'
BY ContentMoves DEF SameContent

LEMMA ContentLaunch ==
  ASSUME TypeInv, PlaceInv, ContentInv, NEW l \in Launches, LaunchStep(l)
  PROVE  ContentInv'
<1> DEFINE pcap == disk.files["pcap"]
<1>0. disk \in Disk /\ pcap \in Artifact
  BY DEF TypeInv, DataTypes, Disk, Kinds
<1>s. \A s \in {"found_partial", "found_sealed", "done", "quarantine", "prefix", "archive"} :
        s \notin AfterPrefix
  BY DEF AfterPrefix, AfterValidate, AfterJournals, AfterManifest
<1>1. CASE Scan(l)
  <2>1. Goto(l, Found) /\ UNCHANGED disk
    BY <1>1 DEF Scan
  <2>2. PICK s \in {"found_partial", "found_sealed", "done"} : Found = s
    BY DEF Found
  <2> QED
    BY <1>s, <2>1, <2>2, IdleSettles, ContentGoesOn
<1>2. CASE OpenAbandoned(l)
  <2>1. PICK s \in {"quarantine", "done"} : Goto(l, s)
    BY <1>2 DEF OpenAbandoned, Acquires, Skips
  <2>2. UNCHANGED disk
    BY <1>2 DEF OpenAbandoned, Acquires, Skips
  <2> QED
    BY <1>s, <2>1, <2>2, IdleSettles, ContentGoesOn
<1>3. CASE OpenSealed(l)
  <2>1. PICK s \in {"archive", "done"} : Goto(l, s)
    BY <1>3 DEF OpenSealed, Acquires, Skips
  <2>2. UNCHANGED disk
    BY <1>3 DEF OpenSealed, Acquires, Skips
  <2> QED
    BY <1>s, <2>1, <2>2, IdleSettles, ContentGoesOn
<1>4. CASE Quarantine(l)
  <2>1. CASE BadFinal(pcap)
    <3>1. WriteFiles("pcap", FinalAside(pcap)) /\ UNCHANGED pc /\ pc[l] = "quarantine"
      BY <1>4, <2>1 DEF Quarantine, Works
    <3>2. disk'.dir = disk.dir
      BY <1>0, <2>1, <3>1, ArtifactOps, WriteFilesEffect DEF BadFinal, Kinds
    <3> QED
      BY <1>s, <3>1, <3>2, IdleSettles, ContentWorks DEF Unsealed, Working
  <2>2. CASE ~BadFinal(pcap)
    <3>1. Goto(l, "prefix") /\ UNCHANGED disk
      BY <1>4, <2>2 DEF Quarantine, Moves
    <3> QED
      BY <1>s, <3>1, IdleSettles, ContentGoesOn
  <2> QED
    BY <2>1, <2>2
<1>5. CASE PreserveUnknownPartials(l)
  <2>1. pc[l] = "unknown" /\ Goto(l, "seal") /\ Writing(l) /\ disk.dir = "partial"
    BY <1>5 DEF PreserveUnknownPartials, Writing, Working, PlaceInv, Unsealed
  <2>2. disk'.dir = disk.dir /\ disk'.files = disk.files
    BY <1>0, <1>5 DEF PreserveUnknownPartials, Disk
  <2>3. SettledAt("unknown")
    BY <2>1 DEF ContentInv
  <2>4. SettledAt("seal")'
    BY <2>2, <2>3
       DEF SettledAt, AfterPrefix, AfterValidate, AfterJournals, AfterManifest
  <2> QED
    BY <2>1, <2>2, <2>4, ContentWrites
<1> QED
  BY <1>1, <1>2, <1>3, <1>4, <1>5 DEF LaunchStep

LEMMA ContentFinalizes ==
  ASSUME TypeInv, PlaceInv, ContentInv, NEW p \in Procs, Finalizes(p)
  PROVE  ContentInv'
<1> DEFINE pcap == disk.files["pcap"]
           events == disk.files["events"]
<1>0. /\ disk \in Disk /\ pcap \in Artifact /\ events \in Artifact
      /\ "pcap" \in Kinds /\ "events" \in Kinds
  BY DEF TypeInv, DataTypes, Disk, Kinds
<1> USE DEF AfterPrefix, AfterValidate, AfterJournals, AfterManifest
<1>a. {"prefix", "validate", "journals", "unknown", "seal", "checksums", "complete", "move"}
        \subseteq Unsealed \cap Working
  BY DEF Unsealed, Working
<1>b. SettledAt(pc[p]) /\ (p = Owner => OwnJournal(pc[p]))
  BY DEF ContentInv
<1>1. CASE RecoverPrefix(p)
  <2>1. CASE Exists(pcap.partial)
    <3>1. WriteFiles("pcap", PartialStep(pcap)) /\ UNCHANGED pc /\ pc[p] = "prefix"
      BY <1>1, <2>1 DEF RecoverPrefix, Works
    <3>2. disk'.dir = disk.dir /\ disk'.files["events"] = events
      BY <1>0, <2>1, <3>1, ArtifactOps, WriteFilesEffect DEF Disk, Kinds
    <3>3. p = Owner => OwnJournal("prefix")'
      BY <1>b, <3>1, <3>2 DEF OwnJournal
    <3> QED
      BY <1>a, <3>1, <3>2, <3>3, IdleSettles, ContentWorks
  <2>2. CASE ~Exists(pcap.partial)
    <3>1. pc[p] = "prefix" /\ Goto(p, "validate") /\ UNCHANGED disk
      BY <1>1, <2>2 DEF RecoverPrefix, Moves
    <3>2. SettledAt("validate")
      BY <2>2 DEF SettledAt
    <3>3. p = Owner => OwnJournal("validate")
      BY <1>b, <3>1 DEF OwnJournal, JournalsOpen
    <3> QED
      BY <3>1, <3>2, <3>3, ContentGoesOn
  <2> QED
    BY <2>1, <2>2
<1>2. CASE ValidateRecovered(p)
  <2>1. CASE BadFinal(pcap)
    <3>1. /\ p # Owner /\ WriteFiles("pcap", FinalAside(pcap)) /\ UNCHANGED pc
          /\ pc[p] = "validate"
      BY <1>2, <2>1 DEF ValidateRecovered, Works
    <3>6. FinalAside(pcap) \in Artifact
      BY <1>0, <2>1, ArtifactOps DEF BadFinal
    <3>2. disk'.dir = disk.dir /\ disk'.files["pcap"] = FinalAside(pcap)
      <4>1. /\ disk'.files = [disk.files EXCEPT !["pcap"] = FinalAside(pcap)]
            /\ disk'.dir = disk.dir
        BY <1>0, <3>1, <3>6, WriteFilesEffect
      <4>2. disk.files \in [Kinds -> Artifact]
        BY <1>0 DEF Disk
      <4> QED
        BY <1>0, <4>1, <4>2
    <3>3. ~Exists(pcap.partial)
      BY <1>b, <3>1 DEF SettledAt
    <3>4. FinalAside(pcap).partial = pcap.partial
      BY <1>0 DEF FinalAside, Artifact
    <3>5. SettledAt("validate")'
      BY <3>2, <3>3, <3>4 DEF SettledAt
    <3> QED
      BY <1>a, <3>1, <3>2, <3>5, ContentWorks
  <2>2. CASE ~BadFinal(pcap)
    <3>1. pc[p] = "validate" /\ Goto(p, "journals") /\ UNCHANGED disk
      BY <1>2, <2>2 DEF ValidateRecovered, Moves
    <3>2. SettledAt("journals")
      BY <1>b, <2>2, <3>1 DEF SettledAt
    <3>3. p = Owner => OwnJournal("journals")
      BY <1>b, <3>1 DEF OwnJournal, JournalsOpen
    <3> QED
      BY <3>1, <3>2, <3>3, ContentGoesOn
  <2> QED
    BY <2>1, <2>2
<1>3. CASE RecoverJournals(p)
  <2>0. pc[p] = "journals"
    BY <1>3 DEF RecoverJournals
  <2>w. ASSUME NEW a \in Artifact, WriteFiles("events", a), UNCHANGED pc,
               p = Owner => (Exists(a.partial) => Valid(a.partial)) /\ ~BadFinal(a)
        PROVE  ContentInv'
    <3>1. disk'.dir = disk.dir /\ disk'.files["pcap"] = pcap /\ disk'.files["events"] = a
      BY <1>0, <2>w, WriteFilesEffect DEF Disk, Kinds
    <3>2. SettledAt("journals")'
      BY <1>b, <2>0, <3>1 DEF SettledAt
    <3>3. p = Owner => OwnJournal("journals")'
      BY <2>w, <3>1 DEF OwnJournal
    <3> QED
      BY <1>a, <2>0, <2>w, <3>1, <3>2, <3>3, ContentWorks
  <2>1. CASE BadFinal(events) /\ p # Owner
    <3>1. WriteFiles("events", FinalAside(events)) /\ UNCHANGED pc
      BY <1>3, <2>1 DEF RecoverJournals, Works
    <3>2. Exists(events.final)
      BY <2>1 DEF BadFinal
    <3> QED
      BY <1>0, <2>1, <2>w, <3>1, <3>2, ArtifactOps
  <2>2. CASE ~(BadFinal(events) /\ p # Owner) /\ Exists(events.partial)
    <3> DEFINE a == PartialStep(events)
    <3>1. WriteFiles("events", a) /\ UNCHANGED pc
      BY <1>3, <2>2 DEF RecoverJournals, Works
    <3>2. a \in Artifact
      BY <1>0, <2>2, ArtifactOps
    <3>3. ASSUME p = Owner PROVE (Exists(a.partial) => Valid(a.partial)) /\ ~BadFinal(a)
      <4>1. Valid(events.partial) /\ ~BadFinal(events)
        BY <1>b, <2>0, <2>2, <3>3 DEF OwnJournal, JournalsOpen
      <4>2. CASE Exists(events.final)
        <5>1. a.partial = NoFile /\ a.final = events.final
          BY <1>0, <4>2 DEF PartialStep, PartialAside, Artifact
        <5> QED
          BY <4>1, <5>1 DEF Exists, BadFinal
      <4>3. CASE ~Exists(events.final)
        <5>1. a = Published(events)
          BY <4>1, <4>3 DEF PartialStep, Valid
        <5>2. a.partial = NoFile /\ a.final = events.partial
          BY <1>0, <5>1 DEF Published, Artifact
        <5> QED
          BY <4>1, <5>2 DEF Exists, BadFinal
      <4> QED
        BY <4>2, <4>3
    <3> HIDE DEF a
    <3> QED
      BY <2>w, <3>1, <3>2, <3>3
  <2>3. CASE ~(BadFinal(events) /\ p # Owner) /\ ~Exists(events.partial)
    <3>1. UNCHANGED disk /\ Goto(p, IF p = Owner THEN "seal" ELSE "unknown")
      BY <1>3, <2>3 DEF RecoverJournals, Moves
    <3>2. ~BadFinal(events)
      BY <1>b, <2>0, <2>3 DEF OwnJournal, JournalsOpen
    <3>3. SettledAt("seal") /\ SettledAt("unknown")
      BY <1>b, <2>0, <2>3, <3>2 DEF SettledAt
    <3>4. OwnJournal("seal")
      BY IdleSettles DEF JournalsOpen
    <3> QED
      BY <3>1, <3>3, <3>4, ContentGoesOn
  <2> QED
    BY <2>1, <2>2, <2>3
<1>4. CASE SealManifest(p)
  <2>1. pc[p] = "seal" /\ Goto(p, "checksums") /\ Writing(p) /\ disk.dir = "partial"
    BY <1>4 DEF SealManifest, Writing, Working, PlaceInv, Unsealed
  <2>2. PICK status : disk' = [disk EXCEPT !.manifest = [status |-> status, verified |-> HasEvidence]]
    BY <1>4 DEF SealManifest
  <2>3. disk'.dir = disk.dir /\ disk'.files = disk.files /\ disk'.manifest.verified = HasEvidence
    BY <1>0, <2>2 DEF Disk
  <2>4. SettledAt("checksums")'
    BY <1>b, <2>1, <2>3 DEF SettledAt, HasEvidence
  <2>5. OwnJournal("checksums")'
    BY IdleSettles DEF JournalsOpen
  <2> QED
    BY <2>1, <2>3, <2>4, <2>5, ContentWrites
<1>5. CASE SealChecksums(p)
  <2>1. /\ pc[p] = "checksums" /\ Goto(p, "complete") /\ Writing(p) /\ disk.dir = "partial"
        /\ ~disk.stray
    BY <1>5 DEF SealChecksums, Writing, Working, PlaceInv, Unsealed, Unfinished
  <2>2. /\ disk'.dir = disk.dir /\ disk'.files = disk.files /\ disk'.manifest = disk.manifest
        /\ disk'.stray = disk.stray /\ disk'.sums = <<Inventory(disk)>>
    BY <1>0, <1>5 DEF SealChecksums, Disk
  <2>3. Inventory(disk') = Inventory(disk)
    BY <2>2 DEF Inventory
  <2>4. SettledAt("complete")'
    BY <1>b, <2>1, <2>2, <2>3 DEF SettledAt, HasEvidence
  <2>5. OwnJournal("complete")'
    BY IdleSettles DEF JournalsOpen
  <2> QED
    BY <2>1, <2>2, <2>4, <2>5, ContentWrites
<1>6. CASE SealComplete(p)
  <2>1. pc[p] = "complete" /\ Goto(p, "move") /\ Writing(p) /\ disk.dir = "partial"
    BY <1>6 DEF SealComplete, Writing, Working, PlaceInv, Unsealed
  <2>2. /\ disk'.dir = disk.dir /\ disk'.files = disk.files /\ disk'.manifest = disk.manifest
        /\ disk'.stray = disk.stray /\ disk'.sums = disk.sums
        /\ disk'.complete = <<[status |-> disk.manifest.status, sums |-> disk.sums]>>
    BY <1>0, <1>6 DEF SealComplete, Disk
  <2>3. Inventory(disk') = Inventory(disk)
    BY <2>2 DEF Inventory
  <2>4. SettledAt("move")'
    BY <1>b, <2>1, <2>2, <2>3 DEF SettledAt, HasEvidence
  <2>5. OwnJournal("move")'
    BY IdleSettles DEF JournalsOpen
  <2> QED
    BY <2>1, <2>2, <2>4, <2>5, ContentWrites
<1>7. CASE SealMove(p)
  <2>1. pc[p] = "move" /\ Goto(p, "archive") /\ Writing(p)
    BY <1>7 DEF SealMove, Writing, Working
  <2>2. SameContent
    BY <1>0, <1>7 DEF SealMove, Disk, SameContent
  <2>3. SettledAt("move")'
    BY <1>b, <2>1, <2>2, SettledSame
  <2>4. SettledAt("archive")' /\ OwnJournal("archive")'
    BY IdleSettles DEF JournalsOpen
  <2> QED
    BY <2>1, <2>3, <2>4, ContentWrites
<1>8. CASE WriteArchive(p)
  <2>1. Goto(p, "publish") /\ UNCHANGED disk
    BY <1>8 DEF WriteArchive
  <2>2. SettledAt("publish") /\ OwnJournal("publish")
    BY IdleSettles DEF JournalsOpen
  <2> QED
    BY <2>1, <2>2, ContentGoesOn
<1>c. SettledAt("done") /\ OwnJournal("done") /\ SettledAt("failed") /\ OwnJournal("failed")
  BY IdleSettles DEF JournalsOpen
<1>9. CASE PublishArchive(p)
  <2>1. Goto(p, "done") /\ SameContent /\ disk'.dir = disk.dir
    BY <1>0, <1>9 DEF PublishArchive, Disk, SameContent
  <2> QED
    BY <1>c, <2>1, ContentMoves
<1>10. CASE StepRefused(p)
  BY <1>c, <1>10, ContentGoesOn DEF StepRefused, Throws
<1>11. CASE StepFails(p)
  BY <1>c, <1>11, ContentGoesOn DEF StepFails, Throws
<1>12. CASE ProcessEnds(p)
  <2>1. PICK left, temporary :
          /\ left \in IF p = Owner /\ pc[p] \in JournalsOpen THEN Died(events) ELSE {events}
          /\ temporary \in IF pc[p] \in InAtomicWrite THEN BOOLEAN ELSE {FALSE}
          /\ disk' = [disk EXCEPT !.files["events"] = left, !.stray = @ \/ temporary]
    BY <1>12 DEF ProcessEnds
  <2>2. Goto(p, "gone") /\ SettledAt("gone")' /\ OwnJournal("gone")'
        /\ SettledAt("gone") /\ OwnJournal("gone")
    BY <1>12, IdleSettles DEF ProcessEnds, JournalsOpen
  <2>3. disk'.dir = disk.dir
    BY <1>0, <2>1 DEF Disk
  <2>4. CASE pc[p] \in Unsealed
    <3>1. disk.dir = "partial" /\ Writing(p)
      BY <2>4 DEF PlaceInv, Unsealed, Writing
    <3> QED
      BY <2>2, <2>3, <3>1, ContentWrites
  <2>5. CASE pc[p] \notin Unsealed
    <3>1. pc[p] \notin JournalsOpen /\ pc[p] \notin InAtomicWrite
      BY <2>5 DEF Unsealed, Working, JournalsOpen, InAtomicWrite
    <3>2. left = events /\ temporary = FALSE
      BY <2>1, <3>1
    <3>3. SameContent
      BY <1>0, <2>1, <3>2 DEF Disk, SameContent
    <3> QED
      BY <2>2, <2>3, <3>3, ContentMoves
  <2> QED
    BY <2>4, <2>5
<1> QED
  BY <1>1, <1>2, <1>3, <1>4, <1>5, <1>6, <1>7, <1>8, <1>9, <1>10, <1>11, <1>12 DEF Finalizes

LEMMA ContentNext == TypeInv /\ PlaceInv /\ ContentInv /\ [StoreNext]_storeVars => ContentInv'
<1> SUFFICES ASSUME TypeInv, PlaceInv, ContentInv, [StoreNext]_storeVars PROVE ContentInv'
  OBVIOUS
<1>1. CASE Deserted \/ UNCHANGED storeVars
  BY <1>1, ContentUnmoved DEF Deserted, storeVars, SameContent
<1> QED
  BY <1>1, ContentOwner, ContentHelper, ContentLaunch, ContentFinalizes DEF StoreNext

StoreInv == TypeInv /\ PlaceInv /\ ContentInv

LEMMA StoreInvHolds == StoreSpec => []StoreInv
BY ContentInit, ContentNext, PlaceHolds, TypesHold, PTL DEF StoreSpec, StoreInv

\* A sealed directory passes the validator, and holds no unfinished file and no final
\* one that a reader would refuse, whoever sealed it and after whatever crashes.
THEOREM StoreSealedIsWhole == StoreSpec => []SealedIsWhole
<1>1. StoreInv => SealedIsWhole
  BY DEF StoreInv, ContentInv, SettledAt, SealedIsWhole, ValidSession, Unfinished, Kinds,
         AfterPrefix, AfterValidate, AfterJournals, AfterManifest
<1> QED
  BY <1>1, StoreInvHolds, PTL

\* It claims authoritative evidence exactly when a valid PCAP with a record is there.
THEOREM StoreEvidenceIsReal == StoreSpec => []EvidenceIsReal
<1>1. StoreInv => EvidenceIsReal
  BY DEF StoreInv, ContentInv, SettledAt, EvidenceIsReal, HasEvidence, BadFinal,
         AfterPrefix, AfterValidate, AfterJournals, AfterManifest
<1> QED
  BY <1>1, StoreInvHolds, PTL

(***************************************************************************)
(* What was recorded. Each file operation keeps every whole record; the    *)
(* one that would replace a file, the helper's own publication, finds no   *)
(* final file, because the helper opened its capture in an empty place.    *)
(***************************************************************************)
Keeps(a, b) == \A old \in Held(a) : \E new \in Held(b) : Whole(new) >= Whole(old)

LEMMA KeepsItself == \A a \in Artifact : Keeps(a, a)
<1> SUFFICES ASSUME NEW a \in Artifact, NEW old \in Held(a)
             PROVE  Whole(old) >= Whole(old)
  BY DEF Keeps
<1>1. old \in Contents \cup {NoFile}
  BY DEF Held, Artifact
<1> QED
  BY <1>1 DEF Whole, Exists, Contents

LEMMA WholeIsNat == \A file \in Contents \cup {NoFile} : Whole(file) \in Nat
BY DEF Whole, Exists, Contents

LEMMA KeepsAll ==
  ASSUME NEW a \in Artifact, NEW b \in Artifact,
         Exists(a.partial) => \E new \in Held(b) : Whole(new) >= Whole(a.partial),
         Exists(a.final) => \E new \in Held(b) : Whole(new) >= Whole(a.final),
         a.aside \subseteq b.aside
  PROVE  Keeps(a, b)
<1> SUFFICES ASSUME NEW old \in Held(a)
             PROVE  \E new \in Held(b) : Whole(new) >= Whole(old)
  BY DEF Keeps
<1>1. CASE old \in a.aside
  <2>1. old \in Held(b) /\ old \in Contents
    BY <1>1 DEF Held, Artifact
  <2>2. Whole(old) \in Nat
    BY <2>1, WholeIsNat
  <2> QED
    BY <2>1, <2>2
<1>2. CASE ~Exists(old)
  <2>1. b.final \in Held(b) /\ Whole(b.final) \in Nat /\ Whole(old) = 0
    BY <1>2, WholeIsNat DEF Held, Artifact, Whole
  <2> QED
    BY <2>1
<1>3. CASE Exists(old) /\ old \in {a.partial, a.final}
  BY <1>3
<1> QED
  BY <1>1, <1>2, <1>3 DEF Held

LEMMA KeepsPartialAside ==
  ASSUME NEW a \in Artifact, Exists(a.partial) PROVE Keeps(a, PartialAside(a))
<1> DEFINE b == PartialAside(a)
<1>1. b \in Artifact
  BY ArtifactOps
<1>2. b.final = a.final /\ b.aside = a.aside \cup {a.partial}
  BY DEF PartialAside, Artifact
<1>3. a.final \in Held(b) /\ a.partial \in Held(b)
  BY <1>2 DEF Held
<1>4. Whole(a.final) \in Nat /\ Whole(a.partial) \in Nat
  BY WholeIsNat DEF Artifact
<1> HIDE DEF b
<1> QED
  BY <1>1, <1>2, <1>3, <1>4, KeepsAll DEF b

LEMMA KeepsFinalAside ==
  ASSUME NEW a \in Artifact, Exists(a.final) PROVE Keeps(a, FinalAside(a))
<1> DEFINE b == FinalAside(a)
<1>1. b \in Artifact
  BY ArtifactOps
<1>2. b.partial = a.partial /\ b.aside = a.aside \cup {a.final}
  BY DEF FinalAside, Artifact
<1>3. a.final \in Held(b) /\ a.partial \in Held(b)
  BY <1>2 DEF Held
<1>4. Whole(a.final) \in Nat /\ Whole(a.partial) \in Nat
  BY WholeIsNat DEF Artifact
<1> HIDE DEF b
<1> QED
  BY <1>1, <1>2, <1>3, <1>4, KeepsAll DEF b

LEMMA KeepsPublished ==
  ASSUME NEW a \in Artifact, ~Exists(a.final) PROVE Keeps(a, Published(a))
<1> DEFINE b == Published(a)
<1>1. b \in Artifact
  BY ArtifactOps
<1>2. b.final = a.partial /\ b.aside = a.aside
  BY DEF Published, Artifact
<1>3. a.partial \in Held(b)
  BY <1>2 DEF Held
<1>4. Whole(a.partial) \in Nat
  BY WholeIsNat DEF Artifact
<1> HIDE DEF b
<1> QED
  BY <1>1, <1>2, <1>3, <1>4, KeepsAll DEF b

\* The partial file is replaced by one with no fewer whole records.
LEMMA KeepsPartialAs ==
  ASSUME NEW a \in Artifact, Exists(a.partial), NEW c \in Contents, c.whole >= a.partial.whole
  PROVE  Keeps(a, [a EXCEPT !.partial = c])
<1> DEFINE b == [a EXCEPT !.partial = c]
<1>1. b \in Artifact /\ b.partial = c /\ b.final = a.final /\ b.aside = a.aside
  BY DEF Artifact
<1>2. c \in Held(b) /\ a.final \in Held(b) /\ Whole(a.final) \in Nat
  BY <1>1, WholeIsNat DEF Held, Artifact
<1>3. Whole(c) >= Whole(a.partial)
  BY DEF Whole, Exists, NoFile, Contents, Artifact
<1>4. \E new \in Held(b) : Whole(new) >= Whole(a.partial)
  BY <1>2, <1>3
<1>5. \E new \in Held(b) : Whole(new) >= Whole(a.final)
  <2>1. Whole(a.final) >= Whole(a.final)
    BY <1>2
  <2> QED
    BY <1>2, <2>1
<1>6. a.aside \subseteq b.aside
  BY <1>1
<1>7. b \in Artifact
  BY <1>1
<1> HIDE DEF b
<1>8. Keeps(a, b)
  BY <1>4, <1>5, <1>6, <1>7, KeepsAll
<1> QED
  BY <1>8 DEF b

LEMMA KeepsPartialStep ==
  ASSUME NEW a \in Artifact, Exists(a.partial) PROVE Keeps(a, PartialStep(a))
<1>1. CASE Exists(a.final) \/ a.partial.tail = "bad"
  BY <1>1, KeepsPartialAside DEF PartialStep
<1>2. CASE ~(Exists(a.final) \/ a.partial.tail = "bad") /\ a.partial.tail = "torn"
  <2> DEFINE c == [a.partial EXCEPT !.tail = "clean"]
  <2>1. c \in Contents /\ c.whole >= a.partial.whole
    BY DEF Artifact, Exists, Contents
  <2>2. PartialStep(a) = [a EXCEPT !.partial = c]
    BY <1>2 DEF PartialStep, Trimmed
  <2> HIDE DEF c
  <2> QED
    BY <2>1, <2>2, KeepsPartialAs
<1>3. CASE ~(Exists(a.final) \/ a.partial.tail = "bad") /\ a.partial.tail # "torn"
  BY <1>3, KeepsPublished DEF PartialStep
<1> QED
  BY <1>1, <1>2, <1>3

LEMMA KeepsDied == ASSUME NEW a \in Artifact, NEW left \in Died(a) PROVE Keeps(a, left)
<1>1. CASE Exists(a.partial)
  <2>1. PICK c \in {rest \in Contents : rest.whole = a.partial.whole} : left = [a EXCEPT !.partial = c]
    BY <1>1 DEF Died
  <2>2. c \in Contents /\ c.whole >= a.partial.whole
    BY <2>1 DEF Contents
  <2> QED
    BY <1>1, <2>1, <2>2, KeepsPartialAs
<1>2. CASE ~Exists(a.partial)
  BY <1>2, KeepsItself DEF Died
<1> QED
  BY <1>1, <1>2

FilesKept == \A kind \in Kinds : Keeps(disk.files[kind], disk'.files[kind])

LEMMA SameFilesKept == ASSUME TypeInv, disk'.files = disk.files PROVE FilesKept
BY KeepsItself DEF FilesKept, TypeInv, DataTypes, Disk

LEMMA OneFileKept ==
  ASSUME TypeInv, NEW kind \in Kinds, NEW a \in Artifact, Keeps(disk.files[kind], a),
         disk'.files = [disk.files EXCEPT ![kind] = a]
  PROVE  FilesKept
BY KeepsItself DEF FilesKept, TypeInv, DataTypes, Disk

LEMMA WritesKept ==
  ASSUME TypeInv, NEW kind \in Kinds, NEW a \in Artifact, Keeps(disk.files[kind], a),
         WriteFiles(kind, a)
  PROVE  FilesKept
BY OneFileKept, WriteFilesEffect DEF TypeInv, DataTypes

LEMMA AppendKept == ASSUME TypeInv, NEW kind \in Kinds, AppendRecord(kind) PROVE FilesKept
<1> DEFINE a == disk.files[kind]
           c == [a.partial EXCEPT !.whole = @ + 1]
<1>1. a \in Artifact /\ a.partial.tail = "clean" /\ a.partial.whole < MaxRecords
  BY DEF AppendRecord, TypeInv, DataTypes, Disk
<1>2. a.partial \in Contents /\ Exists(a.partial)
  BY <1>1 DEF Artifact, NoFile, Exists
<1>3. c \in Contents /\ c.whole >= a.partial.whole
  BY <1>1, <1>2 DEF Contents
<1>4. WriteFiles(kind, [a EXCEPT !.partial = c])
  BY DEF AppendRecord
<1>5. [a EXCEPT !.partial = c] \in Artifact
  BY <1>1, <1>3 DEF Artifact
<1> HIDE DEF c
<1> QED
  BY <1>1, <1>2, <1>3, <1>4, <1>5, KeepsPartialAs, WritesKept

\* While the helper writes, there is its partial file or its final one, never both.
CaptureInv ==
  LET a == disk.files["pcap"] IN
  helper = "writing" => ~(Exists(a.partial) /\ Exists(a.final))

LEMMA CaptureUntouched ==
  ASSUME CaptureInv, disk'.files["pcap"] = disk.files["pcap"],
         helper' = helper \/ helper' # "writing"
  PROVE  CaptureInv'
BY DEF CaptureInv

\* Nobody but the helper is at a file of the capture while it writes.
LEMMA NoWriterBeside ==
  ASSUME TypeInv, PlaceInv, NEW p \in Procs, pc[p] \in Working PROVE helper # "writing"
<1>1. RecoveryIsAlone
  BY ControlIsAlone DEF TypeInv
<1> QED
  BY <1>1 DEF RecoveryIsAlone, PlaceInv

LEMMA KeptOwner ==
  TypeInv /\ PlaceInv /\ ContentInv /\ CaptureInv /\ OwnerStep => CaptureInv' /\ FilesKept
<1> SUFFICES ASSUME TypeInv, PlaceInv, ContentInv, CaptureInv, OwnerStep
             PROVE  CaptureInv' /\ FilesKept
  OBVIOUS
<1>0. disk \in Disk /\ disk.files \in [Kinds -> Artifact]
  BY DEF TypeInv, DataTypes, Disk
<1>1. CASE AcquireWriterLease \/ LaunchHelper \/ BeginFinalization
  <2>1. disk' = disk /\ (helper' = helper \/ helper' # "writing")
    BY <1>1 DEF AcquireWriterLease, LaunchHelper, BeginFinalization
  <2> QED
    BY <2>1, CaptureUntouched, SameFilesKept
<1>2. CASE CreateDirectory \/ CreateFails
  <2>1. disk'.files = disk.files /\ helper' = helper
    BY <1>0, <1>2 DEF CreateDirectory, CreateFails, Disk
  <2> QED
    BY <2>1, CaptureUntouched, SameFilesKept
<1>3. CASE PersistFirstManifest
  <2> DEFINE new == [NoArtifact EXCEPT !.partial = NewFile]
  <2>1. disk.files["events"] = NoArtifact /\ helper' = helper
    BY <1>3 DEF PersistFirstManifest, ContentInv, OwnJournal
  <2>2. new \in Artifact
    BY NewCaptureType
  <2>3. disk'.files = [disk.files EXCEPT !["events"] = [disk.files["events"] EXCEPT !.partial = NewFile]]
    BY <1>0, <1>3 DEF PersistFirstManifest, Disk
  <2>4. disk'.files = [disk.files EXCEPT !["events"] = new]
    BY <2>1, <2>3
  <2>5. Keeps(NoArtifact, new)
    <3>1. ~Exists(NoArtifact.partial) /\ ~Exists(NoArtifact.final) /\ NoArtifact.aside = {}
      BY DEF NoArtifact, Exists
    <3>2. NoArtifact \in Artifact
      BY DEF NoArtifact, Artifact
    <3> QED
      BY <2>2, <3>1, <3>2, KeepsAll
  <2> HIDE DEF new
  <2>6. disk'.files["pcap"] = disk.files["pcap"]
    BY <1>0, <2>4 DEF Kinds
  <2> QED
    BY <2>1, <2>2, <2>4, <2>5, <2>6, CaptureUntouched, OneFileKept DEF Kinds
<1>4. CASE OwnerRecords
  <2>1. PICK a \in Artifact : WriteFiles("events", a)
    BY <1>0, <1>4, AppendRecordType DEF OwnerRecords, Kinds
  <2>2. disk'.files = [disk.files EXCEPT !["events"] = a]
    BY <1>0, <2>1 DEF WriteFiles, Disk
  <2>3. disk'.files["pcap"] = disk.files["pcap"]
    BY <1>0, <2>2 DEF Kinds
  <2> QED
    BY <1>4, <2>3, CaptureUntouched, AppendKept DEF OwnerRecords, Kinds
<1> QED
  BY <1>1, <1>2, <1>3, <1>4 DEF OwnerStep

LEMMA KeptHelper ==
  TypeInv /\ PlaceInv /\ CaptureInv /\ HelperStep => CaptureInv' /\ FilesKept
<1> SUFFICES ASSUME TypeInv, PlaceInv, CaptureInv, HelperStep PROVE CaptureInv' /\ FilesKept
  OBVIOUS
<1> DEFINE pcap == disk.files["pcap"]
<1>0. disk \in Disk /\ disk.files \in [Kinds -> Artifact] /\ pcap \in Artifact
  BY DEF TypeInv, DataTypes, Disk, Kinds
<1>f. ASSUME NEW a \in Artifact, WriteFiles("pcap", a) PROVE disk'.files["pcap"] = a
  <2>1. disk'.files = [disk.files EXCEPT !["pcap"] = a]
    BY <1>0, <1>f DEF WriteFiles, Disk
  <2> QED
    BY <1>0, <2>1 DEF Kinds
<1>1. CASE HelperBoots
  BY <1>1, CaptureUntouched, SameFilesKept DEF HelperBoots
<1>2. CASE HelperOpensCapture
  <2> DEFINE new == [NoArtifact EXCEPT !.partial = NewFile]
  <2>1. new \in Artifact /\ new.final = NoFile /\ WriteFiles("pcap", new) /\ pcap = NoArtifact
    BY <1>2, NewCaptureType DEF HelperOpensCapture, NoArtifact
  <2>2. Keeps(NoArtifact, new)
    <3>1. ~Exists(NoArtifact.partial) /\ ~Exists(NoArtifact.final) /\ NoArtifact.aside = {}
      BY DEF NoArtifact, Exists
    <3>2. NoArtifact \in Artifact
      BY DEF NoArtifact, Artifact
    <3> QED
      BY <2>1, <3>1, <3>2, KeepsAll
  <2> HIDE DEF new
  <2>3. CaptureInv'
    BY <1>f, <2>1 DEF CaptureInv, Exists
  <2> QED
    BY <2>1, <2>2, <2>3, WritesKept DEF Kinds
<1>3. CASE HelperRecords
  <2> DEFINE c == [pcap.partial EXCEPT !.whole = @ + 1]
             b == [pcap EXCEPT !.partial = c]
  <2>1. helper = "writing" /\ pcap.partial.tail = "clean" /\ pcap.partial.whole < MaxRecords
    BY <1>3 DEF HelperRecords, AppendRecord
  <2>2. pcap.partial \in Contents /\ Exists(pcap.partial)
    BY <1>0, <2>1 DEF Artifact, NoFile, Exists
  <2>3. c \in Contents
    BY <2>1, <2>2 DEF Contents
  <2>4. WriteFiles("pcap", b)
    BY <1>3 DEF HelperRecords, AppendRecord
  <2>5. b \in Artifact /\ b.final = pcap.final
    BY <1>0, <2>3 DEF Artifact
  <2> HIDE DEF b
  <2>6. CaptureInv'
    BY <1>f, <2>1, <2>2, <2>4, <2>5 DEF CaptureInv
  <2> QED
    BY <1>3, <2>6, AppendKept DEF HelperRecords, Kinds
<1>4. CASE HelperPublishes
  <2>1. helper = "writing" /\ Exists(pcap.partial) /\ WriteFiles("pcap", Published(pcap))
    BY <1>4 DEF HelperPublishes
  <2>2. ~Exists(pcap.final)
    BY <2>1 DEF CaptureInv
  <2>3. Published(pcap) \in Artifact /\ Published(pcap).partial = NoFile
    BY <1>0, ArtifactOps DEF Published, Artifact
  <2>4. CaptureInv'
    BY <1>f, <2>1, <2>3 DEF CaptureInv, Exists
  <2> QED
    BY <1>0, <2>1, <2>2, <2>3, <2>4, KeepsPublished, WritesKept DEF Kinds
<1>5. CASE HelperEnds
  <2>1. CASE helper = "writing"
    <3>1. PICK left \in Died(pcap) : WriteFiles("pcap", left)
      BY <1>5, <2>1 DEF HelperEnds
    <3>2. left \in Artifact
      BY <1>0, ArtifactOps
    <3>3. CaptureInv'
      BY <1>5 DEF HelperEnds, CaptureInv
    <3> QED
      BY <1>0, <3>1, <3>2, <3>3, KeepsDied, WritesKept DEF Kinds
  <2>2. CASE helper # "writing"
    BY <1>5, <2>2, CaptureUntouched, SameFilesKept DEF HelperEnds
  <2> QED
    BY <2>1, <2>2
<1> QED
  BY <1>1, <1>2, <1>3, <1>4, <1>5 DEF HelperStep

LEMMA KeptLaunch ==
  ASSUME TypeInv, PlaceInv, CaptureInv, NEW l \in Launches, LaunchStep(l)
  PROVE  CaptureInv' /\ FilesKept
<1> DEFINE pcap == disk.files["pcap"]
<1>0. disk \in Disk /\ pcap \in Artifact
  BY DEF TypeInv, DataTypes, Disk, Kinds
<1>1. CASE Scan(l) \/ OpenAbandoned(l) \/ OpenSealed(l) \/ PreserveUnknownPartials(l)
  <2>1. disk'.files = disk.files /\ helper' = helper
    BY <1>0, <1>1
       DEF Scan, OpenAbandoned, OpenSealed, PreserveUnknownPartials, Acquires, Skips, Disk
  <2> QED
    BY <2>1, CaptureUntouched, SameFilesKept
<1>2. CASE Quarantine(l)
  <2>1. CASE BadFinal(pcap)
    <3>1. WriteFiles("pcap", FinalAside(pcap)) /\ helper' = helper /\ pc[l] \in Working
      BY <1>2, <2>1 DEF Quarantine, Works, Working
    <3>2. FinalAside(pcap) \in Artifact /\ Keeps(pcap, FinalAside(pcap))
      BY <1>0, <2>1, ArtifactOps, KeepsFinalAside DEF BadFinal
    <3>3. CaptureInv'
      BY <3>1, NoWriterBeside DEF CaptureInv
    <3> QED
      BY <3>1, <3>2, <3>3, WritesKept DEF Kinds
  <2>2. CASE ~BadFinal(pcap)
    BY <1>2, <2>2, CaptureUntouched, SameFilesKept DEF Quarantine, Moves
  <2> QED
    BY <2>1, <2>2
<1> QED
  BY <1>1, <1>2 DEF LaunchStep

LEMMA KeptFinalizes ==
  ASSUME TypeInv, PlaceInv, CaptureInv, NEW p \in Procs, Finalizes(p)
  PROVE  CaptureInv' /\ FilesKept
<1> DEFINE pcap == disk.files["pcap"]
           events == disk.files["events"]
<1>0. disk \in Disk /\ disk.files \in [Kinds -> Artifact] /\ pcap \in Artifact /\ events \in Artifact
  BY DEF TypeInv, DataTypes, Disk, Kinds
<1>w. ASSUME pc[p] \in Working, helper' = helper PROVE CaptureInv'
  BY <1>w, NoWriterBeside DEF CaptureInv
<1>s. ASSUME disk'.files = disk.files, helper' = helper PROVE CaptureInv' /\ FilesKept
  BY <1>s, CaptureUntouched, SameFilesKept
<1>1. CASE RecoverPrefix(p)
  <2>1. CASE Exists(pcap.partial)
    <3>1. /\ WriteFiles("pcap", PartialStep(pcap)) /\ helper' = helper /\ pc[p] \in Working
          /\ PartialStep(pcap) \in Artifact
      BY <1>0, <1>1, <2>1, ArtifactOps DEF RecoverPrefix, Works, Working
    <3> QED
      BY <1>0, <1>w, <2>1, <3>1, KeepsPartialStep, WritesKept DEF Kinds
  <2>2. CASE ~Exists(pcap.partial)
    BY <1>1, <1>s, <2>2 DEF RecoverPrefix, Moves
  <2> QED
    BY <2>1, <2>2
<1>2. CASE ValidateRecovered(p)
  <2>1. CASE BadFinal(pcap)
    <3>1. /\ WriteFiles("pcap", FinalAside(pcap)) /\ helper' = helper /\ pc[p] \in Working
          /\ Exists(pcap.final)
      BY <1>2, <2>1 DEF ValidateRecovered, Works, Working, BadFinal
    <3>2. FinalAside(pcap) \in Artifact
      BY <1>0, <3>1, ArtifactOps
    <3> QED
      BY <1>0, <1>w, <3>1, <3>2, KeepsFinalAside, WritesKept DEF Kinds
  <2>2. CASE ~BadFinal(pcap)
    BY <1>2, <1>s, <2>2 DEF ValidateRecovered, Moves
  <2> QED
    BY <2>1, <2>2
<1>3. CASE RecoverJournals(p)
  <2>0. pc[p] \in Working
    BY <1>3 DEF RecoverJournals, Working
  <2>1. CASE BadFinal(events) /\ p # Owner
    <3>1. WriteFiles("events", FinalAside(events)) /\ helper' = helper /\ Exists(events.final)
      BY <1>3, <2>1 DEF RecoverJournals, Works, BadFinal
    <3>2. FinalAside(events) \in Artifact
      BY <1>0, <3>1, ArtifactOps
    <3> QED
      BY <1>0, <1>w, <2>0, <3>1, <3>2, KeepsFinalAside, WritesKept DEF Kinds
  <2>2. CASE ~(BadFinal(events) /\ p # Owner) /\ Exists(events.partial)
    <3>1. /\ WriteFiles("events", PartialStep(events)) /\ helper' = helper
          /\ PartialStep(events) \in Artifact
      BY <1>0, <1>3, <2>2, ArtifactOps DEF RecoverJournals, Works
    <3> QED
      BY <1>0, <1>w, <2>0, <2>2, <3>1, KeepsPartialStep, WritesKept DEF Kinds
  <2>3. CASE ~(BadFinal(events) /\ p # Owner) /\ ~Exists(events.partial)
    BY <1>3, <1>s, <2>3 DEF RecoverJournals, Moves
  <2> QED
    BY <2>1, <2>2, <2>3
<1>4. CASE SealManifest(p) \/ SealChecksums(p) \/ SealComplete(p) \/ SealMove(p)
  <2>1. disk'.files = disk.files /\ helper' = helper
    BY <1>0, <1>4 DEF SealManifest, SealChecksums, SealComplete, SealMove, Disk
  <2> QED
    BY <1>s, <2>1
<1>5. CASE WriteArchive(p) \/ PublishArchive(p)
  <2>1. disk'.files = disk.files /\ helper' = helper
    BY <1>0, <1>5 DEF WriteArchive, PublishArchive, Disk
  <2> QED
    BY <1>s, <2>1
<1>6. CASE StepRefused(p) \/ StepFails(p)
  BY <1>6, <1>s DEF StepRefused, StepFails, Throws
<1>7. CASE ProcessEnds(p)
  <2>1. PICK left, temporary :
          /\ left \in IF p = Owner /\ pc[p] \in JournalsOpen THEN Died(events) ELSE {events}
          /\ disk' = [disk EXCEPT !.files["events"] = left, !.stray = @ \/ temporary]
    BY <1>7 DEF ProcessEnds
  <2>2. disk'.files = [disk.files EXCEPT !["events"] = left]
    BY <1>0, <2>1 DEF Disk
  <2>3. left \in Artifact /\ Keeps(events, left)
    BY <1>0, <2>1, ArtifactOps, KeepsDied, KeepsItself
  <2>4. disk'.files["pcap"] = disk.files["pcap"] /\ helper' = helper
    BY <1>0, <1>7, <2>2 DEF ProcessEnds, Kinds
  <2> QED
    BY <2>2, <2>3, <2>4, OneFileKept, CaptureUntouched DEF Kinds
<1> QED
  BY <1>1, <1>2, <1>3, <1>4, <1>5, <1>6, <1>7 DEF Finalizes

LEMMA KeptNext ==
  StoreInv /\ CaptureInv /\ [StoreNext]_storeVars => CaptureInv' /\ FilesKept
<1> SUFFICES ASSUME StoreInv, CaptureInv, [StoreNext]_storeVars PROVE CaptureInv' /\ FilesKept
  OBVIOUS
<1>0. TypeInv /\ PlaceInv /\ ContentInv
  BY DEF StoreInv
<1>1. CASE Deserted \/ UNCHANGED storeVars
  BY <1>0, <1>1, CaptureUntouched, SameFilesKept DEF Deserted, storeVars
<1> QED
  BY <1>0, <1>1, KeptOwner, KeptHelper, KeptLaunch, KeptFinalizes DEF StoreNext

LEMMA CaptureHolds == StoreSpec => [](StoreInv /\ CaptureInv)
<1>1. StoreInit => CaptureInv
  BY DEF StoreInit, CaptureInv
<1> QED
  BY <1>1, KeptNext, StoreInvHolds, PTL DEF StoreSpec

\* No step of anybody, crash or recovery loses a whole record of the session.
THEOREM StoreRecordsSurvive == StoreSpec => RecordsSurvive
<1>1. StoreInv /\ CaptureInv /\ [StoreNext]_storeVars
        => \A kind \in Kinds : \A old \in Held(disk.files[kind]) :
             \E new \in Held(disk'.files[kind]) : Whole(new) >= Whole(old)
  BY KeptNext DEF FilesKept, Keeps
<1> QED
  BY <1>1, CaptureHolds, PTL DEF StoreSpec, RecordsSurvive

(***************************************************************************)
(* What a launch that nobody disturbs makes of the session. Everybody else *)
(* is gone or has not come, so nobody holds the lease and no step of its   *)
(* work is refused.                                                        *)
(***************************************************************************)
HoldersInv ==
  /\ \A l \in Launches : l \in lease => pc[l] \in Working
  /\ Owner \in lease => Started(Owner)
  /\ "helper" \in lease => helper \in {"checking", "writing"}

LEMMA HoldersNext == TypeInv /\ HoldersInv /\ [StoreNext]_storeVars => HoldersInv'
<1> SUFFICES ASSUME TypeInv, HoldersInv, [StoreNext]_storeVars PROVE HoldersInv'
  OBVIOUS
<1>0. pc \in [Procs -> Steps]
  BY DEF TypeInv, ControlInv, ControlTypes
<1>s. ASSUME UNCHANGED <<pc, lease, helper>> PROVE HoldersInv'
  BY <1>s DEF HoldersInv, Started
<1>m. ASSUME NEW p \in Procs, NEW s, Goto(p, s), UNCHANGED <<lease, helper>>,
             pc[p] \in Working => s \in Working \cup {"failed"},
             s = "failed" => p = Owner, s \notin {"off", "gone"}
      PROVE  HoldersInv'
  BY <1>0, <1>m DEF HoldersInv, Started, Working
<1>r. ASSUME NEW p \in Procs, NEW s, Goto(p, s), Release(p), UNCHANGED helper PROVE HoldersInv'
  BY <1>0, <1>r DEF HoldersInv, Started, Release
<1>t. ASSUME NEW p \in Procs, Throws(p) PROVE HoldersInv'
  <2>1. CASE p = Owner
    BY <1>m, <1>t, <2>1 DEF Throws
  <2>2. CASE p # Owner
    BY <1>r, <1>t, <2>2 DEF Throws
  <2> QED
    BY <2>1, <2>2
<1>1. CASE OwnerStep
  <2>1. CASE AcquireWriterLease
    BY <1>0, <2>1 DEF AcquireWriterLease, HoldersInv, Started, Working
  <2>2. CASE CreateFails
    BY <1>r, <2>2 DEF CreateFails
  <2>3. CASE OwnerRecords \/ LaunchHelper
    <3>1. UNCHANGED <<pc, lease>> /\ (helper' = helper \/ helper = "none")
      BY <2>3 DEF OwnerRecords, LaunchHelper
    <3> QED
      BY <3>1 DEF HoldersInv, Started
  <2>4. CASE CreateDirectory \/ PersistFirstManifest \/ BeginFinalization
    BY <1>m, <2>4 DEF CreateDirectory, PersistFirstManifest, BeginFinalization, Working
  <2> QED
    BY <1>1, <2>1, <2>2, <2>3, <2>4 DEF OwnerStep
<1>2. CASE HelperStep
  <2>1. CASE HelperBoots
    BY <2>1 DEF HelperBoots, HoldersInv, Started
  <2>2. CASE HelperEnds
    BY <2>2 DEF HelperEnds, HoldersInv, Started, Release
  <2>3. CASE HelperOpensCapture \/ HelperRecords \/ HelperPublishes
    BY <2>3 DEF HelperOpensCapture, HelperRecords, HelperPublishes, HoldersInv, Started
  <2> QED
    BY <1>2, <2>1, <2>2, <2>3 DEF HelperStep
<1>3. ASSUME NEW l \in Launches, LaunchStep(l) PROVE HoldersInv'
  <2>1. CASE Scan(l)
    <3>1. PICK s \in {"found_partial", "found_sealed", "done"} : s = Found
      BY DEF Found
    <3>2. pc[l] = "off" /\ Goto(l, s) /\ UNCHANGED <<lease, helper>>
      BY <2>1, <3>1 DEF Scan
    <3> QED
      BY <1>m, <3>2 DEF Working
  <2>2. ASSUME NEW s \in Working, Acquires(l, s) PROVE HoldersInv'
    BY <1>0, <2>2 DEF Acquires, HoldersInv, Started
  <2>3. CASE OpenAbandoned(l) \/ OpenSealed(l)
    BY <1>m, <2>2, <2>3 DEF OpenAbandoned, OpenSealed, Skips, Working
  <2>4. CASE Quarantine(l) \/ PreserveUnknownPartials(l)
    BY <1>m, <1>s, <2>4 DEF Quarantine, PreserveUnknownPartials, Works, Moves, Working
  <2> QED
    BY <1>3, <2>1, <2>3, <2>4 DEF LaunchStep
<1>4. ASSUME NEW p \in Procs, Finalizes(p) PROVE HoldersInv'
  <2>1. CASE RecoverPrefix(p) \/ ValidateRecovered(p) \/ RecoverJournals(p)
    BY <1>m, <1>s, <2>1 DEF RecoverPrefix, ValidateRecovered, RecoverJournals, Works, Moves, Working
  <2>2. CASE SealManifest(p) \/ SealChecksums(p) \/ SealComplete(p) \/ SealMove(p) \/ WriteArchive(p)
    <3>1. PICK s \in {"checksums", "complete", "move", "archive", "publish"} : Goto(p, s)
      BY <2>2 DEF SealManifest, SealChecksums, SealComplete, SealMove, WriteArchive
    <3>2. UNCHANGED <<lease, helper>>
      BY <2>2 DEF SealManifest, SealChecksums, SealComplete, SealMove, WriteArchive
    <3> QED
      BY <1>m, <3>1, <3>2 DEF Working
  <2>3. CASE PublishArchive(p) \/ ProcessEnds(p)
    BY <1>r, <2>3 DEF PublishArchive, ProcessEnds
  <2>4. CASE StepRefused(p) \/ StepFails(p)
    BY <1>t, <2>4 DEF StepRefused, StepFails
  <2> QED
    BY <1>4, <2>1, <2>2, <2>3, <2>4 DEF Finalizes
<1>5. CASE Deserted \/ UNCHANGED storeVars
  BY <1>s, <1>5 DEF Deserted, storeVars
<1> QED
  BY <1>1, <1>2, <1>3, <1>4, <1>5 DEF StoreNext

\* How far the repair has come at a step.
RepairedAt(step) ==
  /\ step \notin {"off", "gone"}
  /\ step = "found_partial" => disk.dir = "partial"
  /\ step \in Resealing => disk.archive = <<>>
  /\ step \in {"seal", "checksums"} => ~disk.stray
  /\ step = "done" /\ disk.dir # "none" /\ disk.manifest # NoManifest => disk.archive # <<>>

RepairInv ==
  \A l \in quiet :
    /\ helper \in {"none", "gone"} /\ \A p \in Procs \ {l} : ~Started(p)
    /\ RepairedAt(pc[l])

\* Whoever has started is the undisturbed launch, if there is one.
LEMMA Undisturbed ==
  ASSUME TypeInv, RepairInv, NEW p \in Procs, Started(p)
  PROVE  quiet \subseteq {p} /\ (quiet # {} => p \in Launches)
BY DEF RepairInv, TypeInv, DataTypes

LEMMA RepairMoves ==
  ASSUME TypeInv, RepairInv, NEW p \in Procs, Started(p), NEW s, Goto(p, s), UNCHANGED helper,
         quiet' \subseteq quiet, p \in quiet' => RepairedAt(s)'
  PROVE  RepairInv'
<1> SUFFICES ASSUME NEW l \in quiet'
             PROVE  /\ helper' \in {"none", "gone"} /\ \A q \in Procs \ {l} : ~Started(q)'
                    /\ RepairedAt(pc[l])'
  BY DEF RepairInv
<1>1. l \in quiet /\ l = p
  BY Undisturbed
<1>2. pc'[p] = s /\ \A q \in Procs \ {l} : pc'[q] = pc[q]
  BY <1>1 DEF TypeInv, ControlInv, ControlTypes
<1>3. pc'[l] = s
  BY <1>1, <1>2
<1>4. \A q \in Procs \ {l} : ~Started(q)'
  BY <1>1, <1>2 DEF RepairInv, Started
<1>5. RepairedAt(pc[l])'
  BY <1>1, <1>3
<1> QED
  BY <1>1, <1>4, <1>5 DEF RepairInv

\* A step within one artifact.
LEMMA RepairWorks ==
  ASSUME TypeInv, RepairInv, NEW kind \in Kinds, NEW a, WriteFiles(kind, a),
         UNCHANGED <<pc, helper, quiet>>
  PROVE  RepairInv'
<1>1. /\ disk'.dir = disk.dir /\ disk'.archive = disk.archive /\ disk'.stray = disk.stray
      /\ disk'.manifest = disk.manifest
  BY DEF WriteFiles, TypeInv, DataTypes, Disk
<1> QED
  BY <1>1 DEF RepairInv, RepairedAt, Started

\* Nobody undisturbed is there to be looked at.
LEMMA RepairVacuous == ASSUME quiet' = {} PROVE RepairInv'
BY DEF RepairInv

LEMMA RepairOwner == TypeInv /\ RepairInv /\ OwnerStep => RepairInv'
<1> SUFFICES ASSUME TypeInv, RepairInv, OwnerStep PROVE RepairInv'
  OBVIOUS
<1>1. CASE AcquireWriterLease
  BY <1>1, RepairVacuous DEF AcquireWriterLease
<1>2. CASE ~AcquireWriterLease
  <2>1. Started(Owner) /\ quiet' = quiet
    BY <1>2 DEF OwnerStep, CreateDirectory, PersistFirstManifest, CreateFails, OwnerRecords,
                LaunchHelper, BeginFinalization, Started
  <2>2. quiet = {}
    BY <2>1, Undisturbed
  <2> QED
    BY <2>1, <2>2, RepairVacuous
<1> QED
  BY <1>1, <1>2

LEMMA RepairHelper == TypeInv /\ RepairInv /\ HelperStep => RepairInv'
<1> SUFFICES ASSUME TypeInv, RepairInv, HelperStep PROVE RepairInv'
  OBVIOUS
<1>1. helper \notin {"none", "gone"} /\ quiet' = quiet
  BY DEF HelperStep, HelperBoots, HelperOpensCapture, HelperRecords, HelperPublishes, HelperEnds
<1>2. quiet = {}
  BY <1>1 DEF RepairInv
<1> QED
  BY <1>1, <1>2, RepairVacuous

\* With everybody else gone, the lease is free.
LEMMA LeaseIsFree ==
  ASSUME TypeInv, PlaceInv, HoldersInv, RepairInv, NEW l \in quiet,
         pc[l] \in {"found_partial", "found_sealed"}, disk.dir # "none"
  PROVE  ExclusiveLeaseFree
<1>1. l \in Launches /\ lease \subseteq Procs \cup {"helper"}
  BY DEF TypeInv, DataTypes, ControlInv, ControlTypes
<1>2. helper \in {"none", "gone"} /\ \A p \in Procs \ {l} : ~Started(p)
  BY DEF RepairInv
<1>3. l \notin lease /\ "helper" \notin lease
  BY <1>1, <1>2 DEF HoldersInv, Working
<1>4. \A p \in Procs \ {l} : p \notin lease
  BY <1>2 DEF HoldersInv, Started, Working
<1>5. pc[Owner] # "off"
  BY DEF PlaceInv
<1> QED
  BY <1>1, <1>3, <1>4, <1>5 DEF ExclusiveLeaseFree

LEMMA RepairLaunch ==
  ASSUME StoreInv, HoldersInv, RepairInv, NEW l \in Launches, LaunchStep(l)
  PROVE  RepairInv'
<1>0. TypeInv /\ PlaceInv /\ ContentInv /\ disk \in Disk /\ pc \in [Procs -> Steps]
  BY DEF StoreInv, TypeInv, DataTypes, ControlInv, ControlTypes
<1>1. CASE Scan(l)
  <2>1. CASE ~Alone
    BY <1>1, <2>1, RepairVacuous DEF Scan
  <2>2. CASE Alone
    <3>1. quiet' = {l} /\ UNCHANGED <<disk, helper>> /\ pc' = [pc EXCEPT ![l] = Found]
      BY <1>1, <2>2 DEF Scan
    <3>2. pc'[l] = Found /\ \A p \in Procs \ {l} : pc'[p] = pc[p]
      BY <1>0, <3>1
    <3>3. helper' \in {"none", "gone"} /\ \A p \in Procs \ {l} : ~Started(p)'
      BY <2>2, <3>1, <3>2 DEF Alone, Started
    <3>4. RepairedAt(Found)
      BY <1>0 DEF RepairedAt, Found, Disk, Resealing
    <3>5. RepairedAt(pc[l])'
      BY <3>1, <3>2, <3>4 DEF RepairedAt
    <3> QED
      BY <3>1, <3>3, <3>5 DEF RepairInv
  <2> QED
    BY <2>1, <2>2
<1>2. CASE OpenAbandoned(l)
  <2>1. pc[l] = "found_partial" /\ Started(l) /\ UNCHANGED <<disk, helper, quiet>>
    BY <1>2 DEF OpenAbandoned, Started, Acquires, Skips
  <2>2. CASE ExclusiveLeaseFree /\ disk.dir = "partial" /\ disk.manifest # NoManifest
    <3>1. Goto(l, "quarantine")
      BY <1>2, <2>2 DEF OpenAbandoned, Acquires
    <3>2. RepairedAt("quarantine")'
      BY DEF RepairedAt, Resealing
    <3> QED
      BY <1>0, <2>1, <3>1, <3>2, RepairMoves
  <2>3. CASE ~(ExclusiveLeaseFree /\ disk.dir = "partial" /\ disk.manifest # NoManifest)
    <3>1. Goto(l, "done")
      BY <1>2, <2>3 DEF OpenAbandoned, Skips
    <3>2. ASSUME l \in quiet PROVE disk.manifest = NoManifest
      <4>1. disk.dir = "partial"
        BY <2>1, <3>2 DEF RepairInv, RepairedAt
      <4> QED
        BY <1>0, <2>1, <2>3, <3>2, <4>1, LeaseIsFree
    <3>3. l \in quiet' => RepairedAt("done")'
      BY <2>1, <3>2 DEF RepairedAt, Resealing
    <3> QED
      BY <1>0, <2>1, <3>1, <3>3, RepairMoves
  <2> QED
    BY <2>2, <2>3
<1>3. CASE OpenSealed(l)
  <2>1. pc[l] = "found_sealed" /\ Started(l) /\ UNCHANGED <<disk, helper, quiet>>
    BY <1>3 DEF OpenSealed, Started, Acquires, Skips
  <2>2. disk.dir = "sealed" /\ ValidSession(disk)
    <3>1. disk.dir = "sealed"
      BY <1>0, <2>1 DEF PlaceInv, Resealing
    <3> QED
      BY <1>0, <3>1 DEF ContentInv, SettledAt, ValidSession
  <2>3. CASE ExclusiveLeaseFree /\ disk.archive = <<>>
    <3>1. Goto(l, "archive")
      BY <1>3, <2>2, <2>3 DEF OpenSealed, Acquires
    <3>2. RepairedAt("archive")'
      BY <2>1, <2>3 DEF RepairedAt
    <3> QED
      BY <1>0, <2>1, <3>1, <3>2, RepairMoves
  <2>4. CASE ~(ExclusiveLeaseFree /\ disk.archive = <<>>)
    <3>1. Goto(l, "done")
      BY <1>3, <2>4 DEF OpenSealed, Skips
    <3>2. l \notin quiet
      <4>1. ASSUME l \in quiet PROVE ExclusiveLeaseFree /\ disk.archive = <<>>
        BY <1>0, <2>1, <2>2, <4>1, LeaseIsFree DEF RepairInv, RepairedAt, Resealing
      <4> QED
        BY <2>4, <4>1
    <3> QED
      BY <1>0, <2>1, <3>1, <3>2, RepairMoves
  <2> QED
    BY <2>3, <2>4
<1>4. CASE Quarantine(l)
  <2>1. CASE BadFinal(disk.files["pcap"])
    BY <1>0, <1>4, <2>1, RepairWorks DEF Quarantine, Works, Kinds
  <2>2. CASE ~BadFinal(disk.files["pcap"])
    <3>1. Started(l) /\ Goto(l, "prefix") /\ UNCHANGED <<helper, quiet>>
      BY <1>4, <2>2 DEF Quarantine, Moves, Started
    <3>2. RepairedAt("prefix")'
      BY DEF RepairedAt, Resealing
    <3> QED
      BY <1>0, <3>1, <3>2, RepairMoves
  <2> QED
    BY <2>1, <2>2
<1>5. CASE PreserveUnknownPartials(l)
  <2>1. Started(l) /\ Goto(l, "seal") /\ UNCHANGED <<helper, quiet>>
    BY <1>5 DEF PreserveUnknownPartials, Started
  <2>2. disk'.stray = FALSE
    BY <1>0, <1>5 DEF PreserveUnknownPartials, Disk
  <2>3. RepairedAt("seal")'
    BY <2>2 DEF RepairedAt, Resealing
  <2> QED
    BY <1>0, <2>1, <2>3, RepairMoves
<1> QED
  BY <1>1, <1>2, <1>3, <1>4, <1>5 DEF LaunchStep

\* The code refuses nothing of what an undisturbed launch does.
LEMMA NothingRefused == ASSUME StoreInv, RepairInv, NEW l \in quiet PROVE ~Refuses(l)
<1>0. TypeInv /\ PlaceInv /\ ContentInv /\ l \in Launches /\ l \in Procs /\ l # Owner
  BY DEF StoreInv, TypeInv, DataTypes
<1>1. pc[l] = "checksums" => ~Unfinished(disk)
  BY <1>0 DEF ContentInv, SettledAt, RepairInv, RepairedAt, Unfinished, Kinds,
              AfterPrefix, AfterValidate, AfterJournals, AfterManifest
<1>2. pc[l] = "move" => disk.dir = "partial"
  BY <1>0 DEF PlaceInv, Unsealed, Working
<1>3. pc[l] = "archive" => ValidSession(disk)
  BY <1>0 DEF PlaceInv, Resealing, ContentInv, SettledAt, ValidSession
<1>4. pc[l] \in {"archive", "publish"} => disk.archive = <<>>
  BY DEF RepairInv, RepairedAt, Resealing
<1> QED
  BY <1>0, <1>1, <1>2, <1>3, <1>4 DEF Refuses

LEMMA RepairFinalizes ==
  ASSUME StoreInv, RepairInv, NEW p \in Procs, Finalizes(p)
  PROVE  RepairInv'
<1>0. TypeInv /\ PlaceInv /\ ContentInv /\ disk \in Disk /\ Kinds = {"pcap", "events"}
  BY DEF StoreInv, TypeInv, DataTypes, Kinds
<1>m. ASSUME NEW s \in {"validate", "journals", "unknown", "complete", "move"}, Goto(p, s),
             pc[p] \in Working, UNCHANGED <<helper, quiet>>
      PROVE  RepairInv'
  <2>1. Started(p)
    BY <1>m DEF Started, Working
  <2>2. RepairedAt(s)'
    BY DEF RepairedAt, Resealing
  <2> QED
    BY <1>0, <1>m, <2>1, <2>2, RepairMoves
<1>1. CASE RecoverPrefix(p)
  BY <1>0, <1>1, <1>m, RepairWorks DEF RecoverPrefix, Works, Moves, Working
<1>2. CASE ValidateRecovered(p)
  BY <1>0, <1>2, <1>m, RepairWorks DEF ValidateRecovered, Works, Moves, Working
<1>3. CASE RecoverJournals(p)
  <2>1. CASE ~(UNCHANGED pc)
    <3>1. /\ Goto(p, IF p = Owner THEN "seal" ELSE "unknown")
          /\ UNCHANGED <<helper, quiet>> /\ pc[p] \in Working /\ Started(p)
      BY <1>3, <2>1 DEF RecoverJournals, Works, Moves, Working, Started
    <3>2. CASE p = Owner
      <4>1. p \notin quiet
        BY <1>0, <3>2 DEF TypeInv, DataTypes
      <4> QED
        BY <1>0, <3>1, <3>2, <4>1, RepairMoves
    <3>3. CASE p # Owner
      BY <1>m, <3>1, <3>3
    <3> QED
      BY <3>2, <3>3
  <2>2. CASE UNCHANGED pc
    <3>1. CASE \E a : WriteFiles("events", a) /\ UNCHANGED <<pc, helper, quiet>>
      BY <1>0, <3>1, RepairWorks
    <3>2. CASE UNCHANGED <<pc, helper, quiet, disk>>
      BY <3>2 DEF RepairInv, RepairedAt, Started
    <3> QED
      BY <1>3, <2>2, <3>1, <3>2 DEF RecoverJournals, Works, Moves
  <2> QED
    BY <2>1, <2>2
<1>4. CASE SealManifest(p)
  <2>1. Started(p) /\ Goto(p, "checksums") /\ UNCHANGED <<helper, quiet>> /\ pc[p] = "seal"
    BY <1>4 DEF SealManifest, Started
  <2>2. disk'.stray = disk.stray
    BY <1>0, <1>4 DEF SealManifest, Disk
  <2>3. p \in quiet' => RepairedAt("checksums")'
    BY <2>1, <2>2 DEF RepairInv, RepairedAt, Resealing
  <2> QED
    BY <1>0, <2>1, <2>3, RepairMoves
<1>5. CASE SealChecksums(p) \/ SealComplete(p)
  BY <1>5, <1>m DEF SealChecksums, SealComplete, Working
<1>6. CASE SealMove(p)
  <2>1. Started(p) /\ Goto(p, "archive") /\ UNCHANGED <<helper, quiet>> /\ disk.dir = "partial"
    BY <1>6 DEF SealMove, Started
  <2>2. disk'.archive = <<>>
    BY <1>0, <1>6, <2>1 DEF SealMove, Disk, PlaceInv
  <2>3. RepairedAt("archive")'
    BY <2>2 DEF RepairedAt
  <2> QED
    BY <1>0, <2>1, <2>3, RepairMoves
<1>7. CASE WriteArchive(p)
  <2>1. Started(p) /\ Goto(p, "publish") /\ UNCHANGED <<helper, quiet, disk>> /\ disk.archive = <<>>
    BY <1>7 DEF WriteArchive, Started
  <2>2. RepairedAt("publish")'
    BY <2>1 DEF RepairedAt
  <2> QED
    BY <1>0, <2>1, <2>2, RepairMoves
<1>8. CASE PublishArchive(p)
  <2>1. Started(p) /\ Goto(p, "done") /\ UNCHANGED <<helper, quiet>> /\ pc[p] = "publish"
    BY <1>8 DEF PublishArchive, Started
  <2>2. disk'.archive = <<Directory(disk)>>
    BY <1>0, <1>8 DEF PublishArchive, PlaceInv, Disk
  <2>3. RepairedAt("done")'
    BY <2>2 DEF RepairedAt, Resealing
  <2> QED
    BY <1>0, <2>1, <2>3, RepairMoves
<1>9. CASE StepRefused(p)
  <2>1. p \notin quiet /\ quiet' = quiet /\ helper' = helper
    BY <1>9, NothingRefused DEF StepRefused, Throws
  <2>2. PICK s : Goto(p, s)
    BY <1>9 DEF StepRefused, Throws
  <2>3. Started(p)
    BY <1>9 DEF StepRefused, Refuses, Started
  <2> QED
    BY <1>0, <2>1, <2>2, <2>3, RepairMoves
<1>10. CASE StepFails(p) \/ ProcessEnds(p)
  <2>1. p \notin quiet' /\ quiet' \subseteq quiet /\ helper' = helper /\ Started(p)
    BY <1>10 DEF StepFails, ProcessEnds, Throws, Started, Working
  <2>2. PICK s : Goto(p, s)
    BY <1>10 DEF StepFails, ProcessEnds, Throws
  <2> QED
    BY <1>0, <2>1, <2>2, RepairMoves
<1> QED
  BY <1>1, <1>2, <1>3, <1>4, <1>5, <1>6, <1>7, <1>8, <1>9, <1>10 DEF Finalizes

LEMMA RepairNext ==
  StoreInv /\ HoldersInv /\ RepairInv /\ [StoreNext]_storeVars => HoldersInv' /\ RepairInv'
<1> SUFFICES ASSUME StoreInv, HoldersInv, RepairInv, [StoreNext]_storeVars
             PROVE  HoldersInv' /\ RepairInv'
  OBVIOUS
<1>0. TypeInv
  BY DEF StoreInv
<1>1. ASSUME Deserted \/ UNCHANGED storeVars PROVE RepairInv'
  <2>1. UNCHANGED storeVars
    BY <1>1 DEF Deserted
  <2>2. UNCHANGED <<pc, helper, quiet, disk>>
    BY <2>1 DEF storeVars
  <2>3. \A s : RepairedAt(s) => RepairedAt(s)'
    BY <2>2 DEF RepairedAt
  <2>4. \A l \in quiet' : RepairedAt(pc[l])'
    BY <2>2, <2>3 DEF RepairInv
  <2> QED
    BY <2>2, <2>4 DEF RepairInv, Started
<1>2. RepairInv'
  BY <1>0, <1>1, RepairOwner, RepairHelper, RepairLaunch, RepairFinalizes DEF StoreNext
<1> QED
  BY <1>0, <1>2, HoldersNext

\* A launch that nothing disturbs leaves a session with its archive, whatever the
\* crashes before it left, unless not even a manifest had been written.
THEOREM StoreLaunchRepairs == StoreSpec => []LaunchRepairs
<1>1. StoreInit => HoldersInv /\ RepairInv
  BY DEF StoreInit, HoldersInv, RepairInv
<1>2. RepairInv => LaunchRepairs
  BY DEF RepairInv, RepairedAt, LaunchRepairs
<1> QED
  BY <1>1, <1>2, RepairNext, StoreInvHolds, PTL DEF StoreSpec

\* A sealed session is whole, and claims exactly the evidence that lies in it.
THEOREM StoreSealedIsTrue == StoreSpec => []SealedIsTrue
BY StoreTypes, StoreSealedIsWhole, StoreEvidenceIsReal, PTL DEF SealedIsTrue
=============================================================================
