-------------------------- MODULE ResearchExportProofs --------------------------
(***************************************************************************)
(* Theorems about the export of a session and about the derivation of the  *)
(* bins it writes. First the export, for any number of exports into any    *)
(* places, of which one may lie in another: unless an output stands in a   *)
(* staging directory, what is published is whole and stays, and what fails *)
(* cleans up after itself and touches nothing else. Then the derivation,   *)
(* for every width of a bin, every range of numbers and every stream of    *)
(* reports. The two share no variable.                                     *)
(***************************************************************************)
EXTENDS ResearchExport, MillisecondDeriver, FiniteSetTheorems, SequenceTheorems,
        WellFoundedInduction, TLAPS

Early   == {"validate", "place", "read", "parents", "inspect", "create"}
Writing == {"write", "remove"}
Names   == {Artifacts[i] : i \in 1..Len(Artifacts)}
Name    == Seq(STRING \cup {"partial"})
Path    == Seq(Name)

Dir == [by : Exporters \cup {"nobody"}, files : SUBSET Names, listed : SUBSET Names]

ExportTypeOK ==
  /\ target \in [Exporters -> Outputs]
  /\ pc \in [Exporters -> Early \cup Writing \cup Over]
  /\ written \in [Exporters -> 0..Len(Artifacts)]
  /\ \A path \in DOMAIN dirs : path \in Path /\ dirs[path] \in Dir

\* The first n artifacts.
FirstArtifacts(n) == {Artifacts[i] : i \in 1..n}

\* A directory an export made for its output to stand in.
IsParent(p, path) == path \in Above(p) /\ dirs[path].files = {}

\* An export that has not created its staging directory yet, or has removed it, owns
\* such directories only.
IdleOwnsParents(p) ==
  \/ pc[p] \in Early
  \/ pc[p] = "failed" /\ <<p, "remove">> \notin faulted
  => \A path \in DOMAIN dirs : dirs[path].by = p => IsParent(p, path)

\* One that writes owns its staging directory, too, and knows what is in it.
WriterOwnsStaging(p) ==
  pc[p] \in Writing =>
    /\ Exists(Staging(p)) /\ dirs[Staging(p)].by = p
    /\ \A path \in DOMAIN dirs : dirs[path].by = p => path = Staging(p) \/ IsParent(p, path)
    /\ pc[p] = "write" =>
         /\ dirs[Staging(p)].files = FirstArtifacts(written[p])
         /\ written[p] = Len(Artifacts) =>
              dirs[Staging(p)].listed = FirstArtifacts(Len(Artifacts) - 1)

\* One that has finished owns what it has published.
FinishedIsWhole(p) ==
  pc[p] = "done" =>
    Exists(target[p]) /\ dirs[target[p]].by = p /\ Complete(dirs[target[p]])

\* What holds of an export which is not enclosed.
Orderly(p) == IdleOwnsParents(p) /\ WriterOwnsStaging(p) /\ FinishedIsWhole(p)

\* The directories that stood before, and that no staging directory is one of them.
StandingStay ==
  /\ \A path \in Standing : Exists(path) /\ dirs[path] = New("nobody")
  /\ \A p \in Exporters : pc[p] \in Writing => Staging(p) \notin Standing

\* Only a source that can be exported gets an export to make a directory.
Admission ==
  /\ \A p \in Exporters :
       /\ pc[p] \in {"validate", "place", "read", "parents", "inspect", "create"} => written[p] = 0
       /\ pc[p] \in {"place", "read"} => source.sealed /\ source.required
       /\ pc[p] \notin {"validate", "place", "read", "failed", "dead"} => SourceServes
  /\ ~SourceServes => DOMAIN dirs = Standing

ExportInv ==
  /\ ExportTypeOK /\ StandingStay /\ Admission
  /\ \A p \in Exporters : ~Enclosed(p) => Orderly(p)

\* The manifest is the last artifact, and no other one.
LEMMA ManifestIsLast ==
  /\ Len(Artifacts) = 9
  /\ Artifacts[9] = Manifest
  /\ \A i \in 1..8 : Artifacts[i] # Manifest
  /\ ToSet(Artifacts) = FirstArtifacts(9)
  /\ Names = FirstArtifacts(9)
  /\ FirstArtifacts(8) = ToSet(Artifacts) \ {Manifest}
  /\ FirstArtifacts(0) = {}
<1>1. Len(Artifacts) = 9 /\ DOMAIN Artifacts = 1..9
  BY DEF Artifacts
<1>2. Artifacts[9] = Manifest
  BY DEF Artifacts
<1>3. ASSUME NEW i \in 1..8 PROVE Artifacts[i] # Manifest
  BY DEF Artifacts, Manifest, ClockFit
<1>4. ToSet(Artifacts) = FirstArtifacts(9) /\ Names = FirstArtifacts(9)
  BY <1>1 DEF ToSet, FirstArtifacts, Names
<1>5. FirstArtifacts(9) = FirstArtifacts(8) \cup {Manifest}
  <2>1. 1..9 = 1..8 \cup {9}
    OBVIOUS
  <2> QED
    BY <1>2, <2>1 DEF FirstArtifacts
<1>6. Manifest \notin FirstArtifacts(8)
  BY <1>3 DEF FirstArtifacts
<1>7. FirstArtifacts(0) = {}
  BY DEF FirstArtifacts
<1> QED
  BY <1>1, <1>2, <1>3, <1>4, <1>5, <1>6, <1>7

\* One more artifact.
LEMMA OneMoreArtifact ==
  ASSUME NEW n \in 0..8
  PROVE  FirstArtifacts(n + 1) = FirstArtifacts(n) \cup {Artifacts[n + 1]}
<1>1. 1..(n + 1) = 1..n \cup {n + 1}
  OBVIOUS
<1> QED
  BY <1>1 DEF FirstArtifacts

(***************************************************************************)
(* Paths.                                                                  *)
(***************************************************************************)
LEMMA GivenPaths == Outputs \cup Standing \subseteq Path
<1>1. Seq(STRING) \subseteq Name
  <2> SUFFICES ASSUME NEW name \in Seq(STRING) PROVE name \in Name
    OBVIOUS
  <2>1. STRING \subseteq STRING \cup {"partial"}
    OBVIOUS
  <2> QED
    BY <2>1, SeqMonotonic DEF Name
<1>2. ASSUME NEW path \in Seq(Seq(STRING)) PROVE path \in Path
  BY <1>1, SeqMonotonic DEF Path
<1> QED
  BY <1>2, ExportAssumption

\* The staging directory differs from the output in its last name.
LEMMA StagingShape ==
  ASSUME NEW p \in Exporters, target \in [Exporters -> Outputs]
  PROVE  /\ target[p] \in Path /\ Staging(p) \in Path
         /\ Len(target[p]) \in Nat /\ Len(target[p]) > 1
         /\ Len(Staging(p)) = Len(target[p])
         /\ \A i \in 1..Len(target[p]) :
              i # Len(target[p]) => Staging(p)[i] = target[p][i]
         /\ Staging(p) # target[p]
<1> DEFINE T == target[p]
           n == Len(T)
<1>1. T \in Path /\ n > 1
  BY GivenPaths, ExportAssumption
<1>2. n \in Nat /\ n \in 1..n /\ T[n] \in Name
  BY <1>1, LenProperties, ElementOfSeq DEF Path
<1>3. /\ Append(T[n], "partial") \in Name
      /\ Len(Append(T[n], "partial")) = Len(T[n]) + 1 /\ Len(T[n]) \in Nat
  <2> HIDE DEF T, n
  <2>1. "partial" \in STRING \cup {"partial"} /\ T[n] \in Seq(STRING \cup {"partial"})
    BY <1>2 DEF Name
  <2>2. /\ Append(T[n], "partial") \in Seq(STRING \cup {"partial"})
        /\ Len(Append(T[n], "partial")) = Len(T[n]) + 1
    BY <2>1, AppendProperties
  <2>3. Len(T[n]) \in Nat
    BY <2>1, LenProperties
  <2> QED
    BY <2>2, <2>3 DEF Name
<1>4. Staging(p) = [T EXCEPT ![n] = Append(T[n], "partial")]
  BY DEF Staging
<1> HIDE DEF T, n
<1>5. /\ Staging(p) \in Path /\ Len(Staging(p)) = Len(T)
      /\ \A j \in 1..Len(T) : Staging(p)[j] = IF j = n THEN Append(T[n], "partial") ELSE T[j]
  BY <1>1, <1>2, <1>3, <1>4, ExceptSeq DEF Path, n
<1>6. Staging(p)[n] # T[n]
  <2>1. Append(T[n], "partial") # T[n]
    BY <1>3
  <2>2. Staging(p)[n] = Append(T[n], "partial")
    BY <1>2, <1>5 DEF n
  <2> QED
    BY <2>1, <2>2
<1> QED
  BY <1>1, <1>2, <1>5, <1>6 DEF T, n

\* A path above the output is shorter, and like it.
LEMMA AboveShape ==
  ASSUME NEW p \in Exporters, target \in [Exporters -> Outputs], NEW path \in Above(p)
  PROVE  /\ path \in Path
         /\ Len(path) \in 1..(Len(target[p]) - 1)
         /\ \A i \in 1..Len(path) : path[i] = target[p][i]
<1>1. PICK n \in 1..(Len(target[p]) - 1) : path = SubSeq(target[p], 1, n)
  BY DEF Above, Along
<1>2. target[p] \in Path /\ Len(target[p]) \in Nat
  BY StagingShape
<1>3. n \in Int /\ \A i \in 1..n : target[p][i] \in Name
  BY <1>2, ElementOfSeq DEF Path
<1>4. /\ path \in Path /\ Len(path) = n
      /\ \A i \in 1..n : path[i] = target[p][i]
  BY <1>1, <1>3, SubSeqProperties DEF Path
<1> QED
  BY <1>4

\* The paths up to one are paths.
LEMMA AlongArePaths ==
  ASSUME NEW path \in Path, NEW n \in Nat, n <= Len(path)
  PROVE  Along(path, n) \subseteq Path
<1> SUFFICES ASSUME NEW i \in 1..n PROVE SubSeq(path, 1, i) \in Path
  BY DEF Along
<1>1. Len(path) \in Nat
  BY LenProperties DEF Path
<1>2. \A j \in 1..i : path[j] \in Name
  BY <1>1, ElementOfSeq DEF Path
<1> QED
  BY <1>2, SubSeqProperties DEF Path

\* A directory that stood before stands in no other directory.
LEMMA StandingIsClosed ==
  ASSUME NEW path \in Standing, NEW root \in Path, Len(root) > 0, Within(path, root)
  PROVE  root \in Standing
<1>1. path \in Path /\ Len(root) \in Nat /\ Len(path) \in Nat /\ Len(root) \in 1..Len(path)
  BY GivenPaths, LenProperties DEF Path, Within
<1>2. SubSeq(path, 1, Len(root)) \in Standing
  BY <1>1, ExportAssumption
<1>3. \A i \in 1..Len(root) : path[i] \in Name
  BY <1>1, ElementOfSeq DEF Path
<1>4. /\ SubSeq(path, 1, Len(root)) \in Path /\ Len(SubSeq(path, 1, Len(root))) = Len(root)
      /\ \A i \in 1..Len(root) : SubSeq(path, 1, Len(root))[i] = path[i]
  BY <1>1, <1>3, SubSeqProperties DEF Path
<1>5. SubSeq(path, 1, Len(root)) = root
  BY <1>4, SeqEqual DEF Path, Within
<1> QED
  BY <1>2, <1>5

\* What is renamed gets the name of the output, and would get its own back.
LEMMA RenamedBack ==
  ASSUME NEW p \in Exporters, target \in [Exporters -> Outputs],
         NEW path \in Path, Within(path, Staging(p))
  PROVE  /\ Renamed(path, Staging(p), target[p]) \in Path
         /\ Renamed(Renamed(path, Staging(p), target[p]), target[p], Staging(p)) = path
         /\ path = Staging(p) => Renamed(path, Staging(p), target[p]) = target[p]
<1> DEFINE n == Len(target[p])
           to == Renamed(path, Staging(p), target[p])
           back == Renamed(to, target[p], Staging(p))
<1>1. /\ target[p] \in Path /\ Staging(p) \in Path /\ n \in Nat /\ n > 1
      /\ Len(Staging(p)) = n
      /\ \A i \in 1..n : i # n => Staging(p)[i] = target[p][i]
  BY StagingShape
<1>2. Len(path) \in Nat /\ n \in 1..Len(path) /\ path[n] = Staging(p)[n]
  BY <1>1, LenProperties DEF Path, Within
<1>3. target[p][n] \in Name /\ Staging(p)[n] \in Name
  BY <1>1, ElementOfSeq DEF Path
<1>4. /\ to \in Path /\ Len(to) = Len(path)
      /\ \A i \in 1..Len(path) : to[i] = IF i = n THEN target[p][n] ELSE path[i]
  BY <1>1, <1>2, <1>3, ExceptSeq DEF Path, Renamed
<1>5. back = [to EXCEPT ![n] = Staging(p)[n]]
  BY <1>1 DEF Renamed
<1> HIDE DEF to, back
<1>6. /\ back \in Path /\ Len(back) = Len(path)
      /\ \A i \in 1..Len(path) : back[i] = IF i = n THEN Staging(p)[n] ELSE to[i]
  BY <1>2, <1>3, <1>4, <1>5, ExceptSeq DEF Path
<1>7. \A i \in 1..Len(path) : back[i] = path[i]
  BY <1>2, <1>4, <1>6
<1>8. back = path
  BY <1>6, <1>7, SeqEqual DEF Path
<1>9. ASSUME path = Staging(p) PROVE to = target[p]
  <2>1. Len(to) = n /\ \A i \in 1..n : to[i] = target[p][i]
    BY <1>1, <1>4, <1>9
  <2> QED
    BY <1>1, <1>4, <2>1, SeqEqual DEF Path
<1> QED
  BY <1>4, <1>8, <1>9 DEF to, back

\* Of an export that is not enclosed, nothing stands in a staging directory unless
\* it has the very name of that; and no enclosed export has a staging directory of
\* one of these names.
LEMMA Apart ==
  ASSUME NEW p \in Exporters, NEW q \in Exporters, target \in [Exporters -> Outputs],
         ~Enclosed(p)
  PROVE  /\ Within(Staging(p), Staging(q)) => Staging(p) = Staging(q)
         /\ Within(target[p], Staging(q)) => target[p] = Staging(q)
         /\ \A path \in Above(p) : ~Within(path, Staging(q))
         /\ Enclosed(q) => Staging(q) \notin {Staging(p), target[p]} \cup Above(p)
<1> DEFINE n == Len(target[p])
<1>1. /\ target[p] \in Path /\ Staging(p) \in Path /\ n \in Nat /\ n > 1
      /\ Len(Staging(p)) = n
      /\ \A i \in 1..n : i # n => Staging(p)[i] = target[p][i]
  BY StagingShape
<1>2. \A r \in Exporters : ~Inside(target[p], Staging(r))
  BY DEF Enclosed
<1>3. \A r \in Exporters : Staging(r) \in Path /\ Len(Staging(r)) \in Nat
  BY StagingShape
<1>4. ASSUME NEW r \in Exporters, Within(Staging(p), Staging(r))
      PROVE  Staging(p) = Staging(r)
  <2>1. Len(Staging(r)) <= n /\ \A i \in 1..Len(Staging(r)) : Staging(p)[i] = Staging(r)[i]
    BY <1>1, <1>4 DEF Within
  <2>2. Len(Staging(r)) = n
    <3> SUFFICES ASSUME Len(Staging(r)) < n PROVE FALSE
      BY <1>1, <1>3, <2>1
    <3>1. \A i \in 1..Len(Staging(r)) : target[p][i] = Staging(r)[i]
      BY <1>1, <1>3, <2>1
    <3> QED
      BY <1>1, <1>2, <1>3, <3>1 DEF Inside, Within
  <2> QED
    BY <1>1, <1>3, <2>1, <2>2, SeqEqual DEF Path
<1>5. ASSUME NEW r \in Exporters, Within(target[p], Staging(r))
      PROVE  target[p] = Staging(r)
  <2>1. Len(Staging(r)) = n /\ \A i \in 1..n : target[p][i] = Staging(r)[i]
    BY <1>1, <1>2, <1>3, <1>5 DEF Inside, Within
  <2> QED
    BY <1>1, <1>3, <2>1, SeqEqual DEF Path
<1>6. ASSUME NEW r \in Exporters, NEW path \in Above(p), Within(path, Staging(r))
      PROVE  FALSE
  <2>1. Len(path) \in 1..(n - 1) /\ \A i \in 1..Len(path) : path[i] = target[p][i]
    BY AboveShape
  <2>2. Len(Staging(r)) < n /\ \A i \in 1..Len(Staging(r)) : target[p][i] = Staging(r)[i]
    BY <1>1, <1>3, <1>6, <2>1 DEF Within
  <2> QED
    BY <1>1, <1>2, <2>2 DEF Inside, Within
<1>7. ASSUME Enclosed(q), Staging(q) \in {Staging(p), target[p]} \cup Above(p) PROVE FALSE
  <2>1. PICK r \in Exporters : Inside(target[q], Staging(r))
    BY <1>7 DEF Enclosed
  <2>2. /\ Len(Staging(q)) = Len(target[q]) /\ Len(target[q]) \in Nat
        /\ \A i \in 1..Len(target[q]) : i # Len(target[q]) => Staging(q)[i] = target[q][i]
    BY StagingShape
  <2>3. Len(Staging(r)) < Len(Staging(q)) /\ Within(Staging(q), Staging(r))
    BY <1>3, <2>1, <2>2 DEF Inside, Within
  <2>4. CASE Staging(q) = Staging(p)
    BY <1>3, <1>4, <2>3, <2>4
  <2>5. CASE Staging(q) = target[p]
    BY <1>2, <2>3, <2>5 DEF Inside
  <2>6. CASE Staging(q) \in Above(p)
    BY <1>6, <2>3, <2>6
  <2> QED
    BY <1>7, <2>4, <2>5, <2>6
<1> QED
  BY <1>4, <1>5, <1>6, <1>7

(***************************************************************************)
(* What a step of one export does to what the others own.                  *)
(***************************************************************************)
Others(q) ==
  /\ UNCHANGED <<source, target>> /\ faulted \subseteq faulted'
  /\ \A p \in Exporters : p # q => pc'[p] = pc[p] /\ written'[p] = written[p]

\* A directory goes or changes only where it is in the staging directory of an export
\* that writes or removes; and what is new is made by the export, or was there.
Takes(q, path) == pc[q] \in Writing /\ Within(path, Staging(q))

Touches(q) ==
  /\ \A path \in DOMAIN dirs :
       Takes(q, path) \/ (path \in DOMAIN dirs' /\ dirs'[path] = dirs[path])
  /\ \A path \in DOMAIN dirs' :
       /\ path \in Path /\ dirs'[path] \in Dir
       /\ \/ dirs'[path].by = q
          \/ \E was \in DOMAIN dirs :
               dirs'[path].by = dirs[was].by /\ (was = path \/ Takes(q, was))

\* What a path means does not depend on anything else.
LEMMA SameTargets ==
  ASSUME UNCHANGED target, NEW p \in Exporters
  PROVE  /\ Staging(p)' = Staging(p) /\ Above(p)' = Above(p)
         /\ Enclosed(p)' <=> Enclosed(p)
<1>1. \A q \in Exporters : Staging(q)' = Staging(q)
  BY DEF Staging
<1>2. Above(p)' = Above(p)
  BY DEF Above, Along
<1>3. Enclosed(p)' <=> Enclosed(p)
  BY <1>1 DEF Enclosed, Inside, Within
<1> QED
  BY <1>1, <1>2, <1>3

\* No step takes what another export owns that is not enclosed.
LEMMA NotTaken ==
  ASSUME ExportInv, NEW p \in Exporters, NEW q \in Exporters, p # q, ~Enclosed(p),
         NEW path \in {Staging(p), target[p]} \cup Above(p), Takes(q, path),
         path \in DOMAIN dirs, dirs[path].by = p
  PROVE  FALSE
<1>1. target \in [Exporters -> Outputs]
  BY DEF ExportInv, ExportTypeOK
<1>2. path = Staging(q)
  BY <1>1, Apart DEF Takes
<1>3. CASE Enclosed(q)
  BY <1>1, <1>2, <1>3, Apart
<1>4. CASE ~Enclosed(q)
  <2>1. dirs[Staging(q)].by = q
    BY <1>4 DEF ExportInv, Orderly, WriterOwnsStaging, Takes
  <2> QED
    BY <1>2, <2>1
<1> QED
  BY <1>3, <1>4

LEMMA OthersKeep ==
  ASSUME ExportInv, NEW q \in Exporters, Others(q), Touches(q),
         NEW p \in Exporters, p # q, ~Enclosed(p)
  PROVE  Orderly(p)'
<1> USE DEF Exists
<1>1. Orderly(p) /\ UNCHANGED <<target, pc[p], written[p]>> /\ faulted \subseteq faulted'
  BY DEF ExportInv, Others
<1>2. Staging(p)' = Staging(p) /\ Above(p)' = Above(p) /\ target'[p] = target[p]
  BY <1>1, SameTargets
<1>3. ASSUME NEW path \in DOMAIN dirs, dirs[path].by = p,
             path \in {Staging(p), target[p]} \cup Above(p)
      PROVE  path \in DOMAIN dirs' /\ dirs'[path] = dirs[path]
  BY <1>3, NotTaken DEF Touches
<1>4. ASSUME \A path \in DOMAIN dirs :
               dirs[path].by = p => path = Staging(p) \/ IsParent(p, path),
             NEW path \in DOMAIN dirs', dirs'[path].by = p
      PROVE  path \in DOMAIN dirs /\ dirs[path].by = p /\ dirs'[path] = dirs[path]
  <2>1. PICK was \in DOMAIN dirs : dirs[was].by = p /\ (was = path \/ Takes(q, was))
    BY <1>4 DEF Touches
  <2>2. was \in {Staging(p), target[p]} \cup Above(p)
    BY <1>4, <2>1 DEF IsParent
  <2>3. was = path
    BY <2>1, <2>2, NotTaken
  <2> QED
    BY <1>3, <2>1, <2>2, <2>3
<1>5. IdleOwnsParents(p)'
  <2> SUFFICES ASSUME \/ pc'[p] \in Early
                      \/ pc'[p] = "failed" /\ <<p, "remove">> \notin faulted',
                      NEW path \in DOMAIN dirs', dirs'[path].by = p
               PROVE  path \in Above(p) /\ dirs'[path].files = {}
    BY <1>2 DEF IdleOwnsParents, IsParent
  <2>1. \A other \in DOMAIN dirs : dirs[other].by = p => IsParent(p, other)
    BY <1>1 DEF Orderly, IdleOwnsParents
  <2>2. path \in DOMAIN dirs /\ dirs[path].by = p /\ dirs'[path] = dirs[path]
    BY <1>4, <2>1
  <2> QED
    BY <2>1, <2>2 DEF IsParent
<1>6. WriterOwnsStaging(p)'
  <2> SUFFICES ASSUME pc'[p] \in Writing
               PROVE  /\ Staging(p) \in DOMAIN dirs' /\ dirs'[Staging(p)].by = p
                      /\ \A path \in DOMAIN dirs' : dirs'[path].by = p =>
                           path = Staging(p) \/ (path \in Above(p) /\ dirs'[path].files = {})
                      /\ pc'[p] = "write" =>
                           /\ dirs'[Staging(p)].files = FirstArtifacts(written'[p])
                           /\ written'[p] = Len(Artifacts) =>
                                dirs'[Staging(p)].listed = FirstArtifacts(Len(Artifacts) - 1)
    BY <1>2 DEF WriterOwnsStaging, IsParent
  <2>1. WriterOwnsStaging(p) /\ pc[p] \in Writing
    BY <1>1 DEF Orderly
  <2>2. Staging(p) \in DOMAIN dirs' /\ dirs'[Staging(p)] = dirs[Staging(p)]
    BY <1>3, <2>1 DEF WriterOwnsStaging
  <2>3. ASSUME NEW path \in DOMAIN dirs', dirs'[path].by = p
        PROVE  path = Staging(p) \/ (path \in Above(p) /\ dirs'[path].files = {})
    <3>1. \A other \in DOMAIN dirs :
            dirs[other].by = p => other = Staging(p) \/ IsParent(p, other)
      BY <2>1 DEF WriterOwnsStaging
    <3>2. path \in DOMAIN dirs /\ dirs[path].by = p /\ dirs'[path] = dirs[path]
      BY <1>4, <2>3, <3>1
    <3>3. path = Staging(p) \/ IsParent(p, path)
      BY <3>1, <3>2
    <3> QED
      BY <3>2, <3>3 DEF IsParent
  <2> QED
    BY <1>1, <2>1, <2>2, <2>3 DEF WriterOwnsStaging
<1>7. FinishedIsWhole(p)'
  BY <1>1, <1>2, <1>3 DEF Orderly, FinishedIsWhole, Complete
<1> QED
  BY <1>5, <1>6, <1>7 DEF Orderly

\* What stood before stays, when a staging directory is made only where there is none.
LEMMA StandingKept ==
  ASSUME ExportInv, NEW q \in Exporters, Others(q), Touches(q),
         pc'[q] \in Writing => pc[q] \in Writing \/ ~Exists(Staging(q))
  PROVE  StandingStay'
<1>1. /\ target \in [Exporters -> Outputs] /\ UNCHANGED target
      /\ StandingStay
  BY DEF ExportInv, ExportTypeOK, Others
<1>2. \A p \in Exporters : Staging(p)' = Staging(p)
  BY <1>1, SameTargets
<1>3. ASSUME NEW path \in Standing
      PROVE  path \in DOMAIN dirs' /\ dirs'[path] = New("nobody")
  <2>1. path \in DOMAIN dirs /\ dirs[path] = New("nobody")
    BY <1>1 DEF StandingStay, Exists
  <2>2. ~Takes(q, path)
    <3>1. Staging(q) \in Path /\ Len(Staging(q)) > 0
      BY <1>1, StagingShape
    <3> QED
      BY <1>1, <3>1, StandingIsClosed DEF Takes, StandingStay
  <2> QED
    BY <2>1, <2>2 DEF Touches
<1>4. ASSUME NEW p \in Exporters, pc'[p] \in Writing PROVE Staging(p) \notin Standing
  BY <1>1, <1>4 DEF StandingStay, Others
<1> QED
  BY <1>2, <1>3, <1>4 DEF StandingStay, Exists, New

(***************************************************************************)
(* The steps.                                                              *)
(***************************************************************************)
Locations == Early \cup Writing \cup Over

\* What has to be shown of a step of export q. The rest of the invariant follows.
Keeps(q) ==
  /\ Others(q) /\ Touches(q)
  /\ pc'[q] \in Writing => pc[q] \in Writing \/ ~Exists(Staging(q))
  /\ pc' \in [Exporters -> Locations] /\ written' \in [Exporters -> 0..Len(Artifacts)]
  /\ Admission'
  /\ ~Enclosed(q) => Orderly(q)'

LEMMA KeepsInvariant ==
  ASSUME ExportInv, NEW q \in Exporters, Keeps(q)
  PROVE  ExportInv'
<1>1. ExportTypeOK'
  <2>1. target' \in [Exporters -> Outputs]
    BY DEF ExportInv, ExportTypeOK, Keeps, Others
  <2>2. \A path \in DOMAIN dirs' : path \in Path /\ dirs'[path] \in Dir
    BY DEF Keeps, Touches
  <2> QED
    BY <2>1, <2>2 DEF Keeps, Locations, ExportTypeOK, Dir, Names
<1>2. StandingStay'
  BY StandingKept DEF Keeps
<1>3. ASSUME NEW p \in Exporters, ~Enclosed(p)' PROVE Orderly(p)'
  <2>1. ~Enclosed(p)
    BY <1>3, SameTargets DEF Keeps, Others
  <2>2. CASE p = q
    BY <2>1, <2>2 DEF Keeps
  <2>3. CASE p # q
    BY <2>1, <2>3, OthersKeep DEF Keeps
  <2> QED
    BY <2>2, <2>3
<1> QED
  BY <1>1, <1>2, <1>3 DEF ExportInv, Keeps

\* What is admitted stays so, when the export that steps is, or makes no directory.
LEMMA AdmissionKept ==
  ASSUME ExportInv, NEW q \in Exporters, Others(q),
         pc'[q] \in Early => written'[q] = 0,
         pc'[q] \in {"place", "read"} => source.sealed /\ source.required,
         pc'[q] \notin {"validate", "place", "read", "failed", "dead"} => SourceServes,
         SourceServes \/ dirs' = dirs
  PROVE  Admission'
<1>1. Admission /\ source' = source /\ (SourceServes' <=> SourceServes)
  BY DEF ExportInv, Others, SourceServes, ReportsAllow
<1>2. ASSUME NEW p \in Exporters
      PROVE  /\ pc'[p] \in Early => written'[p] = 0
             /\ pc'[p] \in {"place", "read"} => source.sealed /\ source.required
             /\ pc'[p] \notin {"validate", "place", "read", "failed", "dead"} => SourceServes
  <2>1. CASE p = q
    BY <2>1
  <2>2. CASE p # q
    BY <1>1, <2>2 DEF Admission, Others, Early
  <2> QED
    BY <2>1, <2>2
<1> QED
  BY <1>1, <1>2 DEF Admission, Early

\* Most steps make nothing: the export goes on, gives up, or dies.
Goes(q, where) ==
  /\ pc' = [pc EXCEPT ![q] = where]
  /\ faulted \subseteq faulted'
  /\ UNCHANGED <<source, target, written, dirs>>

LEMMA GoesTouches ==
  ASSUME ExportInv, NEW q \in Exporters, NEW where \in Locations, Goes(q, where)
  PROVE  /\ Others(q) /\ Touches(q) /\ pc'[q] = where
         /\ pc' \in [Exporters -> Locations] /\ written' \in [Exporters -> 0..Len(Artifacts)]
<1>1. Others(q) /\ pc'[q] = where
  BY DEF ExportInv, ExportTypeOK, Goes, Others
<1>2. Touches(q)
  BY DEF ExportInv, ExportTypeOK, Goes, Touches
<1>3. pc' \in [Exporters -> Locations] /\ written' \in [Exporters -> 0..Len(Artifacts)]
  BY DEF ExportInv, ExportTypeOK, Goes, Locations
<1> QED
  BY <1>1, <1>2, <1>3

LEMMA IdleKeeps ==
  ASSUME ExportInv, NEW q \in Exporters, NEW where \in Early \cup {"failed"}, Goes(q, where),
         pc[q] \in Early,
         where \in {"place", "read"} => source.sealed /\ source.required,
         where \in {"parents", "inspect", "create"} => SourceServes
  PROVE  Keeps(q)
<1>1. /\ Others(q) /\ Touches(q) /\ pc'[q] = where
      /\ pc' \in [Exporters -> Locations] /\ written' \in [Exporters -> 0..Len(Artifacts)]
  BY GoesTouches DEF Locations, Over
<1>2. Admission'
  <2>1. written'[q] = 0
    BY DEF ExportInv, Admission, Early, Goes
  <2> QED
    BY <1>1, <2>1, AdmissionKept DEF Goes, Early
<1>3. pc'[q] \notin Writing /\ pc'[q] # "done"
  BY <1>1 DEF Early, Writing
<1>4. ASSUME ~Enclosed(q) PROVE Orderly(q)'
  <2>1. \A path \in DOMAIN dirs : dirs[path].by = q => IsParent(q, path)
    BY <1>4 DEF ExportInv, Orderly, IdleOwnsParents
  <2>2. Above(q)' = Above(q)
    BY SameTargets DEF Goes
  <2> QED
    BY <1>3, <2>1, <2>2 DEF Orderly, IdleOwnsParents, WriterOwnsStaging, FinishedIsWhole,
         IsParent, Goes
<1> QED
  BY <1>1, <1>2, <1>3, <1>4 DEF Keeps

LEMMA DiesKeeps ==
  ASSUME ExportInv, NEW q \in Exporters, Dies(q)
  PROVE  Keeps(q)
<1>1. Goes(q, "dead") /\ "dead" \in Locations
  BY DEF Dies, Goto, Fault, Goes, Locations, Over
<1>2. /\ Others(q) /\ Touches(q) /\ pc'[q] = "dead"
      /\ pc' \in [Exporters -> Locations] /\ written' \in [Exporters -> 0..Len(Artifacts)]
  BY <1>1, GoesTouches
<1>3. Admission'
  BY <1>1, <1>2, AdmissionKept DEF Goes, Early
<1>4. Orderly(q)'
  BY <1>2 DEF Orderly, IdleOwnsParents, WriterOwnsStaging, FinishedIsWhole, Early, Writing
<1> QED
  BY <1>2, <1>3, <1>4 DEF Keeps, Writing

LEMMA ReaderKeeps ==
  ASSUME ExportInv, NEW q \in Exporters,
         Validate(q) \/ PlaceOutput(q) \/ ReadSource(q) \/ Inspect(q)
  PROVE  Keeps(q)
<1>1. Admission
  BY DEF ExportInv
<1>2. CASE Validate(q)
  <2>1. PICK where \in {"place", "failed"} :
          Goes(q, where) /\ (where = "place" => source.sealed /\ source.required)
    BY <1>2 DEF Validate, Goto, Goes
  <2> QED
    BY <1>2, <2>1, IdleKeeps DEF Validate, Early
<1>3. CASE PlaceOutput(q)
  <2>1. PICK where \in {"read", "failed"} : Goes(q, where)
    BY <1>3 DEF PlaceOutput, Goto, Goes
  <2>2. source.sealed /\ source.required
    BY <1>1, <1>3 DEF PlaceOutput, Admission
  <2> QED
    BY <1>3, <2>1, <2>2, IdleKeeps DEF PlaceOutput, Early
<1>4. CASE ReadSource(q)
  <2>1. PICK where \in {"parents", "failed"} :
          Goes(q, where) /\ (where = "parents" => source.records = "agree" /\ ReportsAllow)
    BY <1>4 DEF ReadSource, Goto, Goes
  <2>2. source.sealed /\ source.required
    BY <1>1, <1>4 DEF ReadSource, Admission
  <2> QED
    BY <1>4, <2>1, <2>2, IdleKeeps DEF ReadSource, Early, SourceServes
<1>5. CASE Inspect(q)
  <2>1. PICK where \in {"create", "failed"} : Goes(q, where)
    BY <1>5 DEF Inspect, Goto, Goes
  <2>2. SourceServes
    BY <1>1, <1>5 DEF Inspect, Admission
  <2> QED
    BY <1>5, <2>1, <2>2, IdleKeeps DEF Inspect, Early
<1> QED
  BY <1>2, <1>3, <1>4, <1>5

\* Directories are created: those that were there stay as they are.
LEMMA CreatedTouches ==
  ASSUME ExportInv, NEW q \in Exporters, NEW paths \in SUBSET Path, dirs' = Created(paths, q)
  PROVE  /\ Touches(q)
         /\ DOMAIN dirs' = DOMAIN dirs \cup paths
         /\ \A path \in DOMAIN dirs : dirs'[path] = dirs[path]
         /\ \A path \in paths : path \notin DOMAIN dirs => dirs'[path] = New(q)
<1>1. /\ DOMAIN dirs' = DOMAIN dirs \cup paths
      /\ \A path \in DOMAIN dirs \cup paths :
           dirs'[path] = IF path \in DOMAIN dirs THEN dirs[path] ELSE New(q)
  BY DEF Created, Exists
<1>2. New(q) \in Dir /\ New(q).by = q
  BY DEF New, Dir
<1>3. \A path \in DOMAIN dirs : path \in Path /\ dirs[path] \in Dir
  BY DEF ExportInv, ExportTypeOK
<1>4. Touches(q)
  BY <1>1, <1>2, <1>3 DEF Touches
<1> QED
  BY <1>1, <1>4

LEMMA CreateParentsKeeps ==
  ASSUME ExportInv, NEW q \in Exporters, CreateParents(q)
  PROVE  Keeps(q)
<1>1. target \in [Exporters -> Outputs] /\ Admission
  BY DEF ExportInv, ExportTypeOK
<1>2. target[q] \in Path /\ Len(target[q]) \in Nat /\ Len(target[q]) > 1
  BY <1>1, StagingShape
<1>3. PICK n \in 0..(Len(target[q]) - 1) : dirs' = Created(Along(target[q], n), q)
  <2>1. Above(q) = Along(target[q], Len(target[q]) - 1)
    BY DEF Above
  <2>2. Len(target[q]) - 1 \in 0..(Len(target[q]) - 1)
    BY <1>2
  <2>3. 0..(Len(target[q]) - 2) \subseteq 0..(Len(target[q]) - 1)
    BY <1>2
  <2> QED
    BY <2>1, <2>2, <2>3 DEF CreateParents
<1>4. Along(target[q], n) \subseteq Path /\ Along(target[q], n) \subseteq Above(q)
  <2>1. Along(target[q], n) \subseteq Path
    BY <1>2, AlongArePaths
  <2> QED
    BY <1>2, <2>1 DEF Above, Along
<1>5. /\ Touches(q)
      /\ DOMAIN dirs' = DOMAIN dirs \cup Along(target[q], n)
      /\ \A path \in DOMAIN dirs : dirs'[path] = dirs[path]
      /\ \A path \in Along(target[q], n) : path \notin DOMAIN dirs => dirs'[path] = New(q)
  BY <1>3, <1>4, CreatedTouches
<1>6. /\ pc[q] = "parents" /\ pc'[q] \in {"inspect", "failed"}
      /\ pc' \in [Exporters -> Locations] /\ written' \in [Exporters -> 0..Len(Artifacts)]
  BY DEF CreateParents, Goto, ExportInv, ExportTypeOK, Locations, Early, Over
<1>7. Others(q)
  BY DEF CreateParents, Goto, Fault, ExportInv, ExportTypeOK, Others
<1>8. SourceServes /\ written'[q] = 0
  BY <1>1, <1>6 DEF Admission, CreateParents
<1>9. Admission'
  BY <1>6, <1>7, <1>8, AdmissionKept
<1>10. ASSUME ~Enclosed(q) PROVE Orderly(q)'
  <2>1. \A path \in DOMAIN dirs : dirs[path].by = q => IsParent(q, path)
    BY <1>6, <1>10 DEF ExportInv, Orderly, IdleOwnsParents, Early
  <2>2. Above(q)' = Above(q)
    BY SameTargets DEF CreateParents
  <2>3. ASSUME NEW path \in DOMAIN dirs', dirs'[path].by = q
        PROVE  path \in Above(q) /\ dirs'[path].files = {}
    <3>1. CASE path \in DOMAIN dirs
      BY <1>5, <2>1, <2>3, <3>1 DEF IsParent
    <3>2. CASE path \notin DOMAIN dirs
      BY <1>4, <1>5, <2>3, <3>2 DEF New
    <3> QED
      BY <3>1, <3>2
  <2>4. IdleOwnsParents(q)'
    BY <2>2, <2>3 DEF IdleOwnsParents, IsParent
  <2> QED
    BY <1>6, <2>4 DEF Orderly, WriterOwnsStaging, FinishedIsWhole, Writing
<1> QED
  BY <1>5, <1>6, <1>7, <1>9, <1>10 DEF Keeps, Writing

LEMMA CreateStagingKeeps ==
  ASSUME ExportInv, NEW q \in Exporters, CreateStaging(q)
  PROVE  Keeps(q)
<1>1. target \in [Exporters -> Outputs] /\ Admission /\ pc[q] = "create"
  BY DEF ExportInv, ExportTypeOK, CreateStaging
<1>2. SourceServes /\ written[q] = 0
  BY <1>1 DEF Admission
<1>3. CASE Goto(q, "failed") /\ UNCHANGED dirs
  <2>1. Goes(q, "failed")
    BY <1>3 DEF CreateStaging, Goto, Fault, Goes
  <2> QED
    BY <1>1, <2>1, IdleKeeps DEF Early
<1>4. CASE /\ CanCreate(q) /\ dirs' = Created({Staging(q)}, q) /\ Goto(q, "write")
           /\ UNCHANGED faulted
  <2>1. {Staging(q)} \in SUBSET Path /\ Staging(q) \notin DOMAIN dirs
    BY <1>1, <1>4, StagingShape DEF CanCreate, Exists
  <2>2. /\ Touches(q)
        /\ DOMAIN dirs' = DOMAIN dirs \cup {Staging(q)}
        /\ \A path \in DOMAIN dirs : dirs'[path] = dirs[path]
        /\ dirs'[Staging(q)] = New(q)
    BY <1>4, <2>1, CreatedTouches
  <2>3. /\ pc'[q] = "write" /\ UNCHANGED <<source, target, written, faulted>>
        /\ pc' \in [Exporters -> Locations] /\ written' \in [Exporters -> 0..Len(Artifacts)]
    BY <1>4 DEF CreateStaging, Goto, ExportInv, ExportTypeOK, Locations, Writing
  <2>4. Others(q)
    BY <1>4, <2>3 DEF Goto, ExportInv, ExportTypeOK, Others
  <2>5. Admission'
    BY <1>2, <2>3, <2>4, AdmissionKept DEF Early
  <2>6. ASSUME ~Enclosed(q) PROVE Orderly(q)'
    <3>1. \A path \in DOMAIN dirs : dirs[path].by = q => IsParent(q, path)
      BY <1>1, <2>6 DEF ExportInv, Orderly, IdleOwnsParents, Early
    <3>2. Above(q)' = Above(q) /\ Staging(q)' = Staging(q)
      BY <2>3, SameTargets
    <3>3. ASSUME NEW path \in DOMAIN dirs', dirs'[path].by = q, path # Staging(q)
          PROVE  path \in Above(q) /\ dirs'[path].files = {}
      BY <2>2, <3>1, <3>3 DEF IsParent
    <3>4. /\ dirs'[Staging(q)].by = q /\ dirs'[Staging(q)].files = FirstArtifacts(written'[q])
          /\ written'[q] # Len(Artifacts)
      BY <1>2, <2>2, <2>3, ManifestIsLast DEF New
    <3>5. WriterOwnsStaging(q)'
      BY <2>2, <3>2, <3>3, <3>4 DEF WriterOwnsStaging, Exists, IsParent
    <3> QED
      BY <2>3, <3>5 DEF Orderly, IdleOwnsParents, FinishedIsWhole, Early
  <2> QED
    BY <2>1, <2>2, <2>3, <2>4, <2>5, <2>6 DEF Keeps, Exists
<1> QED
  BY <1>3, <1>4 DEF CreateStaging

\* An export that has not failed yet goes on to remove what it created.
LEMMA GivesUpKeeps ==
  ASSUME ExportInv, NEW q \in Exporters, pc[q] = "write", Goto(q, "remove"),
         faulted \subseteq faulted', UNCHANGED <<source, target, written>>,
         \/ UNCHANGED dirs
         \/ /\ ~Exists(Staging(q))
            /\ \E n \in 1..Len(target[q]) : dirs' = Created(Along(Staging(q), n), q)
  PROVE  Keeps(q)
<1>1. target \in [Exporters -> Outputs] /\ Admission
  BY DEF ExportInv, ExportTypeOK
<1>2. SourceServes
  BY <1>1 DEF Admission
<1>3. /\ pc'[q] = "remove" /\ Others(q)
      /\ pc' \in [Exporters -> Locations] /\ written' \in [Exporters -> 0..Len(Artifacts)]
  BY DEF Goto, ExportInv, ExportTypeOK, Locations, Writing, Others
<1>4. Touches(q)
  <2>1. CASE UNCHANGED dirs
    BY <2>1 DEF ExportInv, ExportTypeOK, Touches
  <2>2. CASE \E n \in 1..Len(target[q]) : dirs' = Created(Along(Staging(q), n), q)
    <3>1. PICK n \in 1..Len(target[q]) : dirs' = Created(Along(Staging(q), n), q)
      BY <2>2
    <3>2. Along(Staging(q), n) \in SUBSET Path
      BY <1>1, StagingShape, AlongArePaths
    <3> QED
      BY <3>1, <3>2, CreatedTouches
  <2> QED
    BY <2>1, <2>2
<1>5. Admission'
  BY <1>2, <1>3, AdmissionKept DEF Early
<1>6. ASSUME ~Enclosed(q) PROVE Orderly(q)'
  <2>1. WriterOwnsStaging(q)
    BY <1>6 DEF ExportInv, Orderly
  <2>2. UNCHANGED dirs
    BY <2>1 DEF WriterOwnsStaging, Writing
  <2>3. Above(q)' = Above(q) /\ Staging(q)' = Staging(q)
    BY SameTargets
  <2>4. WriterOwnsStaging(q)'
    BY <1>3, <2>1, <2>2, <2>3 DEF WriterOwnsStaging, Writing, IsParent, Exists
  <2> QED
    BY <1>3, <2>4 DEF Orderly, IdleOwnsParents, FinishedIsWhole, Early
<1> QED
  BY <1>3, <1>4, <1>5, <1>6 DEF Keeps, Writing

\* An artifact comes to those that are there.
LEMMA PutsKeeps ==
  ASSUME ExportInv, NEW q \in Exporters, pc[q] = "write", written[q] < Len(Artifacts),
         Exists(Staging(q)), Puts(q), written' = [written EXCEPT ![q] = @ + 1],
         UNCHANGED <<source, target, pc, faulted>>
  PROVE  Keeps(q)
<1> DEFINE now == With(dirs[Staging(q)], NextArtifact(q))
<1>1. /\ target \in [Exporters -> Outputs] /\ Admission
      /\ \A path \in DOMAIN dirs : path \in Path /\ dirs[path] \in Dir
  BY DEF ExportInv, ExportTypeOK
<1>2. SourceServes
  BY <1>1 DEF Admission
<1>3. written[q] \in 0..8 /\ NextArtifact(q) \in Names
  BY ManifestIsLast DEF ExportInv, ExportTypeOK, NextArtifact, Names
<1>4. /\ now \in Dir /\ now.by = dirs[Staging(q)].by
      /\ now.files = dirs[Staging(q)].files \cup {NextArtifact(q)}
      /\ NextArtifact(q) = Manifest => now.listed = dirs[Staging(q)].files
  BY <1>1, <1>3 DEF Dir, With, Exists
<1>5. /\ DOMAIN dirs' = DOMAIN dirs /\ dirs'[Staging(q)] = now
      /\ \A path \in DOMAIN dirs : path # Staging(q) => dirs'[path] = dirs[path]
  BY DEF Puts, Exists
<1> HIDE DEF now
<1>6. Touches(q)
  <2>1. Takes(q, Staging(q))
    BY DEF Takes, Writing, Within
  <2>2. \A path \in DOMAIN dirs' : dirs'[path] \in Dir /\ dirs'[path].by = dirs[path].by
    BY <1>1, <1>4, <1>5
  <2> QED
    BY <1>1, <1>5, <2>1, <2>2 DEF Touches
<1>7. /\ Others(q) /\ pc'[q] = "write" /\ written'[q] = written[q] + 1
      /\ pc' \in [Exporters -> Locations] /\ written' \in [Exporters -> 0..Len(Artifacts)]
  BY <1>3, ManifestIsLast DEF ExportInv, ExportTypeOK, Locations, Others
<1>8. Admission'
  BY <1>2, <1>7, AdmissionKept DEF Early
<1>9. ASSUME ~Enclosed(q) PROVE Orderly(q)'
  <2>1. WriterOwnsStaging(q)
    BY <1>9 DEF ExportInv, Orderly
  <2>2. Above(q)' = Above(q) /\ Staging(q)' = Staging(q)
    BY SameTargets
  <2>3. dirs[Staging(q)].by = q /\ dirs[Staging(q)].files = FirstArtifacts(written[q])
    BY <2>1 DEF WriterOwnsStaging, Writing
  <2>4. now.files = FirstArtifacts(written[q] + 1)
    BY <1>3, <1>4, <2>3, OneMoreArtifact DEF NextArtifact
  <2>5. written'[q] = Len(Artifacts) => now.listed = FirstArtifacts(Len(Artifacts) - 1)
    <3>1. written'[q] = Len(Artifacts) => written[q] = 8 /\ NextArtifact(q) = Manifest
      BY <1>3, <1>7, ManifestIsLast DEF NextArtifact
    <3> QED
      BY <1>4, <2>3, <3>1, ManifestIsLast
  <2>6. ASSUME NEW path \in DOMAIN dirs', dirs'[path].by = q, path # Staging(q)
        PROVE  path \in Above(q) /\ dirs'[path].files = {}
    BY <1>5, <2>1, <2>6 DEF WriterOwnsStaging, Writing, IsParent
  <2>7. WriterOwnsStaging(q)'
    BY <1>4, <1>5, <1>7, <2>2, <2>3, <2>4, <2>5, <2>6 DEF WriterOwnsStaging, IsParent, Exists
  <2> QED
    BY <1>7, <2>7 DEF Orderly, IdleOwnsParents, FinishedIsWhole, Early
<1> QED
  BY <1>6, <1>7, <1>8, <1>9 DEF Keeps, Writing

\* Only an enclosed export finds its staging directory gone.
LEMMA RecreatesKeeps ==
  ASSUME ExportInv, NEW q \in Exporters, pc[q] = "write", written[q] < Len(Artifacts),
         CanRecreate(q), Recreates(q), written' = [written EXCEPT ![q] = @ + 1],
         UNCHANGED <<source, target, pc, faulted>>
  PROVE  Keeps(q)
<1> DEFINE paths == Along(Staging(q), Len(target[q]))
           made == Created(paths, q)
           now == With(New(q), ClockFit)
<1>1. /\ target \in [Exporters -> Outputs] /\ Admission
      /\ \A path \in DOMAIN dirs : path \in Path /\ dirs[path] \in Dir
  BY DEF ExportInv, ExportTypeOK
<1>2. SourceServes
  BY <1>1 DEF Admission
<1>3. Staging(q) \notin DOMAIN dirs
  BY DEF CanRecreate, Exists
<1>4. paths \in SUBSET Path
  BY <1>1, StagingShape, AlongArePaths
<1>5. New(q) \in Dir /\ New(q).by = q
  BY DEF New, Dir
<1>6. now \in Dir /\ now.by = q
  <2>1. ClockFit \in Names
    <3>1. Artifacts[4] = ClockFit /\ Len(Artifacts) = 9
      BY DEF Artifacts, ClockFit
    <3> QED
      BY <3>1 DEF Names
  <2> QED
    BY <1>5, <2>1 DEF Dir, With
<1>7. /\ DOMAIN made = DOMAIN dirs \cup paths
      /\ \A path \in DOMAIN made : made[path] = IF path \in DOMAIN dirs THEN dirs[path] ELSE New(q)
  BY DEF Created, Exists
<1>8. dirs' = [made EXCEPT ![Staging(q)] = now]
  BY DEF Recreates
<1> HIDE DEF now, made, paths
<1>9. /\ DOMAIN dirs' = DOMAIN dirs \cup paths
      /\ \A path \in DOMAIN dirs : dirs'[path] = dirs[path]
      /\ \A path \in paths : path \notin DOMAIN dirs => dirs'[path] \in {now, New(q)}
  BY <1>3, <1>7, <1>8
<1>10. Touches(q)
  BY <1>1, <1>4, <1>5, <1>6, <1>9 DEF Touches
<1>11. written[q] \in 0..8
  BY ManifestIsLast DEF ExportInv, ExportTypeOK
<1>12. /\ Others(q) /\ pc'[q] = "write"
       /\ pc' \in [Exporters -> Locations] /\ written' \in [Exporters -> 0..Len(Artifacts)]
  BY <1>11, ManifestIsLast DEF ExportInv, ExportTypeOK, Locations, Others
<1>13. Admission'
  BY <1>2, <1>12, AdmissionKept DEF Early
<1>14. Enclosed(q)
  BY <1>3 DEF ExportInv, Orderly, WriterOwnsStaging, Writing, Exists
<1> QED
  BY <1>10, <1>12, <1>13, <1>14 DEF Keeps, Writing

LEMMA WriteArtifactKeeps ==
  ASSUME ExportInv, NEW q \in Exporters, WriteArtifact(q)
  PROVE  Keeps(q)
<1>1. CASE /\ CanPut(q) /\ Puts(q) /\ written' = [written EXCEPT ![q] = @ + 1]
           /\ UNCHANGED <<pc, faulted>>
  BY <1>1, PutsKeeps DEF WriteArtifact, CanPut
<1>2. CASE /\ CanRecreate(q) /\ Recreates(q) /\ written' = [written EXCEPT ![q] = @ + 1]
           /\ UNCHANGED <<pc, faulted>>
  BY <1>2, RecreatesKeeps DEF WriteArtifact
<1>3. CASE Goto(q, "remove") /\ UNCHANGED <<dirs, written, faulted>>
  BY <1>3, GivesUpKeeps DEF WriteArtifact
<1>4. CASE Goto(q, "remove") /\ Fault(q, "write") /\ UNCHANGED <<dirs, written>>
  BY <1>4, GivesUpKeeps DEF WriteArtifact, Fault
<1>5. CASE /\ CanRecreate(q)
           /\ \E n \in 1..Len(target[q]) : dirs' = Created(Along(Staging(q), n), q)
           /\ Goto(q, "remove") /\ Fault(q, "write") /\ UNCHANGED written
  BY <1>5, GivesUpKeeps DEF WriteArtifact, Fault, CanRecreate
<1> QED
  BY <1>1, <1>2, <1>3, <1>4, <1>5 DEF WriteArtifact

\* The rename, path by path.
LEMMA RenameTouches ==
  ASSUME ExportInv, NEW q \in Exporters, pc[q] = "write", CanRename(q),
         dirs' = AfterRename(Staging(q), target[q])
  PROVE  /\ Touches(q)
         /\ target[q] \in DOMAIN dirs' /\ dirs'[target[q]] = dirs[Staging(q)]
<1> DEFINE from == Staging(q)
           to == target[q]
<1>1. /\ target \in [Exporters -> Outputs]
      /\ \A path \in DOMAIN dirs : path \in Path /\ dirs[path] \in Dir
  BY DEF ExportInv, ExportTypeOK
<1>2. /\ DOMAIN dirs' = (DOMAIN dirs \ Beneath(from))
                          \cup {Renamed(path, from, to) : path \in Beneath(from)}
      /\ \A path \in DOMAIN dirs' : dirs'[path] =
           IF path \in DOMAIN dirs THEN dirs[path] ELSE dirs[Renamed(path, to, from)]
  BY DEF AfterRename, Exists
<1>3. \A was \in Beneath(from) :
        /\ Renamed(was, from, to) \in Path
        /\ Renamed(Renamed(was, from, to), to, from) = was
  BY <1>1, RenamedBack DEF Beneath
<1>4. \A path \in Beneath(from) : path \in DOMAIN dirs /\ Takes(q, path)
  BY DEF Beneath, Takes, Writing
<1>5. ASSUME NEW path \in DOMAIN dirs
      PROVE  Takes(q, path) \/ (path \in DOMAIN dirs' /\ dirs'[path] = dirs[path])
  BY <1>2, <1>4
<1>6. ASSUME NEW path \in DOMAIN dirs'
      PROVE  /\ path \in Path /\ dirs'[path] \in Dir
             /\ \E was \in DOMAIN dirs :
                  dirs'[path].by = dirs[was].by /\ (was = path \/ Takes(q, was))
  <2>1. CASE path \in DOMAIN dirs
    BY <1>1, <1>2, <2>1
  <2>2. CASE path \notin DOMAIN dirs
    <3>1. PICK was \in Beneath(from) : path = Renamed(was, from, to)
      BY <1>2, <2>2
    <3>2. dirs'[path] = dirs[was] /\ path \in Path
      BY <1>2, <1>3, <2>2, <3>1
    <3> QED
      BY <1>1, <1>4, <3>2
  <2> QED
    BY <2>1, <2>2
<1>7. to \in DOMAIN dirs' /\ dirs'[to] = dirs[from]
  <2>1. from \in Beneath(from) /\ to \notin DOMAIN dirs
    BY DEF CanRename, Exists, Beneath, Within
  <2>2. Renamed(from, from, to) = to
    BY <1>1, <1>4, <2>1, RenamedBack DEF Within, Beneath
  <2> QED
    BY <1>2, <1>3, <2>1, <2>2
<1> QED
  BY <1>5, <1>6, <1>7 DEF Touches

LEMMA PublishKeeps ==
  ASSUME ExportInv, NEW q \in Exporters, Publish(q)
  PROVE  Keeps(q)
<1>1. pc[q] = "write" /\ written[q] = Len(Artifacts) /\ UNCHANGED <<source, target, written>>
  BY DEF Publish
<1>2. CASE Goto(q, "remove") /\ UNCHANGED <<dirs, faulted>>
  BY <1>1, <1>2, GivesUpKeeps
<1>3. CASE Goto(q, "remove") /\ Fault(q, "rename") /\ UNCHANGED dirs
  BY <1>1, <1>3, GivesUpKeeps DEF Fault
<1>4. CASE /\ CanRename(q) /\ dirs' = AfterRename(Staging(q), target[q])
           /\ Goto(q, "done") /\ UNCHANGED faulted
  <2>1. /\ Touches(q)
        /\ target[q] \in DOMAIN dirs' /\ dirs'[target[q]] = dirs[Staging(q)]
    BY <1>1, <1>4, RenameTouches
  <2>2. /\ Others(q) /\ pc'[q] = "done"
        /\ pc' \in [Exporters -> Locations] /\ written' \in [Exporters -> 0..Len(Artifacts)]
    BY <1>1, <1>4 DEF Goto, ExportInv, ExportTypeOK, Locations, Over, Others
  <2>3. SourceServes
    BY <1>1 DEF ExportInv, Admission
  <2>4. Admission'
    BY <2>2, <2>3, AdmissionKept DEF Early
  <2>5. ASSUME ~Enclosed(q) PROVE Orderly(q)'
    <3>1. WriterOwnsStaging(q)
      BY <2>5 DEF ExportInv, Orderly
    <3>2. /\ dirs[Staging(q)].by = q
          /\ dirs[Staging(q)].files = FirstArtifacts(9)
          /\ dirs[Staging(q)].listed = FirstArtifacts(8)
      BY <1>1, <3>1, ManifestIsLast DEF WriterOwnsStaging, Writing
    <3>3. FinishedIsWhole(q)'
      BY <1>1, <2>1, <3>2, ManifestIsLast DEF FinishedIsWhole, Complete, Exists
    <3> QED
      BY <2>2, <3>3 DEF Orderly, IdleOwnsParents, WriterOwnsStaging, Early, Writing
  <2> QED
    BY <2>1, <2>2, <2>4, <2>5 DEF Keeps, Writing
<1> QED
  BY <1>2, <1>3, <1>4 DEF Publish

LEMMA RemoveStagingKeeps ==
  ASSUME ExportInv, NEW q \in Exporters, RemoveStaging(q)
  PROVE  Keeps(q)
<1>1. /\ \A path \in DOMAIN dirs : path \in Path /\ dirs[path] \in Dir
      /\ pc[q] = "remove" /\ Admission
  BY DEF ExportInv, ExportTypeOK, RemoveStaging
<1>2. /\ Others(q) /\ pc'[q] = "failed"
      /\ pc' \in [Exporters -> Locations] /\ written' \in [Exporters -> 0..Len(Artifacts)]
  BY DEF RemoveStaging, Goto, Fault, ExportInv, ExportTypeOK, Locations, Over, Others
<1>3. SourceServes
  BY <1>1 DEF Admission
<1>4. Admission'
  BY <1>2, <1>3, AdmissionKept DEF Early
<1>5. \A path \in Beneath(Staging(q)) : Takes(q, path)
  BY <1>1 DEF Beneath, Takes, Writing
<1>6. CASE /\ dirs' = [path \in DOMAIN dirs \ Beneath(Staging(q)) |-> dirs[path]]
           /\ UNCHANGED faulted
  <2>1. /\ DOMAIN dirs' = DOMAIN dirs \ Beneath(Staging(q))
        /\ \A path \in DOMAIN dirs' : dirs'[path] = dirs[path]
    BY <1>6
  <2>2. Touches(q)
    BY <1>1, <1>5, <2>1 DEF Touches
  <2>3. ASSUME ~Enclosed(q) PROVE Orderly(q)'
    <3>1. Above(q)' = Above(q)
      BY SameTargets DEF RemoveStaging
    <3>2. Staging(q) \notin DOMAIN dirs'
      BY <2>1 DEF Beneath, Within
    <3>3. ASSUME NEW path \in DOMAIN dirs', dirs'[path].by = q
          PROVE  path \in Above(q) /\ dirs'[path].files = {}
      BY <1>1, <2>1, <2>3, <3>2, <3>3 DEF ExportInv, Orderly, WriterOwnsStaging, Writing, IsParent
    <3> QED
      BY <1>2, <3>1, <3>3 DEF Orderly, IdleOwnsParents, WriterOwnsStaging, FinishedIsWhole,
           Writing, IsParent
  <2> QED
    BY <1>2, <1>4, <2>2, <2>3 DEF Keeps, Writing
<1>7. CASE PartlyRemoved(Staging(q)) /\ Fault(q, "remove")
  <2>1. PICK gone \in SUBSET (Beneath(Staging(q)) \ {Staging(q)}), kept \in {{}, ToSet(Artifacts)} :
          dirs' = [path \in DOMAIN dirs \ gone |->
                     IF Within(path, Staging(q)) THEN [dirs[path] EXCEPT !.files = @ \cap kept]
                                                 ELSE dirs[path]]
    BY <1>7 DEF PartlyRemoved
  <2>2. /\ DOMAIN dirs' = DOMAIN dirs \ gone
        /\ \A path \in DOMAIN dirs' : \/ dirs'[path] = dirs[path]
                                      \/ /\ path \in Beneath(Staging(q))
                                         /\ dirs'[path] = [dirs[path] EXCEPT !.files = @ \cap kept]
    BY <2>1 DEF Beneath
  <2>3. \A path \in DOMAIN dirs :
          /\ [dirs[path] EXCEPT !.files = @ \cap kept] \in Dir
          /\ [dirs[path] EXCEPT !.files = @ \cap kept].by = dirs[path].by
    BY <1>1 DEF Dir
  <2>4. \A path \in DOMAIN dirs' : dirs'[path] \in Dir /\ dirs'[path].by = dirs[path].by
    BY <1>1, <2>2, <2>3
  <2>5. \A path \in DOMAIN dirs :
          path \notin Beneath(Staging(q)) => path \in DOMAIN dirs' /\ dirs'[path] = dirs[path]
    BY <2>2
  <2>6. Touches(q)
    BY <1>1, <1>5, <2>2, <2>4, <2>5 DEF Touches
  <2>7. <<q, "remove">> \in faulted'
    BY <1>7 DEF Fault
  <2>8. Orderly(q)'
    BY <1>2, <2>7 DEF Orderly, IdleOwnsParents, WriterOwnsStaging, FinishedIsWhole, Early, Writing
  <2> QED
    BY <1>2, <1>4, <2>6, <2>8 DEF Keeps, Writing
<1> QED
  BY <1>6, <1>7 DEF RemoveStaging

(***************************************************************************)
(* The invariant, and what follows from it.                                *)
(***************************************************************************)
LEMMA StepKeeps ==
  ASSUME ExportInv, ExportNext
  PROVE  \E q \in Exporters : Keeps(q) /\ pc[q] \notin Over
<1>1. PICK q \in Exporters : Step(q) \/ Dies(q)
  BY DEF ExportNext
<1>2. Keeps(q)
  BY <1>1, ReaderKeeps, CreateParentsKeeps, CreateStagingKeeps, WriteArtifactKeeps,
     PublishKeeps, RemoveStagingKeeps, DiesKeeps DEF Step
<1>3. pc[q] \notin Over
  BY <1>1 DEF Step, Validate, PlaceOutput, ReadSource, CreateParents, Inspect, CreateStaging,
       WriteArtifact, Publish, RemoveStaging, Dies, Over
<1> QED
  BY <1>2, <1>3

LEMMA InitExportInv == ExportInit => ExportInv
<1> SUFFICES ASSUME ExportInit PROVE ExportInv
  OBVIOUS
<1>1. /\ DOMAIN dirs = Standing
      /\ \A path \in Standing : dirs[path] = New("nobody")
  BY DEF ExportInit
<1>2. New("nobody") \in Dir /\ New("nobody").by = "nobody"
  BY DEF New, Dir
<1>3. ExportTypeOK
  BY <1>1, <1>2, GivenPaths, ManifestIsLast DEF ExportInit, ExportTypeOK, Early
<1>4. StandingStay
  BY <1>1 DEF ExportInit, StandingStay, Exists, Writing
<1>5. Admission
  BY <1>1 DEF ExportInit, Admission
<1>6. \A p \in Exporters : Orderly(p)
  BY <1>1, <1>2, ExportAssumption DEF ExportInit, Orderly, IdleOwnsParents, WriterOwnsStaging,
       FinishedIsWhole, Writing
<1> QED
  BY <1>3, <1>4, <1>5, <1>6 DEF ExportInv

LEMMA NextExportInv == ExportInv /\ [ExportNext]_exportVars => ExportInv'
<1> SUFFICES ASSUME ExportInv, [ExportNext]_exportVars PROVE ExportInv'
  OBVIOUS
<1>1. CASE ExportNext
  BY <1>1, StepKeeps, KeepsInvariant
<1>2. CASE UNCHANGED exportVars
  <2>1. UNCHANGED <<source, target, pc, written, dirs, faulted>>
    BY <1>2 DEF exportVars
  <2>2. ExportTypeOK'
    BY <2>1 DEF ExportInv, ExportTypeOK, Dir, Names
  <2>3. \A p \in Exporters : /\ Staging(p)' = Staging(p) /\ Above(p)' = Above(p)
                             /\ (Enclosed(p)' <=> Enclosed(p))
    BY <2>1, SameTargets
  <2>4. StandingStay' /\ Admission'
    BY <2>1, <2>3 DEF ExportInv, StandingStay, Admission, Exists, New, SourceServes, ReportsAllow
  <2>5. ASSUME NEW p \in Exporters, ~Enclosed(p)' PROVE Orderly(p)'
    <3>1. Orderly(p)
      BY <2>3, <2>5 DEF ExportInv
    <3> QED
      BY <2>1, <2>3, <3>1 DEF Orderly, IdleOwnsParents, WriterOwnsStaging, FinishedIsWhole,
           IsParent, Exists, Complete
  <2> QED
    BY <2>2, <2>4, <2>5 DEF ExportInv
<1> QED
  BY <1>1, <1>2

\* The invariant holds in every reachable state.
THEOREM ExportInvariant == ExportSpec => []ExportInv
<1> QED
  BY InitExportInv, NextExportInv, PTL DEF ExportSpec

\* Where an export has finished whose output stands in no staging directory, a directory
\* of its own holds all the artifacts, and its manifest lists all the others, whatever
\* exports ran beside it, in it or around it.
THEOREM PublishedIsAlwaysWhole == ExportSpec => []PublishedIsWhole
<1>1. ExportInv => PublishedIsWhole
  BY DEF ExportInv, Orderly, FinishedIsWhole, PublishedIsWhole
<1> QED
  BY <1>1, ExportInvariant, PTL

\* One that fails has left nothing but empty directories above its output, or could not
\* remove it, and one that writes or removes does so in what it created itself. A source
\* that cannot be exported leads to no directory at all.
THEOREM FailuresAlwaysLeaveNothing == ExportSpec => []FailuresLeaveNothing
<1>1. ExportInv => FailuresLeaveNothing
  <2> SUFFICES ASSUME ExportInv PROVE FailuresLeaveNothing
    OBVIOUS
  <2>1. ~SourceServes => DOMAIN dirs = Standing
    BY DEF ExportInv, Admission
  <2>2. ASSUME NEW p \in Exporters, ~Enclosed(p), pc[p] \in {"write", "remove"}
        PROVE  Exists(Staging(p)) /\ dirs[Staging(p)].by = p
    BY <2>2 DEF ExportInv, Orderly, WriterOwnsStaging, Writing
  <2>3. ASSUME NEW p \in Exporters, ~Enclosed(p), pc[p] = "failed",
               <<p, "remove">> \notin faulted, NEW path \in DOMAIN dirs, dirs[path].by = p
        PROVE  path \in Above(p) /\ dirs[path].files = {}
    BY <2>3 DEF ExportInv, Orderly, IdleOwnsParents, IsParent
  <2> QED
    BY <2>1, <2>2, <2>3 DEF FailuresLeaveNothing
<1> QED
  BY <1>1, ExportInvariant, PTL

\* No step of any export changes or takes away a directory that stood before the exports,
\* nor what an export has published whose output stands in no staging directory.
THEOREM PublishedAlwaysStays == ExportSpec => PublishedStays
<1> DEFINE Stays == \A path \in Standing \cup Outputs :
                      Lasting(path) => path \in DOMAIN dirs' /\ dirs'[path] = dirs[path]
<1>1. ExportInv /\ ExportInv' /\ [ExportNext]_exportVars => [Stays]_exportVars
  <2> SUFFICES ASSUME ExportInv, ExportInv', ExportNext, NEW path, Lasting(path)
               PROVE  path \in DOMAIN dirs' /\ dirs'[path] = dirs[path]
    OBVIOUS
  <2>1. CASE path \in Standing
    <3>1. path \in DOMAIN dirs /\ dirs[path] = New("nobody")
      BY <2>1 DEF ExportInv, StandingStay, Exists
    <3>2. path \in DOMAIN dirs' /\ dirs'[path] = New("nobody")
      BY <2>1 DEF ExportInv, StandingStay, Exists, New
    <3> QED
      BY <3>1, <3>2
  <2>2. ASSUME NEW p \in Exporters, pc[p] = "done", ~Enclosed(p), path = target[p]
        PROVE  path \in DOMAIN dirs' /\ dirs'[path] = dirs[path]
    <3>1. PICK q \in Exporters : Keeps(q) /\ pc[q] \notin Over
      BY StepKeeps
    <3>2. q # p /\ Touches(q)
      BY <2>2, <3>1 DEF Over, Keeps
    <3>3. path \in DOMAIN dirs /\ dirs[path].by = p
      BY <2>2 DEF ExportInv, Orderly, FinishedIsWhole, Exists
    <3>4. ~Takes(q, path)
      BY <2>2, <3>2, <3>3, NotTaken
    <3> QED
      BY <3>2, <3>3, <3>4 DEF Touches
  <2> QED
    BY <2>1, <2>2 DEF Lasting
<1> QED
  BY <1>1, ExportInvariant, PTL DEF ExportSpec, PublishedStays

(***************************************************************************)
(* THE DERIVATION OF THE BINS.                                             *)
(***************************************************************************)

(***************************************************************************)
(* Facts about finite sets. Induction is by a smallest counterexample.     *)
(***************************************************************************)
\* The smallest of some numbers.
LEMMA HasLeast ==
  ASSUME NEW T, T \subseteq Nat, T # {}
  PROVE  \E n \in T : \A m \in T : n <= m
<1> DEFINE Less == {p \in Nat \X Nat : p[1] < p[2]}
<1>1. IsWellFoundedOn(Less, Nat)
  BY NatLessThanWellFounded, SMT DEF OpToRel
<1>2. \E x \in T : \A y \in T : <<y, x>> \notin Less
  <2> HIDE DEF Less
  <2> QED BY <1>1, WFMin
<1>3. ASSUME NEW x \in T, NEW y \in T, <<y, x>> \notin Less
      PROVE  x <= y
  BY <1>3
<1> QED
  <2> HIDE DEF Less
  <2> QED BY <1>2, <1>3

\* Of some finite sets, one with the fewest elements.
LEMMA HasSmallestSet ==
  ASSUME NEW D, IsFiniteSet(D), NEW W, W \subseteq SUBSET D, W # {}
  PROVE  \E s \in W : \A t \in W : ~(Cardinality(t) < Cardinality(s))
<1> DEFINE Sizes == {Cardinality(s) : s \in W}
<1>1. Sizes \subseteq Nat /\ Sizes # {}
  BY FS_Subset, FS_CardinalityType
<1>2. PICK n \in Sizes : \A m \in Sizes : n <= m
  <2> HIDE DEF Sizes
  <2> QED BY <1>1, HasLeast
<1>3. PICK s \in W : Cardinality(s) = n
  BY <1>2
<1>4. ASSUME NEW t \in W PROVE ~(Cardinality(t) < Cardinality(s))
  <2>1. Cardinality(t) \in Sizes /\ Cardinality(t) \in Nat
    BY <1>1
  <2>2. n <= Cardinality(t) /\ n \in Nat
    BY <2>1, <1>1, <1>2
  <2> QED BY <2>1, <2>2, <1>3
<1> QED BY <1>3, <1>4

\* The subsets of a finite set, and what is left of one without an element.
LEMMA Subsets ==
  ASSUME NEW D, IsFiniteSet(D)
  PROVE  \A s \in SUBSET D :
           /\ IsFiniteSet(s) /\ Cardinality(s) \in Nat /\ (Cardinality(s) = 0 <=> s = {})
           /\ \A x \in s : /\ s \ {x} \in SUBSET D
                           /\ Cardinality(s \ {x}) = Cardinality(s) - 1
                           /\ Cardinality(s \ {x}) < Cardinality(s)
<1> SUFFICES ASSUME NEW s \in SUBSET D
             PROVE  /\ IsFiniteSet(s) /\ Cardinality(s) \in Nat /\ (Cardinality(s) = 0 <=> s = {})
                    /\ \A x \in s : /\ s \ {x} \in SUBSET D
                                    /\ Cardinality(s \ {x}) = Cardinality(s) - 1
                                    /\ Cardinality(s \ {x}) < Cardinality(s)
  OBVIOUS
<1>1. IsFiniteSet(s) /\ Cardinality(s) \in Nat /\ (Cardinality(s) = 0 <=> s = {})
  BY FS_Subset, FS_CardinalityType, FS_EmptySet
<1>2. ASSUME NEW x \in s PROVE Cardinality(s \ {x}) = Cardinality(s) - 1
  BY <1>1, FS_RemoveElement
<1> QED BY <1>1, <1>2

\* The element by which a fold makes its set smaller.
Chosen(s) == CHOOSE x \in s : TRUE

\* Sums over the subsets of a set, each from that of a smaller one.
IsSum(f, g, D) ==
  \A s \in SUBSET D : g[s] = IF s = {} THEN 0 ELSE f[Chosen(s)] + g[s \ {Chosen(s)}]

\* There are such sums: they are made for subsets of one element more at a time.
LEMMA SumsExist ==
  ASSUME NEW D, IsFiniteSet(D), NEW f \in [D -> Int]
  PROVE  \E g \in [SUBSET D -> Int] : IsSum(f, g, D)
<1> DEFINE Body(g, s) == IF s = {} THEN 0 ELSE f[Chosen(s)] + g[s \ {Chosen(s)}]
           Upto(n) == {s \in SUBSET D : Cardinality(s) <= n}
           Sums(n) == {g \in [Upto(n) -> Int] : \A s \in Upto(n) : g[s] = Body(g, s)}
           None == {n \in Nat : Sums(n) = {}}
<1>1. \A s \in SUBSET D : /\ IsFiniteSet(s) /\ Cardinality(s) \in Nat
                          /\ Cardinality(s) = 0 <=> s = {}
  BY Subsets
<1>2. \A s \in SUBSET D : s # {} =>
         /\ Chosen(s) \in s /\ f[Chosen(s)] \in Int
         /\ s \ {Chosen(s)} \in SUBSET D
         /\ Cardinality(s \ {Chosen(s)}) = Cardinality(s) - 1
  BY Subsets DEF Chosen
<1>3. Sums(0) # {}
  <2> DEFINE g == [s \in Upto(0) |-> 0]
  <2>1. \A s \in Upto(0) : s = {}
    BY <1>1
  <2>2. g \in Sums(0)
    BY <2>1
  <2> QED BY <2>2
<1>4. ASSUME NEW n \in Nat, Sums(n) # {}
      PROVE  Sums(n + 1) # {}
  <2>1. PICK g \in Sums(n) : TRUE
    BY <1>4
  <2> DEFINE h == [s \in Upto(n + 1) |-> Body(g, s)]
  <2>2. ASSUME NEW s \in Upto(n + 1), s # {}
        PROVE  s \ {Chosen(s)} \in Upto(n) /\ s \ {Chosen(s)} \in Upto(n + 1)
    <3>1. s \ {Chosen(s)} \in SUBSET D /\ Cardinality(s \ {Chosen(s)}) = Cardinality(s) - 1
      BY <2>2, <1>2
    <3>2. Cardinality(s) \in Nat /\ Cardinality(s) <= n + 1
      BY <1>1
    <3>3. Cardinality(s) - 1 <= n /\ Cardinality(s) - 1 <= n + 1
      BY <3>2
    <3> QED BY <3>1, <3>3
  <2>3. h \in [Upto(n + 1) -> Int]
    BY <2>1, <2>2, <1>2
  <2>4. ASSUME NEW t \in Upto(n)
        PROVE  t \in Upto(n + 1) /\ h[t] = g[t]
    BY <2>1, <1>1
  <2>5. ASSUME NEW s \in Upto(n + 1)
        PROVE  h[s] = Body(h, s)
    BY <2>2, <2>4
  <2> QED BY <2>3, <2>5
<1>5. None = {}
  <2>1. SUFFICES ASSUME None # {} PROVE FALSE
    OBVIOUS
  <2> HIDE DEF Sums
  <2>2. PICK n \in None : \A m \in None : n <= m
    BY <2>1, HasLeast
  <2>3. n # 0
    BY <1>3, <2>2
  <2>4. n - 1 \in Nat /\ n - 1 \notin None
    BY <2>2, <2>3
  <2>5. Sums(n - 1 + 1) # {}
    BY <2>4, <1>4
  <2> QED BY <2>5, <2>2
<1> DEFINE Whole == Cardinality(D)
<1>6. Upto(Whole) = SUBSET D /\ Whole \in Nat
  BY FS_Subset, FS_CardinalityType
<1>7. Sums(Whole) # {}
  <2> HIDE DEF Sums, Whole
  <2> QED BY <1>5, <1>6
<1> QED BY <1>6, <1>7 DEF IsSum

\* A sum of the library is that one.
LEMMA SumIsTheSum ==
  ASSUME NEW D, IsFiniteSet(D), NEW f \in [D -> Int],
         NEW g \in [SUBSET D -> Int], IsSum(f, g, D), NEW S \in SUBSET D
  PROVE  SumFunctionOnSet(f, S) = g[S]
<1> DEFINE Body(h, s) == IF s = {} THEN 0 ELSE f[Chosen(s)] + h[s \ {Chosen(s)}]
           part == [s \in SUBSET S |-> g[s]]
           iter == CHOOSE h : h = [s \in SUBSET S |-> Body(h, s)]
<1>1. \A s \in SUBSET S : s # {} => Chosen(s) \in s /\ s \ {Chosen(s)} \in SUBSET S
  BY DEF Chosen
<1>2. part = [s \in SUBSET S |-> Body(part, s)]
  <2>1. ASSUME NEW s \in SUBSET S PROVE g[s] = Body(part, s)
    BY <1>1 DEF IsSum
  <2> QED BY <2>1
<1>3. iter = [s \in SUBSET S |-> Body(iter, s)]
  <2> HIDE DEF Body
  <2> QED BY <1>2
<1> DEFINE Wrong == {s \in SUBSET S : iter[s] # g[s]}
<1>4. Wrong = {}
  <2>1. SUFFICES ASSUME Wrong # {} PROVE FALSE
    OBVIOUS
  <2> HIDE DEF iter
  <2>2. PICK s \in Wrong : \A t \in Wrong : ~(Cardinality(t) < Cardinality(s))
    <3>1. Wrong \subseteq SUBSET D
      OBVIOUS
    <3> HIDE DEF Wrong
    <3> QED BY <2>1, <3>1, HasSmallestSet
  <2>3. s \in SUBSET S /\ iter[s] = Body(iter, s) /\ g[s] = Body(g, s)
    BY <1>3, <2>2 DEF IsSum
  <2>4. s # {}
    BY <2>2, <2>3
  <2>5. s \ {Chosen(s)} \in SUBSET S /\ Cardinality(s \ {Chosen(s)}) < Cardinality(s)
    BY <2>3, <2>4, <1>1, Subsets
  <2>6. s \ {Chosen(s)} \notin Wrong
    <3> HIDE DEF Wrong
    <3> QED BY <2>2, <2>5
  <2> QED BY <2>2, <2>3, <2>4, <2>5, <2>6
<1>5. SumFunctionOnSet(f, S) = iter[S]
  BY DEF SumFunctionOnSet, FoldFunctionOnSet, MapThenFoldSet, Chosen
<1> QED BY <1>4, <1>5

\* What a sum is, whichever element comes first.
LEMMA SumFacts ==
  ASSUME NEW D, IsFiniteSet(D), NEW f \in [D -> Int]
  PROVE  /\ SumFunctionOnSet(f, {}) = 0
         /\ \A S \in SUBSET D :
              /\ SumFunctionOnSet(f, S) \in Int
              /\ \A x \in S : SumFunctionOnSet(f, S) = f[x] + SumFunctionOnSet(f, S \ {x})
<1>1. PICK g \in [SUBSET D -> Int] : IsSum(f, g, D)
  BY SumsExist
<1>2. \A S \in SUBSET D : SumFunctionOnSet(f, S) = g[S] /\ g[S] \in Int
  BY <1>1, SumIsTheSum
<1> DEFINE Wrong == {S \in SUBSET D : \E x \in S : g[S] # f[x] + g[S \ {x}]}
<1>3. Wrong = {}
  <2>1. SUFFICES ASSUME Wrong # {} PROVE FALSE
    OBVIOUS
  <2>2. PICK S \in Wrong : \A T \in Wrong : ~(Cardinality(T) < Cardinality(S))
    <3>1. Wrong \subseteq SUBSET D
      OBVIOUS
    <3> HIDE DEF Wrong
    <3> QED BY <2>1, <3>1, HasSmallestSet
  <2>3. PICK x \in S : g[S] # f[x] + g[S \ {x}]
    BY <2>2
  <2> DEFINE c == Chosen(S)
             R == S \ {x}
             Q == S \ {c}
             P == S \ {c, x}
  <2>4. S \in SUBSET D /\ c \in S /\ g[S] = f[c] + g[Q]
    BY <2>2, <2>3, <1>1 DEF IsSum, Chosen
  <2>5. x # c
    BY <2>3, <2>4
  <2>6. /\ R \in SUBSET D /\ Cardinality(R) < Cardinality(S)
        /\ Q \in SUBSET D /\ Cardinality(Q) < Cardinality(S)
    BY <2>2, <2>3, <2>4, Subsets
  <2>7. R \notin Wrong /\ Q \notin Wrong
    <3> HIDE DEF Wrong
    <3> QED BY <2>2, <2>6
  <2>8. g[R] = f[c] + g[P]
    <3>1. c \in R /\ R \ {c} = P
      BY <2>4, <2>5
    <3> QED BY <3>1, <2>6, <2>7
  <2>9. g[Q] = f[x] + g[P]
    <3>1. x \in Q /\ Q \ {x} = P
      BY <2>3, <2>5
    <3> QED BY <3>1, <2>6, <2>7
  <2>10. P \in SUBSET D /\ c \in D /\ x \in D
    BY <2>3, <2>4
  <2>11. f[c] \in Int /\ f[x] \in Int /\ g[P] \in Int
    BY <2>10, <1>2
  <2> HIDE DEF c, R, Q, P, Wrong
  <2> QED BY <2>3, <2>4, <2>8, <2>9, <2>11 DEF R
<1>4. g[{}] = 0
  BY <1>1 DEF IsSum
<1>5. ASSUME NEW S \in SUBSET D, NEW x \in S
      PROVE  SumFunctionOnSet(f, S) = f[x] + SumFunctionOnSet(f, S \ {x})
  <2>1. g[S] = f[x] + g[S \ {x}]
    BY <1>3
  <2>2. S \ {x} \in SUBSET D
    OBVIOUS
  <2> QED BY <2>1, <2>2, <1>2
<1> QED BY <1>2, <1>4, <1>5

\* One more element.
LEMMA SumOneMore ==
  ASSUME NEW D, IsFiniteSet(D), NEW f \in [D -> Int], NEW S \in SUBSET D, NEW x \in D \ S
  PROVE  SumFunctionOnSet(f, S \cup {x}) = SumFunctionOnSet(f, S) + f[x]
<1>1. S \cup {x} \in SUBSET D /\ x \in S \cup {x} /\ (S \cup {x}) \ {x} = S
  OBVIOUS
<1>2. SumFunctionOnSet(f, S) \in Int /\ f[x] \in Int
  BY SumFacts
<1>3. SumFunctionOnSet(f, S \cup {x}) = f[x] + SumFunctionOnSet(f, S)
  BY <1>1, SumFacts
<1> QED BY <1>2, <1>3

\* Two disjoint sets.
LEMMA SumOfUnion ==
  ASSUME NEW D, IsFiniteSet(D), NEW f \in [D -> Int],
         NEW S \in SUBSET D, NEW T \in SUBSET D, S \cap T = {}
  PROVE  SumFunctionOnSet(f, S \cup T) = SumFunctionOnSet(f, S) + SumFunctionOnSet(f, T)
<1> DEFINE Sum(X) == SumFunctionOnSet(f, X)
           Wrong == {X \in SUBSET T : Sum(S \cup X) # Sum(S) + Sum(X)}
<1>1. \A X \in SUBSET D : Sum(X) \in Int
  BY SumFacts
<1>2. Wrong = {}
  <2>1. SUFFICES ASSUME Wrong # {} PROVE FALSE
    OBVIOUS
  <2>2. PICK X \in Wrong : \A Y \in Wrong : ~(Cardinality(Y) < Cardinality(X))
    <3>1. Wrong \subseteq SUBSET D
      OBVIOUS
    <3> HIDE DEF Wrong
    <3> QED BY <2>1, <3>1, HasSmallestSet
  <2>3. X # {}
    <3>1. Sum({}) = 0 /\ Sum(S) \in Int /\ S \cup {} = S
      BY SumFacts
    <3>2. Sum(S \cup {}) = Sum(S) + Sum({})
      <4> HIDE DEF Sum
      <4> QED BY <3>1
    <3> QED BY <3>2, <2>2
  <2>4. PICK x \in X : TRUE
    BY <2>3
  <2> DEFINE Y == X \ {x}
  <2>5. /\ Y \in SUBSET T /\ Y \in SUBSET D /\ Cardinality(Y) < Cardinality(X)
        /\ S \cup Y \in SUBSET D /\ x \in D \ Y /\ x \in D \ (S \cup Y)
        /\ Y \cup {x} = X /\ (S \cup Y) \cup {x} = S \cup X
    BY <2>2, <2>4, Subsets
  <2>6. Sum(S \cup Y) = Sum(S) + Sum(Y)
    <3>1. Y \notin Wrong
      <4> HIDE DEF Wrong, Y
      <4> QED BY <2>2, <2>5
    <3> QED BY <3>1, <2>5
  <2>7. Sum(X) = Sum(Y) + f[x] /\ Sum(S \cup X) = Sum(S \cup Y) + f[x] /\ f[x] \in Int
    <3> HIDE DEF Y
    <3>1. Sum(Y \cup {x}) = Sum(Y) + f[x]
      BY <2>5, SumOneMore
    <3>2. Sum((S \cup Y) \cup {x}) = Sum(S \cup Y) + f[x]
      BY <2>5, SumOneMore
    <3> QED BY <3>1, <3>2, <2>5
  <2>8. Sum(S \cup X) = Sum(S) + Sum(X)
    <3>1. Sum(S) \in Int /\ Sum(Y) \in Int
      BY <1>1, <2>5
    <3> HIDE DEF Sum, Y
    <3> QED BY <3>1, <2>6, <2>7
  <2> QED BY <2>2, <2>8
<1> QED BY <1>2

\* Only the values of the elements matter.
LEMMA SumOfEqualValues ==
  ASSUME NEW D, IsFiniteSet(D), NEW f \in [D -> Int], NEW h \in [D -> Int],
         NEW S \in SUBSET D, \A x \in S : f[x] = h[x]
  PROVE  SumFunctionOnSet(f, S) = SumFunctionOnSet(h, S)
<1> DEFINE Wrong == {X \in SUBSET S : SumFunctionOnSet(f, X) # SumFunctionOnSet(h, X)}
<1>1. Wrong = {}
  <2>1. SUFFICES ASSUME Wrong # {} PROVE FALSE
    OBVIOUS
  <2>2. PICK X \in Wrong : \A Y \in Wrong : ~(Cardinality(Y) < Cardinality(X))
    <3>1. Wrong \subseteq SUBSET D
      OBVIOUS
    <3> HIDE DEF Wrong
    <3> QED BY <2>1, <3>1, HasSmallestSet
  <2>3. X # {}
    <3>1. SumFunctionOnSet(f, {}) = 0 /\ SumFunctionOnSet(h, {}) = 0
      BY SumFacts
    <3> QED BY <3>1, <2>2
  <2>4. PICK x \in X : TRUE
    BY <2>3
  <2> DEFINE Y == X \ {x}
  <2>5. X \in SUBSET D /\ Y \in SUBSET S /\ Cardinality(Y) < Cardinality(X)
    BY <2>2, <2>4, Subsets
  <2>6. Y \notin Wrong
    <3> HIDE DEF Wrong, Y
    <3> QED BY <2>2, <2>5
  <2>7. /\ SumFunctionOnSet(f, X) = f[x] + SumFunctionOnSet(f, Y)
        /\ SumFunctionOnSet(h, X) = h[x] + SumFunctionOnSet(h, Y)
    BY <2>4, <2>5, SumFacts
  <2>8. f[x] = h[x]
    BY <2>2, <2>4
  <2> QED BY <2>2, <2>5, <2>6, <2>7, <2>8
<1> QED BY <1>1

\* A value that grows makes the sum grow by as much.
LEMMA SumOfChange ==
  ASSUME NEW D, IsFiniteSet(D), NEW f \in [D -> Int], NEW h \in [D -> Int], NEW b \in D,
         NEW d \in Int, h[b] = f[b] + d, \A x \in D \ {b} : h[x] = f[x]
  PROVE  SumFunctionOnSet(h, D) = SumFunctionOnSet(f, D) + d
<1>1. D \ {b} \in SUBSET D /\ D \in SUBSET D
  OBVIOUS
<1>2. SumFunctionOnSet(h, D \ {b}) = SumFunctionOnSet(f, D \ {b})
  BY <1>1, SumOfEqualValues
<1>3. /\ SumFunctionOnSet(h, D) = h[b] + SumFunctionOnSet(h, D \ {b})
      /\ SumFunctionOnSet(f, D) = f[b] + SumFunctionOnSet(f, D \ {b})
      /\ SumFunctionOnSet(f, D \ {b}) \in Int /\ f[b] \in Int
  BY <1>1, SumFacts
<1> QED BY <1>2, <1>3

\* Nothing adds up to nothing.
LEMMA SumOfZeros ==
  ASSUME NEW D, IsFiniteSet(D), NEW f \in [D -> Int], \A x \in D : f[x] = 0
  PROVE  SumFunctionOnSet(f, D) = 0
<1> DEFINE Wrong == {X \in SUBSET D : SumFunctionOnSet(f, X) # 0}
<1>1. Wrong = {}
  <2>1. SUFFICES ASSUME Wrong # {} PROVE FALSE
    OBVIOUS
  <2>2. PICK X \in Wrong : \A Y \in Wrong : ~(Cardinality(Y) < Cardinality(X))
    <3>1. Wrong \subseteq SUBSET D
      OBVIOUS
    <3> HIDE DEF Wrong
    <3> QED BY <2>1, <3>1, HasSmallestSet
  <2>3. X # {}
    <3>1. SumFunctionOnSet(f, {}) = 0
      BY SumFacts
    <3> QED BY <3>1, <2>2
  <2>4. PICK x \in X : TRUE
    BY <2>3
  <2>5. X \ {x} \in SUBSET D /\ Cardinality(X \ {x}) < Cardinality(X)
    BY <2>2, <2>4, Subsets
  <2>6. X \ {x} \notin Wrong
    <3> HIDE DEF Wrong
    <3> QED BY <2>2, <2>5
  <2>7. SumFunctionOnSet(f, X) = f[x] + SumFunctionOnSet(f, X \ {x})
    BY <2>2, <2>4, SumFacts
  <2>8. SumFunctionOnSet(f, X) = 0
    BY <2>2, <2>4, <2>5, <2>6, <2>7
  <2> QED BY <2>2, <2>8
<1> QED BY <1>1

(***************************************************************************)
(* The grid.                                                               *)
(***************************************************************************)
\* Division with a positive divisor.
LEMMA Division ==
  ASSUME NEW v \in Nat
  PROVE  v \div BinWidth \in Nat /\ (v \div BinWidth) * BinWidth <= v
         /\ v < (v \div BinWidth) * BinWidth + BinWidth
BY GridAssumption, SMTT(60)

LEMMA OppositeProduct ==
  ASSUME NEW q \in Int
  PROVE  q * BinWidth \in Int /\ (-q) * BinWidth = -(q * BinWidth)
         /\ (q - 1) * BinWidth = q * BinWidth - BinWidth
         /\ (q + 1) * BinWidth = q * BinWidth + BinWidth
BY GridAssumption, SMTT(60)

\* The quotient is the floor, and the remainder is not negative.
LEMMA FloorPartsAreFloor ==
  ASSUME NEW v \in Int
  PROVE  LET p == FloorParts(v)
         IN /\ p.quotient \in Int /\ p.remainder \in Int
            /\ 0 <= p.remainder /\ p.remainder < BinWidth
            /\ v = p.quotient * BinWidth + p.remainder
<1>1. BinWidth \in Int /\ BinWidth > 0
  BY GridAssumption
<1> DEFINE q == Truncated(v)
           w == q * BinWidth
           r == v - w
<1>2. q \in Int /\ w \in Int /\ -BinWidth < r /\ r < BinWidth
  <2>1. CASE v < 0
    <3> DEFINE a == (-v) \div BinWidth
    <3>1. a \in Nat /\ a * BinWidth <= -v /\ -v < a * BinWidth + BinWidth
      BY <2>1, Division
    <3>2. q = -a
      BY <2>1 DEF Truncated
    <3>3. w = -(a * BinWidth) /\ a * BinWidth \in Int
      <4> HIDE DEF a
      <4>1. (-a) * BinWidth = -(a * BinWidth) /\ a * BinWidth \in Int
        BY <3>1, OppositeProduct
      <4> QED BY <4>1, <3>2
    <3> HIDE DEF a, w, q
    <3> QED BY <3>1, <3>2, <3>3, <1>1
  <2>2. CASE ~(v < 0)
    <3>1. q = v \div BinWidth
      BY <2>2 DEF Truncated
    <3>2. q \in Nat /\ w <= v /\ v < w + BinWidth
      BY <2>2, <3>1, Division
    <3>3. w \in Int
      BY <3>2, OppositeProduct
    <3> HIDE DEF w, q
    <3> QED BY <3>2, <3>3, <1>1
  <2> QED BY <2>1, <2>2
<1>3. FloorParts(v) = IF r < 0 THEN [quotient |-> q - 1, remainder |-> r + BinWidth]
                                ELSE [quotient |-> q, remainder |-> r]
  BY DEF FloorParts
<1>4. (q - 1) * BinWidth = w - BinWidth
  BY <1>2, OppositeProduct
<1> HIDE DEF q
<1>5. CASE r < 0
  <2>1. FloorParts(v).quotient = q - 1 /\ FloorParts(v).remainder = r + BinWidth
    BY <1>3, <1>5
  <2>2. v = (w - BinWidth) + (r + BinWidth)
    <3> HIDE DEF w
    <3> QED BY <1>1, <1>2
  <2>3. 0 <= r + BinWidth /\ r + BinWidth < BinWidth /\ r + BinWidth \in Int
    <3>1. r \in Int
      BY <1>2
    <3> HIDE DEF r
    <3> QED BY <1>1, <1>2, <1>5, <3>1
  <2> HIDE DEF r, w
  <2> QED BY <2>1, <2>2, <2>3, <1>2, <1>4
<1>6. CASE ~(r < 0)
  <2>1. FloorParts(v).quotient = q /\ FloorParts(v).remainder = r
    BY <1>3, <1>6
  <2>2. v = w + r /\ r \in Int
    <3> HIDE DEF w
    <3> QED BY <1>2
  <2> HIDE DEF r
  <2> QED BY <2>1, <2>2, <1>2, <1>6
<1> QED BY <1>5, <1>6

\* No multiple of the width other than none is smaller than it.
LEMMA SmallMultiple ==
  ASSUME NEW n \in Int, -BinWidth < n * BinWidth, n * BinWidth < BinWidth
  PROVE  n = 0
<1>1. ASSUME NEW m \in Nat \ {0} PROVE BinWidth <= m * BinWidth
  <2>1. m - 1 \in Nat /\ (m - 1) * BinWidth = m * BinWidth - BinWidth /\ m * BinWidth \in Int
    BY OppositeProduct
  <2>2. (m - 1) * BinWidth >= 0
    BY <2>1, GridAssumption, SMTT(30)
  <2> QED BY <2>1, <2>2, GridAssumption
<1>2. CASE n > 0
  BY <1>1, <1>2, OppositeProduct, GridAssumption
<1>3. CASE n < 0
  <2>1. -n \in Nat \ {0} /\ (-n) * BinWidth = -(n * BinWidth) /\ n * BinWidth \in Int
    BY <1>3, OppositeProduct
  <2>2. BinWidth <= (-n) * BinWidth
    BY <2>1, <1>1
  <2> QED BY <2>1, <2>2, GridAssumption
<1> QED BY <1>2, <1>3

\* The index of a time is that of the bin whose half-open interval it is in.
LEMMA IndexOfIsTheBin ==
  ASSUME NEW origin \in Int, NEW v \in Int
  PROVE  /\ IndexOf(origin, v) \in Int
         /\ EdgeUnixNs(origin, IndexOf(origin, v)) <= v
         /\ v < EdgeUnixNs(origin, IndexOf(origin, v)) + BinWidth
<1>0. BinWidth \in Int /\ BinWidth > 0
  BY GridAssumption
<1> DEFINE t == FloorParts(v)
           o == FloorParts(origin)
           q == t.quotient
           r == t.remainder
           p == o.quotient
           s == o.remainder
           i == IndexOf(origin, v)
<1>1. /\ q \in Int /\ r \in Int /\ 0 <= r /\ r < BinWidth /\ v = q * BinWidth + r
  BY FloorPartsAreFloor
<1>2. /\ p \in Int /\ s \in Int /\ 0 <= s /\ s < BinWidth /\ origin = p * BinWidth + s
  BY FloorPartsAreFloor
<1>3. i = q - p - (IF r < s THEN 1 ELSE 0)
  BY DEF IndexOf
<1> DEFINE Q == q * BinWidth
           P == p * BinWidth
<1>4. Q \in Int /\ P \in Int /\ (q - p) * BinWidth = Q - P
  <2> HIDE DEF q, p
  <2>1. Q \in Int /\ P \in Int
    BY <1>1, <1>2, OppositeProduct
  <2>2. (q - p) * BinWidth = Q - P
    BY <1>1, <1>2, <1>0, SMTT(60)
  <2> QED BY <2>1, <2>2
<1>5. CASE r < s
  <2>1. i = (q - p) - 1 /\ q - p \in Int
    <3> HIDE DEF q, p, r, s, i
    <3> QED BY <1>1, <1>2, <1>3, <1>5
  <2>2. i \in Int /\ i * BinWidth = (Q - P) - BinWidth
    <3> HIDE DEF q, p, i
    <3>1. ((q - p) - 1) * BinWidth = (q - p) * BinWidth - BinWidth
      BY <2>1, OppositeProduct
    <3> QED BY <3>1, <2>1, <1>4
  <2> HIDE DEF q, p, r, s, i, Q, P
  <2> QED BY <1>0, <1>1, <1>2, <1>4, <1>5, <2>2 DEF EdgeUnixNs, Q, P, i
<1>6. CASE ~(r < s)
  <2>1. i = q - p /\ q - p \in Int
    <3> HIDE DEF q, p, r, s, i
    <3> QED BY <1>1, <1>2, <1>3, <1>6
  <2>2. i \in Int /\ i * BinWidth = Q - P
    <3> HIDE DEF q, p, i
    <3> QED BY <2>1, <1>4
  <2> HIDE DEF q, p, r, s, i, Q, P
  <2> QED BY <1>0, <1>1, <1>2, <1>4, <1>6, <2>2 DEF EdgeUnixNs, Q, P, i
<1> QED BY <1>5, <1>6

\* Edges are whole numbers, one after another.
LEMMA EdgesFollow ==
  ASSUME NEW origin \in Int, NEW i \in Int
  PROVE  /\ EdgeUnixNs(origin, i) \in Int
         /\ EdgeUnixNs(origin, i + 1) = EdgeUnixNs(origin, i) + BinWidth
<1>1. i * BinWidth \in Int /\ (i + 1) * BinWidth = i * BinWidth + BinWidth
  BY OppositeProduct
<1> QED BY <1>1, GridAssumption DEF EdgeUnixNs

\* And a later bin begins no earlier.
LEMMA EdgesGrow ==
  ASSUME NEW origin \in Int, NEW i \in Int, NEW j \in Int, i <= j
  PROVE  EdgeUnixNs(origin, i) <= EdgeUnixNs(origin, j)
<1>1. (j - i) * BinWidth >= 0 /\ (j - i) * BinWidth = j * BinWidth - i * BinWidth
  BY GridAssumption, SMTT(60)
<1>2. i * BinWidth \in Int /\ j * BinWidth \in Int
  BY OppositeProduct
<1> QED BY <1>1, <1>2 DEF EdgeUnixNs

\* No other bin has that time.
LEMMA TheBinIsTheIndex ==
  ASSUME NEW origin \in Int, NEW v \in Int, NEW i \in Int,
         EdgeUnixNs(origin, i) <= v, v < EdgeUnixNs(origin, i) + BinWidth
  PROVE  i = IndexOf(origin, v)
<1> DEFINE k == IndexOf(origin, v)
<1>1. k \in Int /\ EdgeUnixNs(origin, k) <= v /\ v < EdgeUnixNs(origin, k) + BinWidth
  BY IndexOfIsTheBin
<1> HIDE DEF k
<1>2. i * BinWidth \in Int /\ k * BinWidth \in Int
  BY <1>1, OppositeProduct
<1>3. (i - k) * BinWidth = i * BinWidth - k * BinWidth
  BY <1>1, GridAssumption, SMTT(60)
<1>4. -BinWidth < (i - k) * BinWidth /\ (i - k) * BinWidth < BinWidth
  BY <1>1, <1>2, <1>3, GridAssumption DEF EdgeUnixNs
<1>5. i - k = 0
  BY <1>1, <1>4, SmallMultiple
<1> QED BY <1>1, <1>5 DEF k

(***************************************************************************)
(* Order.                                                                  *)
(***************************************************************************)
\* A finite set of whole numbers has a smallest and a largest one.
LEMMA HasExtremes ==
  ASSUME NEW S, IsFiniteSet(S), S \subseteq Int, S # {}
  PROVE  /\ \E lo \in S : \A x \in S : lo <= x
         /\ \E hi \in S : \A x \in S : x <= hi
<1> DEFINE Good(X) == /\ \E lo \in X : \A x \in X : lo <= x
                      /\ \E hi \in X : \A x \in X : x <= hi
           Bad == {X \in SUBSET S : X # {} /\ ~Good(X)}
<1>1. Bad = {}
  <2>1. SUFFICES ASSUME Bad # {} PROVE FALSE
    OBVIOUS
  <2>2. PICK X \in Bad : \A Y \in Bad : ~(Cardinality(Y) < Cardinality(X))
    <3>1. Bad \subseteq SUBSET S
      OBVIOUS
    <3> HIDE DEF Bad
    <3> QED BY <2>1, <3>1, HasSmallestSet
  <2>3. PICK x \in X : TRUE
    BY <2>2
  <2> DEFINE Y == X \ {x}
  <2>4. Y \in SUBSET S /\ Cardinality(Y) < Cardinality(X)
    BY <2>2, <2>3, Subsets
  <2>5. Y \notin Bad
    <3> HIDE DEF Bad, Y
    <3> QED BY <2>2, <2>4
  <2>6. CASE Y = {}
    <3>1. \A y \in X : y = x
      BY <2>6
    <3>2. x \in Int
      BY <2>2, <2>3
    <3>3. Good(X)
      BY <3>1, <3>2
    <3> QED BY <3>3, <2>2
  <2>7. CASE Y # {}
    <3>1. PICK lo \in Y : \A y \in Y : lo <= y
      BY <2>4, <2>5, <2>7
    <3>2. PICK hi \in Y : \A y \in Y : y <= hi
      BY <2>4, <2>5, <2>7
    <3>3. X \subseteq Int /\ x \in Int /\ lo \in Int /\ hi \in Int
      BY <2>2, <2>3, <3>1, <3>2
    <3>4. \E n \in X : \A y \in X : n <= y
      <4>1. CASE lo <= x
        BY <3>1, <4>1
      <4>2. CASE ~(lo <= x)
        <5>1. x <= x /\ \A y \in Y : x <= y
          BY <3>1, <3>3, <4>2
        <5> QED BY <5>1, <2>3
      <4> QED BY <4>1, <4>2
    <3>5. \E n \in X : \A y \in X : y <= n
      <4>1. CASE x <= hi
        BY <3>2, <4>1
      <4>2. CASE ~(x <= hi)
        <5>1. x <= x /\ \A y \in Y : y <= x
          BY <3>2, <3>3, <4>2
        <5> QED BY <5>1, <2>3
      <4> QED BY <4>1, <4>2
    <3> QED BY <2>2, <3>4, <3>5
  <2> QED BY <2>6, <2>7
<1> QED BY <1>1

LEMMA Extremes ==
  ASSUME NEW S, IsFiniteSet(S), S \subseteq Int, S # {}
  PROVE  /\ Min(S) \in S /\ \A x \in S : Min(S) <= x
         /\ Max(S) \in S /\ \A x \in S : x <= Max(S)
<1>1. PICK lo \in S : \A x \in S : lo <= x
  BY HasExtremes
<1>2. PICK hi \in S : \A x \in S : x <= hi
  BY HasExtremes
<1>3. \A x \in S : hi >= x
  BY <1>2
<1>4. Max(S) \in S /\ \A x \in S : Max(S) >= x
  BY <1>2, <1>3 DEF Max
<1> QED BY <1>1, <1>4 DEF Min

\* An order of a set: R holds of every two elements in one direction only.
IsOrder(R, S) ==
  /\ \A x \in S : <<x, x>> \notin R
  /\ \A x, y \in S : x # y => <<x, y>> \in R \/ <<y, x>> \in R
  /\ \A x, y, z \in S : <<x, y>> \in R /\ <<y, z>> \in R => <<x, z>> \in R

\* The last element in such an order.
LEMMA HasLast ==
  ASSUME NEW R, NEW S, IsFiniteSet(S), S # {}, IsOrder(R, S)
  PROVE  \E l \in S : \A x \in S \ {l} : <<x, l>> \in R
<1> DEFINE HasOne(X) == \E l \in X : \A x \in X \ {l} : <<x, l>> \in R
           Bad == {X \in SUBSET S : X # {} /\ ~HasOne(X)}
<1>1. Bad = {}
  <2>1. SUFFICES ASSUME Bad # {} PROVE FALSE
    OBVIOUS
  <2>2. PICK X \in Bad : \A Y \in Bad : ~(Cardinality(Y) < Cardinality(X))
    <3>1. Bad \subseteq SUBSET S
      OBVIOUS
    <3> HIDE DEF Bad
    <3> QED BY <2>1, <3>1, HasSmallestSet
  <2>3. PICK x \in X : TRUE
    BY <2>2
  <2> DEFINE Y == X \ {x}
  <2>4. Y \in SUBSET S /\ Cardinality(Y) < Cardinality(X)
    BY <2>2, <2>3, Subsets
  <2>5. Y \notin Bad
    <3> HIDE DEF Bad, Y
    <3> QED BY <2>2, <2>4
  <2>6. CASE Y = {}
    <3>1. HasOne(X)
      BY <2>3, <2>6
    <3> QED BY <3>1, <2>2
  <2>7. CASE Y # {}
    <3>1. PICK l \in Y : \A y \in Y \ {l} : <<y, l>> \in R
      BY <2>4, <2>5, <2>7
    <3>2. l \in S /\ x \in S /\ l # x
      BY <2>2, <2>3, <3>1
    <3>3. CASE <<x, l>> \in R
      <4>1. \A y \in X \ {l} : <<y, l>> \in R
        BY <3>1, <3>3
      <4> QED BY <4>1, <3>1, <2>2
    <3>4. CASE <<l, x>> \in R
      <4>1. \A y \in X \ {x} : <<y, x>> \in R
        BY <3>1, <3>2, <3>4, <2>2 DEF IsOrder
      <4> QED BY <4>1, <2>2, <2>3
    <3> QED BY <3>2, <3>3, <3>4 DEF IsOrder
  <2> QED BY <2>6, <2>7
<1> QED BY <1>1

\* A sequence that lists a set in that order.
Sorts(R, S, f) ==
  /\ f \in [1..Cardinality(S) -> S]
  /\ \A i, j \in 1..Cardinality(S) : i < j => <<f[i], f[j]>> \in R

LEMMA CanBeSorted ==
  ASSUME NEW R, NEW S, IsFiniteSet(S), IsOrder(R, S)
  PROVE  \E f : Sorts(R, S, f)
<1> DEFINE Bad == {X \in SUBSET S : ~\E f : Sorts(R, X, f)}
<1>1. Bad = {}
  <2>1. SUFFICES ASSUME Bad # {} PROVE FALSE
    OBVIOUS
  <2>2. PICK X \in Bad : \A Y \in Bad : ~(Cardinality(Y) < Cardinality(X))
    <3>1. Bad \subseteq SUBSET S
      OBVIOUS
    <3> HIDE DEF Bad
    <3> QED BY <2>1, <3>1, HasSmallestSet
  <2>3. X \in SUBSET S /\ IsFiniteSet(X) /\ IsOrder(R, X)
    BY <2>2, Subsets DEF IsOrder
  <2>4. X # {}
    <3>1. Cardinality({}) = 0 /\ 1..0 = {}
      BY FS_EmptySet
    <3>2. Sorts(R, {}, [i \in {} |-> i])
      BY <3>1 DEF Sorts
    <3> QED BY <3>2, <2>2
  <2>5. PICK l \in X : \A x \in X \ {l} : <<x, l>> \in R
    BY <2>3, <2>4, HasLast
  <2> DEFINE Y == X \ {l}
             n == Cardinality(Y)
  <2>6. Y \in SUBSET S /\ Cardinality(Y) < Cardinality(X) /\ Cardinality(X) = n + 1 /\ n \in Nat
    <3>1. Cardinality(X) \in Nat /\ Cardinality(Y) = Cardinality(X) - 1 /\ n \in Nat
          /\ Y \in SUBSET S
      BY <2>3, <2>5, Subsets
    <3> QED BY <3>1
  <2>7. PICK f : Sorts(R, Y, f)
    <3>1. Y \notin Bad
      <4> HIDE DEF Bad, Y
      <4> QED BY <2>2, <2>6
    <3> QED BY <3>1, <2>6
  <2> DEFINE g == [i \in 1..(n + 1) |-> IF i = n + 1 THEN l ELSE f[i]]
  <2>8. f \in [1..n -> Y] /\ \A i, j \in 1..n : i < j => <<f[i], f[j]>> \in R
    BY <2>7 DEF Sorts
  <2>9. \A i \in 1..(n + 1) : i # n + 1 => i \in 1..n /\ g[i] = f[i] /\ g[i] \in Y
    <3> HIDE DEF n, Y
    <3>1. \A i \in 1..(n + 1) : i # n + 1 => i \in 1..n
      BY <2>6
    <3> QED BY <3>1, <2>8
  <2>10. g \in [1..(n + 1) -> X]
    BY <2>5, <2>9
  <2>11. ASSUME NEW i \in 1..(n + 1), NEW j \in 1..(n + 1), i < j
         PROVE  <<g[i], g[j]>> \in R
    <3>1. i # n + 1 /\ i \in 1..n
      BY <2>6, <2>11
    <3>2. CASE j = n + 1
      <4>1. g[j] = l /\ g[i] \in X \ {l}
        BY <3>1, <3>2, <2>9
      <4> QED BY <4>1, <2>5
    <3>3. CASE j # n + 1
      <4>1. j \in 1..n /\ g[i] = f[i] /\ g[j] = f[j]
        BY <3>1, <3>3, <2>9
      <4> QED BY <4>1, <3>1, <2>8, <2>11
    <3> QED BY <3>2, <3>3
  <2>12. Sorts(R, X, g)
    <3> HIDE DEF g, n
    <3> QED BY <2>6, <2>10, <2>11 DEF Sorts
  <2> QED BY <2>2, <2>12
<1> QED BY <1>1

\* It lists every element, and no element twice.
LEMMA SortedListsAll ==
  ASSUME NEW R, NEW S, IsFiniteSet(S), IsOrder(R, S), NEW f, Sorts(R, S, f)
  PROVE  /\ \A i, j \in 1..Cardinality(S) : f[i] = f[j] => i = j
         /\ \A x \in S : \E i \in 1..Cardinality(S) : f[i] = x
<1> DEFINE n == Cardinality(S)
<1>1. n \in Nat
  BY FS_CardinalityType
<1>2. ASSUME NEW i \in 1..n, NEW j \in 1..n, f[i] = f[j] PROVE i = j
  <2>1. f[i] \in S
    BY DEF Sorts
  <2>2. CASE i < j
    BY <1>2, <2>1, <2>2 DEF Sorts, IsOrder
  <2>3. CASE j < i
    BY <1>2, <2>1, <2>3 DEF Sorts, IsOrder
  <2> QED BY <2>2, <2>3, <1>1
<1>3. f \in Injection(1..n, S)
  BY <1>2 DEF Injection, IsInjective, Sorts
<1>4. IsFiniteSet(1..n) /\ Cardinality(1..n) = n
  BY <1>1, FS_Interval
<1>5. f \in Surjection(1..n, S)
  <2> HIDE DEF n
  <2> QED BY <1>3, <1>4, FS_Injection DEF n
<1> QED BY <1>2, <1>5 DEF Surjection

(***************************************************************************)
(* Types.                                                                  *)
(***************************************************************************)
Held      == {{}} \cup {m.buttons : m \in Moves}
Report    == [unixNs : Int, dy : Int, buttons : Held, sequence : Int]
Edge      == [report : Nat, before : Held, after : Held]
MarkNames == {"TimestampRegressionDetected", "CaptureSequenceNotIncreasing",
              "ButtonChronologyUncertain"}

Bin == [begin : Int, end : Int, dy : Int, count : Nat, marks : SUBSET MarkNames,
        start : Held, finish : Held, edges : Seq(Edge), pre : Int, post : Int]

Grid == [origin : Int, range : SUBSET Int, convention : AxisConventions \cup {"none"}]

DeriverTypeOK ==
  /\ stage \in {"reading", "binning", "integrating", "done", "failed"}
  /\ reports \in Seq(Report)
  /\ grid \in Grid
  /\ DOMAIN bins \subseteq Int /\ bins \in [DOMAIN bins -> Bin]
  /\ at \in Int

LEMMA ReportsAreTyped ==
  ASSUME reports \in Seq(Report)
  PROVE  /\ Len(reports) \in Nat /\ DOMAIN reports = 1..Len(reports)
         /\ IsFiniteSet(DOMAIN reports) /\ DOMAIN reports \subseteq Nat \ {0}
         /\ \A k \in DOMAIN reports :
              /\ reports[k] \in Report
              /\ reports[k].unixNs \in Int /\ reports[k].dy \in Int
              /\ reports[k].buttons \in Held /\ reports[k].sequence \in Int
<1>1. Len(reports) \in Nat /\ DOMAIN reports = 1..Len(reports)
  OBVIOUS
<1>2. IsFiniteSet(1..Len(reports))
  BY <1>1, FS_Interval
<1>3. ASSUME NEW k \in DOMAIN reports
      PROVE  /\ reports[k] \in Report
             /\ reports[k].unixNs \in Int /\ reports[k].dy \in Int
             /\ reports[k].buttons \in Held /\ reports[k].sequence \in Int
  <2>1. reports[k] \in Report
    OBVIOUS
  <2> QED BY <2>1 DEF Report
<1> QED BY <1>1, <1>2, <1>3

(***************************************************************************)
(* The replay of a bin.                                                    *)
(***************************************************************************)
\* The group of a bin lists its reports once, in their order.
LEMMA GroupIsSorted ==
  ASSUME reports \in Seq(Report), NEW b
  PROVE  /\ IsFiniteSet(Mine(b)) /\ Cardinality(Mine(b)) \in Nat
         /\ Mine(b) \subseteq DOMAIN reports
         /\ Group(b) \in [Places(b) -> Mine(b)]
         /\ \A i, j \in Places(b) : i < j => Before(Group(b)[i], Group(b)[j])
         /\ \A i, j \in Places(b) : Group(b)[i] = Group(b)[j] => i = j
         /\ \A k \in Mine(b) : \E i \in Places(b) : Group(b)[i] = k
<1> DEFINE M == Mine(b)
           R == {p \in M \X M : Before(p[1], p[2])}
           n == Cardinality(M)
<1>1. M \subseteq DOMAIN reports /\ IsFiniteSet(M) /\ n \in Nat
  <2>1. M \subseteq DOMAIN reports
    BY DEF Mine
  <2> QED BY <2>1, ReportsAreTyped, FS_Subset, FS_CardinalityType
<1>2. \A x, y \in M : <<x, y>> \in R <=> Before(x, y)
  OBVIOUS
<1>3. \A x \in M : x \in Nat /\ reports[x].sequence \in Int
  BY <1>1, ReportsAreTyped
<1>4. IsOrder(R, M)
  <2> HIDE DEF R, M
  <2>1. \A x \in M : ~Before(x, x)
    BY <1>3 DEF Before
  <2>2. \A x, y \in M : x # y => Before(x, y) \/ Before(y, x)
    BY <1>3 DEF Before
  <2>3. \A x, y, z \in M : Before(x, y) /\ Before(y, z) => Before(x, z)
    BY <1>3 DEF Before
  <2> QED BY <1>2, <2>1, <2>2, <2>3 DEF IsOrder
<1> DEFINE Sorted(f) == \A i, j \in 1..n : i < j => Before(f[i], f[j])
<1>5. PICK f \in [1..n -> M] : Sorted(f)
  <2>1. PICK f : Sorts(R, M, f)
    <3> HIDE DEF R, M
    <3> QED BY <1>1, <1>4, CanBeSorted
  <2>2. f \in [1..n -> M] /\ \A i, j \in 1..n : i < j => <<f[i], f[j]>> \in R
    BY <2>1 DEF Sorts
  <2>3. Sorted(f)
    <3> HIDE DEF M, n
    <3> QED BY <2>2
  <2> QED BY <2>2, <2>3
<1>6. Group(b) \in [1..n -> M] /\ Sorted(Group(b))
  BY <1>5 DEF Group, Places
<1>7. Sorts(R, M, Group(b))
  <2>1. \A i, j \in 1..n : i < j => <<Group(b)[i], Group(b)[j]>> \in R
    <3> HIDE DEF M, n, R
    <3>1. \A i \in 1..n : Group(b)[i] \in M
      BY <1>6
    <3> QED BY <3>1, <1>2, <1>6
  <2> QED BY <1>6, <2>1 DEF Sorts
<1>8. /\ \A i, j \in 1..n : Group(b)[i] = Group(b)[j] => i = j
      /\ \A x \in M : \E i \in 1..n : Group(b)[i] = x
  <2> HIDE DEF M, R
  <2> QED BY <1>1, <1>4, <1>7, SortedListsAll
<1> QED BY <1>1, <1>6, <1>8 DEF Places

\* What a replay holds after some reports: the buttons and the edges so far.
Replayed == [now : Held, edges : Seq(Edge)]

LEMMA ReplayReportIsTyped ==
  ASSUME reports \in Seq(Report), NEW held \in Replayed, NEW k \in DOMAIN reports
  PROVE  ReplayReport(held, k) \in Replayed
<1>1. k \in Nat /\ reports[k].buttons \in Held
  BY ReportsAreTyped
<1>2. held.now \in Held /\ held.edges \in Seq(Edge)
  BY DEF Replayed
<1> DEFINE e == [report |-> k, before |-> held.now, after |-> reports[k].buttons]
<1>3. e \in Edge
  BY <1>1, <1>2 DEF Edge
<1>4. Append(held.edges, e) \in Seq(Edge)
  <2> HIDE DEF e
  <2> QED BY <1>2, <1>3
<1> QED BY <1>1, <1>2, <1>4 DEF ReplayReport, Replayed

\* The reports of a group are replayed one after the other.
IsReplay(h, b, buttons) ==
  /\ h \in [0..Cardinality(Mine(b)) -> Replayed]
  /\ h[0] = [now |-> buttons, edges |-> <<>>]
  /\ \A i \in Places(b) : h[i] = ReplayReport(h[i - 1], Group(b)[i])
  /\ Replay(b, buttons) = h[Cardinality(Mine(b))]

LEMMA ReplayHasSteps ==
  ASSUME reports \in Seq(Report), NEW b, NEW buttons \in Held
  PROVE  \E h : IsReplay(h, b, buttons)
<1> DEFINE n == Cardinality(Mine(b))
           D == 1..n
           G == Group(b)
           base == [now |-> buttons, edges |-> <<>>]
           Body(g, s) == IF s = {} THEN base ELSE ReplayReport(g[s \ {Max(s)}], G[Max(s)])
<1>1. n \in Nat /\ G \in [D -> DOMAIN reports] /\ IsFiniteSet(D)
  <2>1. n \in Nat /\ G \in [D -> Mine(b)] /\ Mine(b) \subseteq DOMAIN reports
    BY GroupIsSorted DEF Places
  <2> QED BY <2>1, FS_Interval
<1>2. base \in Replayed
  BY DEF Replayed
<1>3. ASSUME NEW s \in SUBSET D, s # {}
      PROVE  /\ Max(s) \in s /\ Max(s) \in D /\ G[Max(s)] \in DOMAIN reports
             /\ s \ {Max(s)} \in SUBSET D
             /\ Cardinality(s) \in Nat /\ Cardinality(s \ {Max(s)}) = Cardinality(s) - 1
             /\ Cardinality(s \ {Max(s)}) < Cardinality(s)
  <2>1. IsFiniteSet(s) /\ s \subseteq Int
    <3>1. s \subseteq Int
      BY <1>1
    <3>2. IsFiniteSet(s)
      <4> HIDE DEF D
      <4> QED BY <1>1, Subsets
    <3> QED BY <3>1, <3>2
  <2>2. Max(s) \in s
    BY <2>1, <1>3, Extremes
  <2> HIDE DEF D
  <2> QED BY <2>2, <1>1, Subsets
<1>4. ASSUME NEW h \in Replayed, NEW s \in SUBSET D, s # {}
      PROVE  ReplayReport(h, G[Max(s)]) \in Replayed
  BY <1>3, <1>4, ReplayReportIsTyped
<1>5. \A s \in SUBSET D : Cardinality(s) \in Nat /\ (Cardinality(s) = 0 <=> s = {})
                          /\ Cardinality(s) <= n
  <2>1. Cardinality(D) = n
    <3> HIDE DEF n
    <3> QED BY <1>1, FS_Interval
  <2> HIDE DEF D, n
  <2> QED BY <1>1, <2>1, Subsets, FS_Subset
<1> DEFINE Upto(m) == {s \in SUBSET D : Cardinality(s) <= m}
           Folds(m) == {g \in [Upto(m) -> Replayed] : \A s \in Upto(m) : g[s] = Body(g, s)}
           None == {m \in Nat : Folds(m) = {}}
<1>6. Folds(0) # {}
  <2> DEFINE g == [s \in Upto(0) |-> base]
  <2>1. \A s \in Upto(0) : s = {}
    BY <1>5
  <2>2. g \in Folds(0)
    BY <2>1, <1>2
  <2> QED BY <2>2
<1>7. ASSUME NEW m \in Nat, Folds(m) # {}
      PROVE  Folds(m + 1) # {}
  <2>1. PICK g \in Folds(m) : TRUE
    BY <1>7
  <2> DEFINE h == [s \in Upto(m + 1) |-> Body(g, s)]
  <2>2. ASSUME NEW s \in Upto(m + 1), s # {}
        PROVE  s \ {Max(s)} \in Upto(m) /\ s \ {Max(s)} \in Upto(m + 1)
    <3>1. s \ {Max(s)} \in SUBSET D /\ Cardinality(s \ {Max(s)}) = Cardinality(s) - 1
      BY <2>2, <1>3
    <3>2. Cardinality(s) \in Nat /\ Cardinality(s) <= m + 1
      BY <1>5
    <3>3. Cardinality(s) - 1 <= m /\ Cardinality(s) - 1 <= m + 1
      BY <3>2
    <3> QED BY <3>1, <3>3
  <2>3. h \in [Upto(m + 1) -> Replayed]
    <3>1. ASSUME NEW s \in Upto(m + 1) PROVE Body(g, s) \in Replayed
      <4>1. CASE s = {}
        BY <4>1, <1>2
      <4>2. CASE s # {}
        <5>1. g[s \ {Max(s)}] \in Replayed
          BY <2>1, <2>2, <4>2
        <5> QED BY <5>1, <4>2, <1>4
      <4> QED BY <4>1, <4>2
    <3> HIDE DEF Body, Upto
    <3> QED BY <3>1
  <2>4. ASSUME NEW t \in Upto(m)
        PROVE  t \in Upto(m + 1) /\ h[t] = g[t]
    <3>1. t \in Upto(m + 1)
      BY <1>5
    <3> QED BY <3>1, <2>1
  <2>5. ASSUME NEW s \in Upto(m + 1)
        PROVE  h[s] = Body(h, s)
    <3>1. CASE s = {}
      BY <3>1
    <3>2. CASE s # {}
      <4>1. h[s \ {Max(s)}] = g[s \ {Max(s)}]
        BY <2>2, <2>4, <3>2
      <4>2. h[s] = Body(g, s)
        OBVIOUS
      <4> HIDE DEF h
      <4> QED BY <4>1, <4>2, <3>2
    <3> QED BY <3>1, <3>2
  <2> QED BY <2>3, <2>5
<1>8. None = {}
  <2>1. SUFFICES ASSUME None # {} PROVE FALSE
    OBVIOUS
  <2> HIDE DEF Folds
  <2>2. PICK m \in None : \A k \in None : m <= k
    BY <2>1, HasLeast
  <2>3. m # 0
    BY <1>6, <2>2
  <2>4. m - 1 \in Nat /\ m - 1 \notin None
    BY <2>2, <2>3
  <2>5. Folds(m - 1 + 1) # {}
    BY <2>4, <1>7
  <2> QED BY <2>5, <2>2
<1>9. PICK g \in [SUBSET D -> Replayed] : \A s \in SUBSET D : g[s] = Body(g, s)
  <2>1. Upto(n) = SUBSET D
    BY <1>5
  <2>2. Folds(n) # {}
    <3> HIDE DEF Folds, n
    <3> QED BY <1>1, <1>8
  <2> QED BY <2>1, <2>2
<1> DEFINE iter == CHOOSE h : h = [s \in SUBSET D |-> Body(h, s)]
<1>10. iter = [s \in SUBSET D |-> Body(iter, s)]
  <2>1. g = [s \in SUBSET D |-> Body(g, s)]
    <3> HIDE DEF Body
    <3> QED BY <1>9
  <2> HIDE DEF Body
  <2> QED BY <2>1
<1>11. \A s \in SUBSET D : iter[s] = g[s]
  <2> DEFINE Wrong == {s \in SUBSET D : iter[s] # g[s]}
  <2>1. SUFFICES ASSUME Wrong # {} PROVE FALSE
    OBVIOUS
  <2> HIDE DEF iter
  <2>2. PICK s \in Wrong : \A t \in Wrong : ~(Cardinality(t) < Cardinality(s))
    <3>1. Wrong \subseteq SUBSET D
      OBVIOUS
    <3> HIDE DEF Wrong, D
    <3> QED BY <1>1, <2>1, <3>1, HasSmallestSet
  <2>3. s \in SUBSET D /\ iter[s] = Body(iter, s) /\ g[s] = Body(g, s)
    <3> HIDE DEF Body
    <3> QED BY <1>9, <1>10, <2>2
  <2>4. s # {}
    BY <2>2, <2>3
  <2>5. s \ {Max(s)} \notin Wrong /\ s \ {Max(s)} \in SUBSET D
    <3>1. s \ {Max(s)} \in SUBSET D /\ Cardinality(s \ {Max(s)}) < Cardinality(s)
      BY <2>3, <2>4, <1>3
    <3> HIDE DEF Wrong
    <3> QED BY <2>2, <3>1
  <2> QED BY <2>2, <2>3, <2>4, <2>5
<1>12. Replay(b, buttons) = iter[D]
  <2>1. DOMAIN G = D
    BY <1>1
  <2>2. Replay(b, buttons) =
          (CHOOSE h : h = [s \in SUBSET DOMAIN G |-> Body(h, s)])[DOMAIN G]
    BY DEF Replay, FoldLeft, MapThenFoldSet
  <2> QED BY <2>1, <2>2
<1> DEFINE steps == [i \in 0..n |-> g[1..i]]
<1>13. ASSUME NEW i \in 0..n PROVE 1..i \in SUBSET D
  BY <1>1
<1>14. steps \in [0..n -> Replayed]
  BY <1>9, <1>13
<1>15. steps[0] = base
  <2>1. 0 \in 0..n /\ 1..0 = {}
    BY <1>1
  <2>2. g[{}] = base
    BY <1>9
  <2> HIDE DEF base
  <2> QED BY <2>1, <2>2
<1>16. ASSUME NEW i \in 1..n PROVE steps[i] = ReplayReport(steps[i - 1], G[i])
  <2> HIDE DEF n
  <2>1. i \in 0..n /\ i - 1 \in 0..n /\ i \in Nat /\ i > 0
    BY <1>1
  <2>2. 1..i \in SUBSET D /\ 1..i # {} /\ (1..i) \ {i} = 1..(i - 1)
    BY <2>1, <1>13
  <2>3. Max(1..i) = i
    <3>1. IsFiniteSet(1..i)
      BY <2>1, FS_Interval
    <3> DEFINE s == 1..i
    <3>2. s \subseteq Int /\ s # {} /\ i \in s /\ IsFiniteSet(s)
      BY <3>1, <2>1, <2>2
    <3>3. Max(s) \in s /\ i <= Max(s)
      <4> HIDE DEF s
      <4> QED BY <3>2, Extremes
    <3> QED BY <3>3, <2>1
  <2>4. g[1..i] = ReplayReport(g[1..(i - 1)], G[i])
    <3>1. g[1..i] = Body(g, 1..i)
      <4> HIDE DEF Body
      <4> QED BY <1>9, <2>2
    <3> DEFINE s == 1..i
    <3>2. s # {} /\ s \ {i} = 1..(i - 1) /\ Max(s) = i /\ g[s] = Body(g, s)
      BY <3>1, <2>2, <2>3
    <3> HIDE DEF s
    <3>3. g[s] = ReplayReport(g[s \ {Max(s)}], G[Max(s)])
      BY <3>2
    <3>4. g[s] = ReplayReport(g[1..(i - 1)], G[i])
      BY <3>2, <3>3
    <3> QED BY <3>4 DEF s
  <2> QED BY <2>1, <2>4
<1>17. Replay(b, buttons) = steps[n]
  <2>1. n \in 0..n /\ D \in SUBSET D
    BY <1>1
  <2>2. iter[D] = g[D]
    BY <1>11
  <2> HIDE DEF iter
  <2> QED BY <2>1, <2>2, <1>12
<1>18. IsReplay(steps, b, buttons)
  <2> HIDE DEF steps
  <2> QED BY <1>14, <1>15, <1>16, <1>17 DEF IsReplay, Places
<1> QED BY <1>18

LEMMA ToSetOfAppend ==
  ASSUME NEW S, NEW s \in Seq(S), NEW e \in S
  PROVE  ToSet(Append(s, e)) = ToSet(s) \cup {e}
<1>1. /\ Len(s) \in Nat /\ DOMAIN s = 1..Len(s) /\ DOMAIN Append(s, e) = 1..(Len(s) + 1)
      /\ \A i \in 1..Len(s) : Append(s, e)[i] = s[i]
      /\ Append(s, e)[Len(s) + 1] = e
  OBVIOUS
<1>2. 1..(Len(s) + 1) = 1..Len(s) \cup {Len(s) + 1}
  BY <1>1
<1> QED BY <1>1, <1>2 DEF ToSet

\* The buttons before the i-th report of a group, and the edge it makes.
Preceding(b, buttons, i) == IF i = 1 THEN buttons ELSE reports[Group(b)[i - 1]].buttons

EdgesOf(edges, k) == {e \in ToSet(edges) : e.report = k}

Changes(k, before) ==
  IF reports[k].buttons = before THEN {}
  ELSE {[report |-> k, before |-> before, after |-> reports[k].buttons]}

\* A replay ends with the buttons of the last report of the group, and has of
\* each report the edge from the one before it in the group.
LEMMA ReplayTells ==
  ASSUME reports \in Seq(Report), NEW b, NEW buttons \in Held
  PROVE  LET n == Cardinality(Mine(b))
             r == Replay(b, buttons)
         IN /\ r \in Replayed
            /\ r.now = IF n = 0 THEN buttons ELSE reports[Group(b)[n]].buttons
            /\ \A i \in Places(b) :
                 EdgesOf(r.edges, Group(b)[i]) = Changes(Group(b)[i], Preceding(b, buttons, i))
<1> DEFINE n == Cardinality(Mine(b))
           G == Group(b)
           Now(m) == IF m = 0 THEN buttons ELSE reports[G[m]].buttons
           Of(m, i) == IF i <= m THEN Changes(G[i], Preceding(b, buttons, i)) ELSE {}
<1>1. PICK h : IsReplay(h, b, buttons)
  BY ReplayHasSteps
<1>2. /\ n \in Nat /\ Places(b) = 1..n /\ \A i \in 1..n : G[i] \in DOMAIN reports
      /\ \A i, j \in 1..n : G[i] = G[j] => i = j
  <2>1. Places(b) = 1..n
    BY DEF Places
  <2>2. n \in Nat /\ G \in [Places(b) -> Mine(b)] /\ Mine(b) \subseteq DOMAIN reports
        /\ \A i, j \in Places(b) : G[i] = G[j] => i = j
    BY GroupIsSorted
  <2> HIDE DEF n, G
  <2> QED BY <2>1, <2>2
<1>3. /\ h \in [0..n -> Replayed] /\ h[0] = [now |-> buttons, edges |-> <<>>]
      /\ \A i \in 1..n : h[i] = ReplayReport(h[i - 1], G[i])
      /\ Replay(b, buttons) = h[n]
  BY <1>1, <1>2 DEF IsReplay
<1> DEFINE Told(m) == /\ h[m].now = Now(m)
                      /\ \A i \in 1..n : EdgesOf(h[m].edges, G[i]) = Of(m, i)
           Wrong == {m \in 0..n : ~Told(m)}
<1>4. Told(0)
  <2>1. h[0].now = buttons /\ h[0].edges = <<>>
    BY <1>3
  <2>2. \A k : EdgesOf(<<>>, k) = {}
    BY DEF EdgesOf, ToSet
  <2>3. \A i \in 1..n : Of(0, i) = {}
    BY <1>2
  <2> HIDE DEF Of
  <2> QED BY <2>1, <2>2, <2>3
<1>5. ASSUME NEW m \in 1..n, Told(m - 1)
      PROVE  Told(m)
  <2> DEFINE k == G[m]
             p == h[m - 1]
             before == Preceding(b, buttons, m)
             edge == [report |-> k, before |-> before, after |-> reports[k].buttons]
  <2>1. m \in Nat /\ m > 0 /\ m - 1 \in 0..n /\ m - 1 \in Nat /\ m \in 0..n
    BY <1>2
  <2>2. p \in Replayed /\ p.now \in Held /\ p.edges \in Seq(Edge)
    <3>1. p \in Replayed
      BY <1>3, <2>1
    <3> QED BY <3>1 DEF Replayed
  <2>3. p.now = before
    <3>1. p.now = Now(m - 1)
      BY <1>5
    <3>2. Now(m - 1) = before
      BY <2>1 DEF Preceding
    <3> QED BY <3>1, <3>2
  <2>4. h[m] = ReplayReport(p, k)
    BY <1>3
  <2>5. k \in DOMAIN reports /\ k \in Nat /\ reports[k].buttons \in Held
    BY <1>2, ReportsAreTyped
  <2>6. h[m].now = Now(m)
    <3>1. Now(m) = reports[k].buttons
      BY <2>1
    <3>2. ReplayReport(p, k).now = reports[k].buttons
      BY DEF ReplayReport
    <3> QED BY <3>1, <3>2, <2>4
  <2>7. \A i \in 1..n : /\ i # m => Of(m, i) = Of(m - 1, i)
                        /\ Of(m - 1, m) = {} /\ Of(m, m) = Changes(k, before)
    <3>1. \A i \in 1..n : i # m => (i <= m <=> i <= m - 1)
      BY <2>1
    <3>2. m <= m /\ ~(m <= m - 1)
      BY <2>1
    <3> QED BY <3>1, <3>2
  <2>8. \A i \in 1..n : EdgesOf(p.edges, G[i]) = Of(m - 1, i)
    BY <1>5
  <2>9. CASE reports[k].buttons = before
    <3>1. h[m] = p /\ Changes(k, before) = {}
      BY <2>3, <2>4, <2>9 DEF ReplayReport, Changes
    <3>2. \A i \in 1..n : EdgesOf(h[m].edges, G[i]) = Of(m, i)
      <4> HIDE DEF Of, p
      <4> QED BY <3>1, <2>7, <2>8
    <3> QED BY <3>2, <2>6
  <2>10. CASE reports[k].buttons # before
    <3>1. h[m].edges = Append(p.edges, edge) /\ Changes(k, before) = {edge}
      BY <2>3, <2>4, <2>10 DEF ReplayReport, Changes
    <3>2. edge \in Edge
      BY <2>2, <2>3, <2>5 DEF Edge
    <3>3. ToSet(h[m].edges) = ToSet(p.edges) \cup {edge}
      <4> HIDE DEF p, edge
      <4> QED BY <2>2, <3>1, <3>2, ToSetOfAppend
    <3>4. edge.report = k
      OBVIOUS
    <3>5. ASSUME NEW i \in 1..n PROVE EdgesOf(h[m].edges, G[i]) = Of(m, i)
      <4>1. CASE i = m
        <5>1. EdgesOf(p.edges, k) = {}
          <6> HIDE DEF Of, p
          <6> QED BY <2>7, <2>8
        <5>2. EdgesOf(h[m].edges, k) = {edge}
          <6> HIDE DEF p, edge
          <6> QED BY <5>1, <3>3, <3>4 DEF EdgesOf
        <5> HIDE DEF Of, edge
        <5> QED BY <4>1, <5>2, <2>7, <3>1
      <4>2. CASE i # m
        <5>1. G[i] # k
          BY <1>2, <4>2
        <5>2. EdgesOf(h[m].edges, G[i]) = EdgesOf(p.edges, G[i])
          <6> HIDE DEF p, edge, k
          <6> QED BY <5>1, <3>3, <3>4 DEF EdgesOf
        <5> HIDE DEF Of, edge, p
        <5> QED BY <4>2, <5>2, <2>7, <2>8
      <4> QED BY <4>1, <4>2
    <3> QED BY <3>5, <2>6
  <2> QED BY <2>9, <2>10
<1>6. Wrong = {}
  <2>1. SUFFICES ASSUME Wrong # {} PROVE FALSE
    OBVIOUS
  <2>2. Wrong \subseteq Nat
    BY <1>2
  <2>3. PICK m \in Wrong : \A l \in Wrong : m <= l
    <3> HIDE DEF Wrong
    <3> QED BY <2>1, <2>2, HasLeast
  <2>4. m # 0
    <3> HIDE DEF Told
    <3> QED BY <1>4, <2>3
  <2>5. m \in 1..n /\ m - 1 \in 0..n /\ ~(m <= m - 1)
    BY <2>3, <2>4, <1>2
  <2>6. m - 1 \notin Wrong
    <3> HIDE DEF Wrong
    <3> QED BY <2>3, <2>5
  <2>7. Told(m)
    <3> HIDE DEF Told
    <3> QED BY <1>5, <2>5, <2>6
  <2> HIDE DEF Told
  <2> QED BY <2>3, <2>7
<1>7. Told(n) /\ n \in 0..n
  <2>1. n \in 0..n
    BY <1>2
  <2> HIDE DEF Told
  <2> QED BY <1>6, <2>1
<1>8. Replay(b, buttons) \in Replayed
  BY <1>3, <1>7
<1>9. \A i \in 1..n : Of(n, i) = Changes(G[i], Preceding(b, buttons, i))
  BY <1>2
<1> HIDE DEF Of
<1> QED BY <1>2, <1>3, <1>7, <1>8, <1>9

(***************************************************************************)
(* The inductive invariant.                                                *)
(***************************************************************************)
\* The grid covers the reports, and a bin is an interval of it.
LaidOut ==
  /\ reports # <<>> /\ grid.convention \in AxisConventions
  /\ Min(grid.range) \in Int /\ Max(grid.range) \in Int
  /\ grid.range # {} /\ grid.range = Min(grid.range)..Max(grid.range)
  /\ \A k \in DOMAIN reports : BinOf(k) \in grid.range
  /\ DOMAIN bins = grid.range
  /\ \A i \in grid.range : /\ bins[i].begin = EdgeUnixNs(grid.origin, i)
                           /\ bins[i].end = bins[i].begin + BinWidth

\* The reports of a bin among the first n.
MineAmong(i, n) == {k \in DOMAIN reports : k <= n /\ BinOf(k) = i}

\* The first n reports are in their bins, and what they contradict is marked.
Binned(n) ==
  /\ \A i \in grid.range : /\ bins[i].count = Cardinality(MineAmong(i, n))
                           /\ bins[i].dy = SumFunctionOnSet(Dy, MineAmong(i, n))
  /\ SumFunction(Count) = n
  /\ \A k \in 1..n : Regresses(k) \/ Repeats(k) =>
       \A i \in MarkInclusiveBinSpan(k) : i \in grid.range => Uncertain(i)

\* The report of a bin that the replay has directly before another one.
Follows(j, k, i) ==
  /\ Before(j, k)
  /\ \A l \in Mine(i) : ~(Before(j, l) /\ Before(l, k))

\* What a row tells about the buttons: they end with those of its last report,
\* and each report has the edge from the one it follows.
TellsInOrder(i) ==
  /\ Mine(i) = {} => bins[i].finish = bins[i].start
  /\ \A k \in Mine(i) :
       /\ (\A l \in Mine(i) : l # k => Before(l, k)) => bins[i].finish = reports[k].buttons
       /\ (\A l \in Mine(i) : l # k => Before(k, l)) =>
            EdgesOf(bins[i].edges, k) = Changes(k, bins[i].start)
       /\ \A j \in Mine(i) : Follows(j, k, i) =>
            EdgesOf(bins[i].edges, k) = Changes(k, reports[j].buttons)

\* A row took over from the one before it and replayed its reports.
Integrated(i) ==
  /\ bins[i].pre = Moved(bins[i].begin) /\ bins[i].post = Moved(bins[i].end)
  /\ bins[i].start = IF i = Min(grid.range) THEN {} ELSE bins[i - 1].finish
  /\ TellsInOrder(i)

DeriverInv ==
  /\ DeriverTypeOK
  /\ stage = "reading" => at = 1
  /\ stage \in {"binning", "integrating", "done"} => LaidOut
  /\ stage = "binning" => at \in 1..(Len(reports) + 1) /\ Binned(at - 1)
  /\ stage \in {"integrating", "done"} => Binned(Len(reports))
  /\ stage = "integrating" =>
       at \in grid.range /\ \A i \in grid.range : i < at => Integrated(i)
  /\ stage = "done" => \A i \in grid.range : Integrated(i)

(***************************************************************************)
(* The reports and the grid stay while the bins are made.                  *)
(***************************************************************************)
LEMMA KeptWithReports ==
  ASSUME UNCHANGED reports, UNCHANGED grid
  PROVE  /\ \A k : BinOf(k)' = BinOf(k)
         /\ \A i : Mine(i)' = Mine(i)
         /\ \A i, n : MineAmong(i, n)' = MineAmong(i, n)
         /\ \A j, k : Before(j, k)' <=> Before(j, k)
         /\ \A j, k, i : Follows(j, k, i)' <=> Follows(j, k, i)
         /\ \A k : Regresses(k)' <=> Regresses(k)
         /\ \A k : Repeats(k)' <=> Repeats(k)
         /\ \A k : MarkInclusiveBinSpan(k)' = MarkInclusiveBinSpan(k)
         /\ Dy' = Dy
         /\ \A t : Moved(t)' = Moved(t)
         /\ \A k, before : Changes(k, before)' = Changes(k, before)
<1>1. \A k : BinOf(k)' = BinOf(k)
  BY DEF BinOf
<1>2. \A i : Mine(i)' = Mine(i)
  BY <1>1 DEF Mine
<1>3. \A i, n : MineAmong(i, n)' = MineAmong(i, n)
  BY <1>1 DEF MineAmong
<1>4. \A j, k : Before(j, k)' <=> Before(j, k)
  BY DEF Before
<1>5. \A j, k, i : Follows(j, k, i)' <=> Follows(j, k, i)
  BY <1>2, <1>4 DEF Follows
<1>6. (\A k : Regresses(k)' <=> Regresses(k)) /\ (\A k : Repeats(k)' <=> Repeats(k))
  BY DEF Regresses, Repeats
<1>7. \A k : MarkInclusiveBinSpan(k)' = MarkInclusiveBinSpan(k)
  BY <1>1 DEF MarkInclusiveBinSpan
<1>8. Dy' = Dy
  BY DEF Dy
<1>9. \A t : Moved(t)' = Moved(t)
  BY <1>8 DEF Moved
<1>10. \A k, before : Changes(k, before)' = Changes(k, before)
  BY DEF Changes
<1> QED BY <1>1, <1>2, <1>3, <1>4, <1>5, <1>6, <1>7, <1>8, <1>9, <1>10

\* A row that stays integrated: its bin and the one before it are kept.
LEMMA RowIsKept ==
  ASSUME UNCHANGED reports, UNCHANGED grid, NEW i,
         Integrated(i), bins'[i] = bins[i], i # Min(grid.range) => bins'[i - 1] = bins[i - 1]
  PROVE  Integrated(i)'
<1>1. /\ \A t : Moved(t)' = Moved(t)
      /\ Mine(i)' = Mine(i) /\ \A j, k : Before(j, k)' <=> Before(j, k)
      /\ \A j, k : Follows(j, k, i)' <=> Follows(j, k, i)
  BY KeptWithReports
<1>2. bins'[i].pre = bins[i].pre /\ bins'[i].post = bins[i].post
      /\ bins'[i].begin = bins[i].begin /\ bins'[i].end = bins[i].end
      /\ bins'[i].start = bins[i].start /\ bins'[i].finish = bins[i].finish
      /\ bins'[i].edges = bins[i].edges
  OBVIOUS
<1>3. (bins[i].pre = Moved(bins[i].begin) /\ bins[i].post = Moved(bins[i].end))'
  BY <1>1, <1>2 DEF Integrated
<1>4. (bins[i].start = IF i = Min(grid.range) THEN {} ELSE bins[i - 1].finish)'
  BY <1>2 DEF Integrated
<1>5. TellsInOrder(i)'
  <2>1. TellsInOrder(i)
    BY DEF Integrated
  <2>2. (Mine(i) = {} => bins[i].finish = bins[i].start)'
    BY <1>1, <1>2, <2>1 DEF TellsInOrder
  <2>3. ASSUME NEW k \in Mine(i)
        PROVE  /\ ((\A l \in Mine(i) : l # k => Before(l, k))
                    => bins[i].finish = reports[k].buttons)'
               /\ ((\A l \in Mine(i) : l # k => Before(k, l))
                    => EdgesOf(bins[i].edges, k) = Changes(k, bins[i].start))'
               /\ (\A j \in Mine(i) : Follows(j, k, i)
                    => EdgesOf(bins[i].edges, k) = Changes(k, reports[j].buttons))'
    <3>1. /\ (\A l \in Mine(i) : l # k => Before(l, k)) => bins[i].finish = reports[k].buttons
          /\ (\A l \in Mine(i) : l # k => Before(k, l)) =>
               EdgesOf(bins[i].edges, k) = Changes(k, bins[i].start)
          /\ \A j \in Mine(i) : Follows(j, k, i) =>
               EdgesOf(bins[i].edges, k) = Changes(k, reports[j].buttons)
      BY <2>1, <2>3 DEF TellsInOrder
    <3>2. ((\A l \in Mine(i) : l # k => Before(l, k)) => bins[i].finish = reports[k].buttons)'
      BY <1>1, <1>2, <3>1
    <3>3. ((\A l \in Mine(i) : l # k => Before(k, l)) =>
             EdgesOf(bins[i].edges, k) = Changes(k, bins[i].start))'
      BY <1>1, <1>2, <3>1 DEF Changes
    <3>4. (\A j \in Mine(i) : Follows(j, k, i) =>
             EdgesOf(bins[i].edges, k) = Changes(k, reports[j].buttons))'
      BY <1>1, <1>2, <3>1 DEF Changes
    <3> QED BY <3>2, <3>3, <3>4
  <2> QED BY <1>1, <2>2, <2>3 DEF TellsInOrder
<1> QED BY <1>3, <1>4, <1>5 DEF Integrated

(***************************************************************************)
(* Reading and laying out.                                                 *)
(***************************************************************************)
LEMMA InitEstablishes == DeriverInit => DeriverInv
<1> SUFFICES ASSUME DeriverInit PROVE DeriverInv
  OBVIOUS
<1>1. reports \in Seq(Report) /\ stage = "reading" /\ at = 1
  BY DEF DeriverInit
<1>2. grid \in Grid
  BY DEF DeriverInit, Grid
<1>3. DOMAIN bins \subseteq Int /\ bins \in [DOMAIN bins -> Bin]
  BY DEF DeriverInit
<1> QED BY <1>1, <1>2, <1>3 DEF DeriverInv, DeriverTypeOK

LEMMA ReadKeeps == DeriverInv /\ Read => DeriverInv'
<1> SUFFICES ASSUME DeriverInv, Read PROVE DeriverInv'
  OBVIOUS
<1>1. DeriverTypeOK /\ stage = "reading" /\ at = 1 /\ UNCHANGED <<stage, grid, bins, at>>
  BY DEF DeriverInv, Read
<1>2. PICK t \in Timestamps, m \in Moves, i \in Increments :
        reports' = Append(reports,
          [unixNs |-> t, dy |-> m.dy, buttons |-> m.buttons,
           sequence |-> i + (IF reports = <<>> THEN MaxReports ELSE Last(reports).sequence)])
  BY DEF Read
<1> DEFINE s == i + (IF reports = <<>> THEN MaxReports ELSE Last(reports).sequence)
<1>3. s \in Int
  <2>1. CASE reports = <<>>
    BY <2>1, GridAssumption
  <2>2. CASE reports # <<>>
    <3>1. Len(reports) \in Nat /\ Len(reports) # 0 /\ DOMAIN reports = 1..Len(reports)
      BY <1>1, <2>2 DEF DeriverTypeOK
    <3>2. Last(reports).sequence \in Int
      BY <1>1, <3>1, ReportsAreTyped DEF DeriverTypeOK, Last
    <3> QED BY <2>2, <3>2, GridAssumption
  <2> QED BY <2>1, <2>2
<1>4. m.dy \in Int /\ m.buttons \in Held /\ t \in Int
  BY GridAssumption DEF Held
<1>5. [unixNs |-> t, dy |-> m.dy, buttons |-> m.buttons, sequence |-> s] \in Report
  <2> HIDE DEF s
  <2> QED BY <1>3, <1>4 DEF Report
<1>6. reports' \in Seq(Report)
  <2> DEFINE r == [unixNs |-> t, dy |-> m.dy, buttons |-> m.buttons, sequence |-> s]
  <2>1. reports' = Append(reports, r) /\ reports \in Seq(Report) /\ r \in Report
    BY <1>1, <1>2, <1>5 DEF DeriverTypeOK
  <2> HIDE DEF r
  <2> QED BY <2>1
<1>7. DeriverTypeOK'
  BY <1>1, <1>6 DEF DeriverTypeOK
<1> QED BY <1>1, <1>7 DEF DeriverInv

\* The times of the reports have a first one, and their bins form a range.
LEMMA RangeCovers ==
  ASSUME reports \in Seq(Report), reports # <<>>, NEW origin \in Int
  PROVE  /\ Earliest \in Int
         /\ LET R == CoveringBinRange(origin)
            IN /\ Min(R) \in Int /\ Max(R) \in Int /\ R # {} /\ R = Min(R)..Max(R)
               /\ \A k \in DOMAIN reports : IndexOf(origin, reports[k].unixNs) \in R
<1>1. /\ IsFiniteSet(DOMAIN reports) /\ DOMAIN reports # {}
      /\ \A k \in DOMAIN reports : reports[k].unixNs \in Int
  <2>1. Len(reports) \in Nat /\ Len(reports) # 0 /\ DOMAIN reports = 1..Len(reports)
    OBVIOUS
  <2> QED BY <2>1, ReportsAreTyped
<1>2. Earliest \in Int
  <2> DEFINE T == {reports[k].unixNs : k \in DOMAIN reports}
             f == [k \in DOMAIN reports |-> reports[k].unixNs]
  <2>1. f \in Surjection(DOMAIN reports, T)
    BY DEF Surjection
  <2>2. IsFiniteSet(T)
    <3> HIDE DEF f, T
    <3> QED BY <1>1, <2>1, FS_Surjection
  <2>3. T # {} /\ T \subseteq Int
    BY <1>1
  <2>4. Min(T) \in T
    <3> HIDE DEF T
    <3> QED BY <2>2, <2>3, Extremes
  <2> QED BY <2>3, <2>4 DEF Earliest
<1> DEFINE I == {IndexOf(origin, reports[k].unixNs) : k \in DOMAIN reports}
           g == [k \in DOMAIN reports |-> IndexOf(origin, reports[k].unixNs)]
           R == CoveringBinRange(origin)
<1>3. g \in Surjection(DOMAIN reports, I)
  BY DEF Surjection
<1>4. IsFiniteSet(I)
  <2> HIDE DEF g, I
  <2> QED BY <1>1, <1>3, FS_Surjection
<1>5. I # {} /\ I \subseteq Int
  BY <1>1, IndexOfIsTheBin
<1>6. /\ Min(I) \in I /\ \A x \in I : Min(I) <= x
      /\ Max(I) \in I /\ \A x \in I : x <= Max(I)
  <2> HIDE DEF I
  <2> QED BY <1>4, <1>5, Extremes
<1>7. R = Min(I)..Max(I)
  BY DEF CoveringBinRange
<1>8. Min(I) \in Int /\ Max(I) \in Int /\ Min(I) <= Max(I) /\ I \subseteq R
  <2> HIDE DEF I, R
  <2>1. Min(I) \in Int /\ Max(I) \in Int /\ Min(I) <= Max(I)
    BY <1>5, <1>6
  <2>2. ASSUME NEW x \in I PROVE x \in R
    BY <1>5, <1>6, <1>7, <2>1
  <2> QED BY <2>1, <2>2
<1>9. Min(R) = Min(I) /\ Max(R) = Max(I) /\ R # {}
  <2> HIDE DEF I, R
  <2>1. IsFiniteSet(R) /\ R \subseteq Int /\ R # {} /\ Min(I) \in R /\ Max(I) \in R
    <3>1. IsFiniteSet(R)
      BY <1>7, <1>8, FS_Interval
    <3> QED BY <3>1, <1>7, <1>8
  <2>2. /\ Min(R) \in R /\ Min(R) <= Min(I)
        /\ Max(R) \in R /\ Max(I) <= Max(R)
    BY <2>1, Extremes
  <2> QED BY <2>1, <2>2, <1>7, <1>8
<1> QED BY <1>2, <1>7, <1>8, <1>9

LEMMA FloorIsWhole ==
  ASSUME NEW v \in Int
  PROVE  FloorToMillisecond(v) \in Int
<1>1. FloorParts(v).quotient \in Int
  BY FloorPartsAreFloor
<1> QED BY <1>1, OppositeProduct DEF FloorToMillisecond

LEMMA LayOutKeeps == DeriverInv /\ LayOut => DeriverInv'
<1> SUFFICES ASSUME DeriverInv, LayOut PROVE DeriverInv'
  OBVIOUS
<1>1. /\ DeriverTypeOK /\ stage = "reading" /\ at = 1 /\ reports # <<>>
      /\ UNCHANGED reports /\ UNCHANGED at /\ reports \in Seq(Report)
  BY DEF DeriverInv, LayOut, DeriverTypeOK
<1>2. PICK origin \in {FloorToMillisecond(Earliest)} \cup Origins, c \in AxisConventions :
        /\ grid' = [origin |-> origin, range |-> CoveringBinRange(origin), convention |-> c]
        /\ IF Representable(origin)
              /\ \A i \in CoveringBinRange(origin) : IntervalExists(origin, i)
           THEN stage' = "binning"
                /\ bins' = [i \in CoveringBinRange(origin) |-> NewBin(origin, i)]
           ELSE stage' = "failed" /\ UNCHANGED bins
  BY DEF LayOut
<1> DEFINE R == CoveringBinRange(origin)
<1>3. origin \in Int
  <2>1. FloorToMillisecond(Earliest) \in Int
    <3>1. Earliest \in Int
      <4>1. 0 \in Int
        OBVIOUS
      <4> QED BY <1>1, <4>1, RangeCovers
    <3> QED BY <3>1, FloorIsWhole
  <2> QED BY <2>1, GridAssumption
<1>4. /\ Min(R) \in Int /\ Max(R) \in Int /\ R # {} /\ R = Min(R)..Max(R)
      /\ \A k \in DOMAIN reports : IndexOf(origin, reports[k].unixNs) \in R
  BY <1>1, <1>3, RangeCovers
<1> HIDE DEF R
<1>5. R \subseteq Int
  BY <1>4
<1>6. grid' \in Grid /\ grid'.origin = origin /\ grid'.range = R
      /\ grid'.convention \in AxisConventions
  BY <1>2, <1>3, <1>5 DEF Grid, R
<1>7. CASE stage' = "failed"
  <2>1. UNCHANGED bins
    BY <1>2, <1>7
  <2>2. DeriverTypeOK'
    BY <1>1, <1>6, <1>7, <2>1 DEF DeriverTypeOK
  <2> QED BY <1>7, <2>2 DEF DeriverInv
<1>8. CASE stage' # "failed"
  <2>1. stage' = "binning" /\ bins' = [i \in R |-> NewBin(origin, i)]
    BY <1>2, <1>8 DEF R
  <2>2. ASSUME NEW i \in R
        PROVE  /\ bins'[i] \in Bin
               /\ bins'[i].begin = EdgeUnixNs(origin, i)
               /\ bins'[i].end = bins'[i].begin + BinWidth
               /\ bins'[i].count = 0 /\ bins'[i].dy = 0
    <3>1. EdgeUnixNs(origin, i) \in Int /\ EdgeUnixNs(origin, i) + BinWidth \in Int
      <4>1. EdgeUnixNs(origin, i) \in Int
        BY <1>3, <1>5, EdgesFollow
      <4> QED BY <4>1, GridAssumption
    <3>2. bins'[i] = NewBin(origin, i)
      BY <2>1
    <3>3. NewBin(origin, i) \in Bin
      <4>1. {} \in SUBSET MarkNames /\ {} \in Held /\ <<>> \in Seq(Edge) /\ 0 \in Nat /\ 0 \in Int
        BY DEF Held
      <4> HIDE DEF Held
      <4> QED BY <3>1, <4>1 DEF NewBin, Bin
    <3> QED BY <3>2, <3>3 DEF NewBin
  <2>3. DOMAIN bins' = R /\ bins' \in [R -> Bin]
    BY <2>1, <2>2
  <2>4. DeriverTypeOK'
    BY <1>1, <1>5, <1>6, <2>1, <2>3 DEF DeriverTypeOK
  <2>5. LaidOut'
    <3>1. (\A k \in DOMAIN reports : BinOf(k) \in grid.range)'
      BY <1>1, <1>4, <1>6 DEF BinOf
    <3>2. (Min(grid.range) \in Int /\ Max(grid.range) \in Int
           /\ grid.range # {} /\ grid.range = Min(grid.range)..Max(grid.range))'
      BY <1>4, <1>6
    <3>3. (\A i \in grid.range : /\ bins[i].begin = EdgeUnixNs(grid.origin, i)
                                 /\ bins[i].end = bins[i].begin + BinWidth)'
      BY <1>6, <2>2
    <3> QED BY <1>1, <1>6, <2>3, <3>1, <3>2, <3>3 DEF LaidOut
  <2>6. Binned(0)'
    <3>1. \A i : MineAmong(i, 0)' = {}
      <4>1. \A k \in DOMAIN reports : ~(k <= 0)
        BY <1>1, ReportsAreTyped
      <4> QED BY <1>1, <4>1 DEF MineAmong
    <3>2. (\A i \in grid.range : /\ bins[i].count = Cardinality(MineAmong(i, 0))
                                 /\ bins[i].dy = SumFunctionOnSet(Dy, MineAmong(i, 0)))'
      <4>1. Cardinality({}) = 0
        BY FS_EmptySet
      <4>2. SumFunctionOnSet(Dy', {}) = 0
        <5>1. IsFiniteSet(DOMAIN reports) /\ Dy' \in [DOMAIN reports -> Int]
          <6>1. \A k \in DOMAIN reports : reports[k].dy \in Int
            BY <1>1, ReportsAreTyped
          <6> QED BY <1>1, <6>1, ReportsAreTyped DEF Dy
        <5> QED BY <5>1, SumFacts
      <4> QED BY <1>6, <2>2, <3>1, <4>1, <4>2
    <3>3. (SumFunction(Count) = 0)'
      <4>1. Count' = [i \in R |-> 0]
        BY <1>6, <2>2 DEF Count
      <4>2. IsFiniteSet(R) /\ DOMAIN Count' = R
        BY <1>4, <4>1, FS_Interval
      <4>3. SumFunctionOnSet(Count', R) = 0
        BY <4>1, <4>2, SumOfZeros
      <4> QED BY <4>2, <4>3 DEF SumFunction
    <3>4. 1..0 = {}
      OBVIOUS
    <3> QED BY <3>2, <3>3, <3>4 DEF Binned
  <2>7. at' \in 1..(Len(reports') + 1) /\ at' - 1 = 0
    <3>1. Len(reports) \in Nat
      BY <1>1
    <3> QED BY <1>1, <3>1
  <2>8. Binned(at - 1)'
    BY <2>6, <2>7 DEF Binned
  <2> QED BY <2>1, <2>4, <2>5, <2>7, <2>8 DEF DeriverInv
<1> QED BY <1>7, <1>8

(***************************************************************************)
(* The first pass.                                                         *)
(***************************************************************************)
\* One more report is in the bins: it is one of its own bin.
LEMMA OneMoreOfItsBin ==
  ASSUME reports \in Seq(Report), NEW n \in DOMAIN reports, NEW i
  PROVE  /\ MineAmong(i, n - 1) \in SUBSET DOMAIN reports
         /\ n \notin MineAmong(i, n - 1)
         /\ MineAmong(i, n) = IF BinOf(n) = i THEN MineAmong(i, n - 1) \cup {n}
                              ELSE MineAmong(i, n - 1)
<1>1. DOMAIN reports \subseteq Nat
  BY ReportsAreTyped
<1>2. \A k \in DOMAIN reports : (k <= n <=> (k <= n - 1 \/ k = n)) /\ ~(n <= n - 1)
  BY <1>1
<1> QED BY <1>2 DEF MineAmong

LEMMA SumsAreTyped ==
  ASSUME reports \in Seq(Report)
  PROVE  /\ IsFiniteSet(DOMAIN reports) /\ Dy \in [DOMAIN reports -> Int]
         /\ \A k \in DOMAIN reports : Dy[k] = reports[k].dy
<1>1. \A k \in DOMAIN reports : reports[k].dy \in Int
  BY ReportsAreTyped
<1> QED BY <1>1, ReportsAreTyped DEF Dy

LEMMA BinReportKeeps == DeriverInv /\ BinReport => DeriverInv'
<1> SUFFICES ASSUME DeriverInv, BinReport PROVE DeriverInv'
  OBVIOUS
<1>1. /\ DeriverTypeOK /\ stage = "binning" /\ LaidOut /\ Binned(at - 1)
      /\ UNCHANGED reports /\ UNCHANGED grid /\ reports \in Seq(Report)
      /\ Len(reports) \in Nat /\ at \in DOMAIN reports /\ at \in Nat \ {0}
  <2>1. /\ DeriverTypeOK /\ stage = "binning" /\ at <= Len(reports) /\ LaidOut
        /\ at \in 1..(Len(reports) + 1) /\ Binned(at - 1)
        /\ UNCHANGED reports /\ UNCHANGED grid /\ reports \in Seq(Report)
    BY DEF DeriverInv, BinReport, DeriverTypeOK
  <2>2. Len(reports) \in Nat /\ DOMAIN reports = 1..Len(reports)
    BY <2>1, ReportsAreTyped
  <2> QED BY <2>1, <2>2
<1>0. at \in Nat /\ at + 1 \in Int /\ at + 1 - 1 = at /\ at \in 1..at /\ 1 <= at + 1
  <2>1. at \in Nat \ {0}
    BY <1>1
  <2> QED BY <2>1
<1> DEFINE b == BinOf(at)
           R == grid.range
           sum == bins[b].dy + reports[at].dy
<1>2. /\ R # {} /\ Min(R) \in Int /\ Max(R) \in Int /\ R = Min(R)..Max(R) /\ R \subseteq Int
      /\ IsFiniteSet(R) /\ b \in R /\ DOMAIN bins = R
  <2>1. R # {} /\ Min(R) \in Int /\ Max(R) \in Int /\ R = Min(R)..Max(R)
        /\ b \in R /\ DOMAIN bins = R
    BY <1>1 DEF LaidOut
  <2> HIDE DEF R
  <2>2. IsFiniteSet(Min(R)..Max(R)) /\ Min(R)..Max(R) \subseteq Int
    BY <2>1, FS_Interval
  <2> QED BY <2>1, <2>2
<1>3. bins \in [R -> Bin] /\ \A i \in R : bins[i] \in Bin /\ bins[i].dy \in Int
                                           /\ bins[i].count \in Nat
  <2>1. bins \in [R -> Bin]
    BY <1>1, <1>2 DEF DeriverTypeOK
  <2>2. \A i \in R : bins[i] \in Bin
    BY <2>1
  <2> QED BY <2>1, <2>2 DEF Bin
<1>4. reports[at].dy \in Int /\ sum \in Int
  BY <1>1, <1>2, <1>3, ReportsAreTyped
<1>5. CASE ~Representable(sum)
  <2>1. stage' = "failed" /\ UNCHANGED <<bins, at>>
    BY <1>5 DEF BinReport
  <2>2. DeriverTypeOK'
    BY <1>1, <2>1 DEF DeriverTypeOK
  <2> QED BY <2>1, <2>2 DEF DeriverInv
<1>6. CASE Representable(sum)
  <2>1. /\ bins' = [i \in R |->
             [bins[i] EXCEPT
                !.dy = IF i = b THEN sum ELSE @,
                !.count = IF i = b THEN @ + 1 ELSE @,
                !.marks = IF i \in MarkInclusiveBinSpan(at) THEN @ \cup Marks(at) ELSE @]]
        /\ at' = at + 1 /\ stage' = "binning"
    BY <1>1, <1>6 DEF BinReport
  <2>2. ASSUME NEW i \in R
        PROVE  /\ bins'[i] \in Bin
               /\ bins'[i].begin = bins[i].begin /\ bins'[i].end = bins[i].end
               /\ bins'[i].dy = IF i = b THEN sum ELSE bins[i].dy
               /\ bins'[i].count = IF i = b THEN bins[i].count + 1 ELSE bins[i].count
               /\ bins'[i].marks = IF i \in MarkInclusiveBinSpan(at)
                                     THEN bins[i].marks \cup Marks(at) ELSE bins[i].marks
    <3> DEFINE r == bins[i]
               dy == IF i = b THEN sum ELSE r.dy
               count == IF i = b THEN r.count + 1 ELSE r.count
               marks == IF i \in MarkInclusiveBinSpan(at) THEN r.marks \cup Marks(at) ELSE r.marks
    <3>1. r \in Bin
      BY <1>3
    <3>2. dy \in Int /\ count \in Nat /\ marks \in SUBSET MarkNames
      <4>1. r.dy \in Int /\ r.count \in Nat /\ r.marks \in SUBSET MarkNames
        BY <3>1 DEF Bin
      <4>2. Marks(at) \in SUBSET MarkNames
        BY DEF Marks, MarkNames
      <4> HIDE DEF r, sum
      <4> QED BY <4>1, <4>2, <1>4
    <3>3. bins'[i] = [r EXCEPT !.dy = dy, !.count = count, !.marks = marks]
      BY <2>1
    <3> HIDE DEF dy, count, marks, r
    <3> DEFINE q == [r EXCEPT !.dy = dy, !.count = count, !.marks = marks]
    <3>4. q \in Bin /\ q.begin = r.begin /\ q.end = r.end /\ q.dy = dy /\ q.count = count
          /\ q.marks = marks
      BY <3>1, <3>2 DEF Bin
    <3> HIDE DEF q
    <3>5. bins'[i] = q
      BY <3>3 DEF q
    <3> QED BY <3>4, <3>5 DEF dy, count, marks, r
  <2>3. DOMAIN bins' = R /\ bins' \in [R -> Bin]
    BY <2>1, <2>2
  <2>4. DeriverTypeOK'
    <3>1. at' \in Int
      BY <1>0, <2>1
    <3> QED BY <1>1, <1>2, <2>1, <2>3, <3>1 DEF DeriverTypeOK
  <2>5. LaidOut'
    <3>1. (\A k \in DOMAIN reports : BinOf(k) \in grid.range)'
      BY <1>1 DEF LaidOut, BinOf
    <3>2. (\A i \in grid.range : /\ bins[i].begin = EdgeUnixNs(grid.origin, i)
                                 /\ bins[i].end = bins[i].begin + BinWidth)'
      BY <1>1, <2>2 DEF LaidOut
    <3>3. (DOMAIN bins = grid.range)'
      BY <1>1, <2>3
    <3> QED BY <1>1, <3>1, <3>2, <3>3 DEF LaidOut
  <2>6. ASSUME NEW i \in R
        PROVE  /\ bins'[i].count = Cardinality(MineAmong(i, at))
               /\ bins'[i].dy = SumFunctionOnSet(Dy, MineAmong(i, at))
    <3> DEFINE M == MineAmong(i, at - 1)
    <3>1. /\ M \in SUBSET DOMAIN reports /\ at \notin M
          /\ MineAmong(i, at) = IF b = i THEN M \cup {at} ELSE M
      BY <1>1, OneMoreOfItsBin
    <3>2. bins[i].count = Cardinality(M) /\ bins[i].dy = SumFunctionOnSet(Dy, M)
      BY <1>1 DEF Binned
    <3>3. IsFiniteSet(DOMAIN reports) /\ Dy \in [DOMAIN reports -> Int] /\ Dy[at] = reports[at].dy
      BY <1>1, SumsAreTyped
    <3> HIDE DEF M
    <3>4. IsFiniteSet(M)
      BY <3>1, <3>3, FS_Subset
    <3>5. CASE b = i
      <4>1. Cardinality(M \cup {at}) = Cardinality(M) + 1
        BY <3>1, <3>4, FS_AddElement
      <4>2. SumFunctionOnSet(Dy, M \cup {at}) = SumFunctionOnSet(Dy, M) + reports[at].dy
        <5>1. at \in DOMAIN reports \ M
          BY <1>1, <3>1
        <5> QED BY <3>1, <3>3, <5>1, SumOneMore
      <4> QED BY <2>2, <3>1, <3>2, <3>5, <4>1, <4>2
    <3>6. CASE b # i
      BY <2>2, <3>1, <3>2, <3>6
    <3> QED BY <3>5, <3>6
  <2>7. SumFunction(Count') = at
    <3>1. Count \in [R -> Int] /\ Count' \in [R -> Int]
          /\ \A i \in R : Count[i] = bins[i].count /\ Count'[i] = bins'[i].count
      <4>1. \A i \in R : bins[i].count \in Int /\ bins'[i].count \in Int
        <5>1. \A i \in R : bins'[i].count \in Nat
          BY <2>2 DEF Bin
        <5> QED BY <5>1, <1>3
      <4> QED BY <1>1, <4>1 DEF Count
    <3>2. DOMAIN Count = R /\ DOMAIN Count' = R
      BY <3>1
    <3>3. SumFunctionOnSet(Count', R) = SumFunctionOnSet(Count, R) + 1
      <4>1. Count'[b] = Count[b] + 1 /\ \A i \in R \ {b} : Count'[i] = Count[i]
        BY <1>2, <2>2, <3>1
      <4> DEFINE f == Count
                 g == Count'
      <4>2. f \in [R -> Int] /\ g \in [R -> Int] /\ g[b] = f[b] + 1
            /\ \A i \in R \ {b} : g[i] = f[i]
        BY <3>1, <4>1
      <4> HIDE DEF b, R, f, g
      <4>3. SumFunctionOnSet(g, R) = SumFunctionOnSet(f, R) + 1
        <5>1. IsFiniteSet(R) /\ b \in R /\ 1 \in Int
          BY <1>2
        <5> QED BY <4>2, <5>1, SumOfChange
      <4> QED BY <4>3 DEF f, g
    <3>4. SumFunctionOnSet(Count, R) = at - 1
      BY <1>1, <3>2 DEF Binned, SumFunction
    <3>5. SumFunctionOnSet(Count', R) = at
      BY <3>3, <3>4, <1>1
    <3> QED BY <3>2, <3>5 DEF SumFunction
  <2>8. ASSUME NEW k \in 1..at, Regresses(k) \/ Repeats(k),
               NEW i \in MarkInclusiveBinSpan(k), i \in R
        PROVE  "ButtonChronologyUncertain" \in bins'[i].marks
    <3>1. CASE k = at
      <4>1. "ButtonChronologyUncertain" \in Marks(at)
        BY <2>8, <3>1 DEF Marks
      <4> QED BY <2>2, <2>8, <3>1, <4>1
    <3>2. CASE k # at
      <4>1. k \in 1..(at - 1)
        BY <1>1, <3>2
      <4>2. "ButtonChronologyUncertain" \in bins[i].marks
        BY <1>1, <2>8, <4>1 DEF Binned, Uncertain
      <4>3. bins'[i].marks \in {bins[i].marks, bins[i].marks \cup Marks(at)}
        BY <2>2, <2>8
      <4> QED BY <4>2, <4>3
    <3> QED BY <3>1, <3>2
  <2>9. Binned(at - 1)'
    <3>1. at' - 1 = at
      <4>1. at' = at + 1
        BY <2>1
      <4> QED BY <1>0, <4>1
    <3>2. /\ \A k : (Regresses(k)' <=> Regresses(k)) /\ (Repeats(k)' <=> Repeats(k))
          /\ \A k : MarkInclusiveBinSpan(k)' = MarkInclusiveBinSpan(k)
          /\ Dy' = Dy /\ grid'.range = R
      <4> HIDE DEF R
      <4>1. /\ \A k : (Regresses(k)' <=> Regresses(k)) /\ (Repeats(k)' <=> Repeats(k))
            /\ \A k : MarkInclusiveBinSpan(k)' = MarkInclusiveBinSpan(k)
            /\ Dy' = Dy
        BY <1>1, KeptWithReports
      <4>2. grid'.range = R
        BY <1>1 DEF R
      <4> QED BY <4>1, <4>2
    <3>3. (\A i \in grid.range : /\ bins[i].count = Cardinality(MineAmong(i, at - 1))
                                 /\ bins[i].dy = SumFunctionOnSet(Dy, MineAmong(i, at - 1)))'
      <4>1. ASSUME NEW i PROVE MineAmong(i, at - 1)' = MineAmong(i, at)
        BY <1>1, <3>1 DEF MineAmong, BinOf
      <4> QED BY <2>6, <3>2, <4>1
    <3>4. (SumFunction(Count) = at - 1)'
      BY <2>7, <3>1
    <3>5. (\A k \in 1..(at - 1) : Regresses(k) \/ Repeats(k) =>
             \A i \in MarkInclusiveBinSpan(k) : i \in grid.range => Uncertain(i))'
      <4>1. \A i : Uncertain(i)' <=> "ButtonChronologyUncertain" \in bins'[i].marks
        BY DEF Uncertain
      <4> QED BY <2>8, <3>1, <3>2, <4>1
    <3> QED BY <3>3, <3>4, <3>5 DEF Binned
  <2>10. at' \in 1..(Len(reports') + 1)
    <3>1. at <= Len(reports) /\ Len(reports) \in Nat /\ Len(reports') = Len(reports)
      BY <1>1, ReportsAreTyped
    <3>2. at + 1 \in 1..(Len(reports) + 1)
      BY <1>0, <3>1
    <3> QED BY <2>1, <3>1, <3>2
  <2> QED BY <2>1, <2>4, <2>5, <2>9, <2>10 DEF DeriverInv
<1> QED BY <1>5, <1>6

LEMMA AllBinnedKeeps == DeriverInv /\ AllBinned => DeriverInv'
<1> SUFFICES ASSUME DeriverInv, AllBinned PROVE DeriverInv'
  OBVIOUS
<1>1. /\ DeriverTypeOK /\ stage = "binning" /\ LaidOut /\ Binned(at - 1)
      /\ at \in 1..(Len(reports) + 1) /\ at > Len(reports) /\ reports \in Seq(Report)
      /\ stage' = "integrating" /\ at' = Min(grid.range) /\ UNCHANGED <<reports, grid, bins>>
  BY DEF DeriverInv, AllBinned, DeriverTypeOK
<1>2. at - 1 = Len(reports)
  BY <1>1
<1>3. Binned(Len(reports))
  BY <1>1, <1>2
<1>4. /\ grid.range # {} /\ Min(grid.range) \in Int /\ Max(grid.range) \in Int
      /\ grid.range = Min(grid.range)..Max(grid.range)
  BY <1>1 DEF LaidOut
<1>5. Min(grid.range) \in grid.range /\ \A i \in grid.range : ~(i < Min(grid.range))
  BY <1>4
<1>6. DeriverTypeOK'
  BY <1>1, <1>4 DEF DeriverTypeOK
<1>7. LaidOut'
  <2>1. (\A k \in DOMAIN reports : BinOf(k) \in grid.range)'
    BY <1>1 DEF LaidOut, BinOf
  <2> QED BY <1>1, <2>1 DEF LaidOut
<1>8. Binned(Len(reports))'
  <2>1. /\ \A i, n : MineAmong(i, n)' = MineAmong(i, n)
        /\ \A k : (Regresses(k)' <=> Regresses(k)) /\ (Repeats(k)' <=> Repeats(k))
        /\ \A k : MarkInclusiveBinSpan(k)' = MarkInclusiveBinSpan(k)
        /\ Dy' = Dy
    BY <1>1, KeptWithReports
  <2>2. Count' = Count
    BY <1>1 DEF Count
  <2>3. (\A i \in grid.range : /\ bins[i].count = Cardinality(MineAmong(i, Len(reports)))
                               /\ bins[i].dy = SumFunctionOnSet(Dy, MineAmong(i, Len(reports))))'
    <3>1. ASSUME NEW i PROVE MineAmong(i, Len(reports))' = MineAmong(i, Len(reports))
      BY <1>1 DEF MineAmong, BinOf
    <3> QED BY <1>1, <1>3, <2>1, <3>1 DEF Binned
  <2>4. (\A k \in 1..Len(reports) : Regresses(k) \/ Repeats(k) =>
           \A i \in MarkInclusiveBinSpan(k) : i \in grid.range => Uncertain(i))'
    <3>1. \A i : Uncertain(i)' <=> Uncertain(i)
      BY <1>1 DEF Uncertain
    <3> QED BY <1>1, <1>3, <2>1, <3>1 DEF Binned
  <2>5. (SumFunction(Count) = Len(reports))'
    BY <1>1, <1>3, <2>2 DEF Binned
  <2> QED BY <2>3, <2>4, <2>5 DEF Binned
<1> QED BY <1>1, <1>5, <1>6, <1>7, <1>8 DEF DeriverInv

(***************************************************************************)
(* The second pass.                                                        *)
(***************************************************************************)
LEMMA BeforeIsAnOrder ==
  ASSUME reports \in Seq(Report)
  PROVE  \A j, k \in DOMAIN reports :
           /\ ~(Before(j, k) /\ Before(k, j)) /\ ~Before(k, k)
           /\ j # k => Before(j, k) \/ Before(k, j)
<1>1. \A k \in DOMAIN reports : k \in Nat /\ reports[k].sequence \in Int
  BY ReportsAreTyped
<1> QED BY <1>1 DEF Before

\* What a row tells about the buttons, of the replay it is made from.
LEMMA ReplayIsInOrder ==
  ASSUME reports \in Seq(Report), NEW b, NEW buttons \in Held
  PROVE  LET r == Replay(b, buttons)
         IN /\ r.now \in Held /\ r.edges \in Seq(Edge)
            /\ Mine(b) = {} => r.now = buttons
            /\ \A k \in Mine(b) :
                 /\ (\A l \in Mine(b) : l # k => Before(l, k)) => r.now = reports[k].buttons
                 /\ (\A l \in Mine(b) : l # k => Before(k, l)) =>
                      EdgesOf(r.edges, k) = Changes(k, buttons)
                 /\ \A j \in Mine(b) : Follows(j, k, b) =>
                      EdgesOf(r.edges, k) = Changes(k, reports[j].buttons)
<1> DEFINE n == Cardinality(Mine(b))
           G == Group(b)
           M == Mine(b)
           r == Replay(b, buttons)
<1>1. /\ IsFiniteSet(M) /\ n \in Nat /\ M \subseteq DOMAIN reports
      /\ \A i \in 1..n : G[i] \in M
      /\ \A i, j \in 1..n : i < j => Before(G[i], G[j])
      /\ \A i, j \in 1..n : G[i] = G[j] => i = j
      /\ \A k \in M : \E i \in 1..n : G[i] = k
  BY GroupIsSorted DEF Places
<1>2. /\ r \in Replayed
      /\ r.now = IF n = 0 THEN buttons ELSE reports[G[n]].buttons
      /\ \A i \in 1..n : EdgesOf(r.edges, G[i]) = Changes(G[i], Preceding(b, buttons, i))
  BY ReplayTells DEF Places
<1>3. r.now \in Held /\ r.edges \in Seq(Edge)
  BY <1>2 DEF Replayed
<1>4. M = {} => r.now = buttons
  <2>1. M = {} => n = 0
    BY FS_EmptySet
  <2> QED BY <2>1, <1>2
<1>5. \A j, k \in M : ~(Before(j, k) /\ Before(k, j)) /\ ~Before(k, k)
  BY <1>1, BeforeIsAnOrder
<1> HIDE DEF n, G, M, r
<1>6. ASSUME NEW k \in M
      PROVE  /\ (\A l \in M : l # k => Before(l, k)) => r.now = reports[k].buttons
             /\ (\A l \in M : l # k => Before(k, l)) => EdgesOf(r.edges, k) = Changes(k, buttons)
             /\ \A j \in M : Follows(j, k, b) =>
                  EdgesOf(r.edges, k) = Changes(k, reports[j].buttons)
  <2>1. PICK i \in 1..n : G[i] = k
    BY <1>1
  <2>2. i \in Nat /\ n \in Nat /\ 1 <= i /\ i <= n /\ n # 0 /\ 1 \in 1..n /\ n \in 1..n
    BY <1>1, <2>1
  <2>3. ASSUME \A l \in M : l # k => Before(l, k)
        PROVE  r.now = reports[k].buttons
    <3>1. i = n
      <4>1. SUFFICES ASSUME i < n PROVE FALSE
        BY <2>2
      <4>2. G[n] \in M /\ G[n] # k /\ Before(k, G[n])
        BY <1>1, <2>1, <2>2, <4>1
      <4> QED BY <2>3, <4>2, <1>5
    <3> QED BY <3>1, <2>1, <2>2, <1>2
  <2>4. ASSUME \A l \in M : l # k => Before(k, l)
        PROVE  EdgesOf(r.edges, k) = Changes(k, buttons)
    <3>1. i = 1
      <4>1. SUFFICES ASSUME 1 < i PROVE FALSE
        BY <2>2
      <4>2. G[1] \in M /\ G[1] # k /\ Before(G[1], k)
        BY <1>1, <2>1, <2>2, <4>1
      <4> QED BY <2>4, <4>2, <1>5
    <3>2. Preceding(b, buttons, i) = buttons
      BY <3>1 DEF Preceding
    <3> QED BY <3>2, <2>1, <1>2
  <2>5. ASSUME NEW j \in M, Follows(j, k, b)
        PROVE  EdgesOf(r.edges, k) = Changes(k, reports[j].buttons)
    <3>1. Before(j, k) /\ \A l \in M : ~(Before(j, l) /\ Before(l, k))
      BY <2>5 DEF Follows, M
    <3>2. PICK m \in 1..n : G[m] = j
      BY <1>1
    <3>3. m \in Nat /\ m < i
      <4>1. m # i
        BY <1>5, <2>1, <3>1, <3>2
      <4>2. ~(i < m)
        BY <1>1, <1>5, <2>1, <3>1, <3>2
      <4>3. m \in Nat
        BY <3>2
      <4> QED BY <2>2, <4>1, <4>2, <4>3
    <3>4. m = i - 1
      <4>1. SUFFICES ASSUME m < i - 1 PROVE FALSE
        BY <2>2, <3>3
      <4>2. m + 1 \in 1..n /\ m < m + 1 /\ m + 1 < i
        BY <2>2, <3>3, <4>1
      <4>3. G[m + 1] \in M /\ Before(j, G[m + 1]) /\ Before(G[m + 1], k)
        BY <1>1, <2>1, <3>2, <4>2
      <4> QED BY <3>1, <4>3
    <3>5. i # 1
      BY <3>2, <3>4
    <3>6. Preceding(b, buttons, i) = reports[j].buttons
      BY <3>2, <3>4, <3>5 DEF Preceding, G
    <3> QED BY <3>6, <2>1, <1>2
  <2> QED BY <2>3, <2>4, <2>5
<1> QED BY <1>3, <1>4, <1>6 DEF r, M

\* The bins by the times they hold.
LEMMA BinsHoldTimes ==
  ASSUME DeriverTypeOK, LaidOut, NEW i \in grid.range
  PROVE  /\ bins[i].begin \in Int /\ bins[i].end \in Int /\ bins[i].begin <= bins[i].end
         /\ Mine(i) = {k \in DOMAIN reports : bins[i].begin <= reports[k].unixNs
                                              /\ reports[k].unixNs < bins[i].end}
         /\ i + 1 \in grid.range => bins[i].end = bins[i + 1].begin
<1>1. grid.origin \in Int /\ i \in Int /\ reports \in Seq(Report)
  BY DEF DeriverTypeOK, LaidOut, Grid
<1>2. /\ bins[i].begin = EdgeUnixNs(grid.origin, i)
      /\ bins[i].end = EdgeUnixNs(grid.origin, i) + BinWidth
  BY DEF LaidOut
<1>3. EdgeUnixNs(grid.origin, i) \in Int
      /\ EdgeUnixNs(grid.origin, i + 1) = EdgeUnixNs(grid.origin, i) + BinWidth
  BY <1>1, EdgesFollow
<1>4. i + 1 \in grid.range => bins[i].end = bins[i + 1].begin
  <2>1. i + 1 \in grid.range => bins[i + 1].begin = EdgeUnixNs(grid.origin, i + 1)
    BY DEF LaidOut
  <2> QED BY <2>1, <1>2, <1>3
<1>5. ASSUME NEW k \in DOMAIN reports
      PROVE  BinOf(k) = i <=> bins[i].begin <= reports[k].unixNs /\ reports[k].unixNs < bins[i].end
  <2>1. reports[k].unixNs \in Int
    BY <1>1, ReportsAreTyped
  <2>2. ASSUME BinOf(k) = i
        PROVE  bins[i].begin <= reports[k].unixNs /\ reports[k].unixNs < bins[i].end
    BY <2>1, <2>2, <1>1, <1>2, IndexOfIsTheBin DEF BinOf
  <2>3. ASSUME bins[i].begin <= reports[k].unixNs, reports[k].unixNs < bins[i].end
        PROVE  BinOf(k) = i
    BY <2>1, <2>3, <1>1, <1>2, TheBinIsTheIndex DEF BinOf
  <2> QED BY <2>2, <2>3
<1>6. bins[i].begin \in Int /\ bins[i].end \in Int /\ bins[i].begin <= bins[i].end
  <2>1. BinWidth \in Int /\ BinWidth > 0
    BY GridAssumption
  <2> QED BY <1>2, <1>3, <2>1
<1> QED BY <1>4, <1>5, <1>6 DEF Mine

\* No report is older than the first bin.
LEMMA NothingIsBeforeTheGrid ==
  ASSUME DeriverTypeOK, LaidOut
  PROVE  /\ Min(grid.range) \in grid.range /\ Moved(bins[Min(grid.range)].begin) = 0
<1> DEFINE m == Min(grid.range)
           o == grid.origin
<1>1. /\ o \in Int /\ reports \in Seq(Report) /\ m \in Int /\ Max(grid.range) \in Int
      /\ grid.range # {} /\ grid.range = m..Max(grid.range)
  BY DEF DeriverTypeOK, LaidOut, Grid
<1>2. m \in grid.range
  <2> HIDE DEF m
  <2> QED BY <1>1
<1>3. bins[m].begin = EdgeUnixNs(o, m)
  BY <1>2 DEF LaidOut
<1>4. ASSUME NEW k \in DOMAIN reports PROVE ~(reports[k].unixNs < bins[m].begin)
  <2>1. reports[k].unixNs \in Int
    BY <1>1, ReportsAreTyped
  <2>2. BinOf(k) \in grid.range
    BY DEF LaidOut
  <2>3. BinOf(k) \in Int /\ m <= BinOf(k)
    <3> HIDE DEF m
    <3> QED BY <1>1, <2>2
  <2>4. EdgeUnixNs(o, m) <= EdgeUnixNs(o, BinOf(k))
    BY <1>1, <2>3, EdgesGrow
  <2>5. EdgeUnixNs(o, BinOf(k)) <= reports[k].unixNs
    BY <1>1, <2>1, IndexOfIsTheBin DEF BinOf
  <2>6. EdgeUnixNs(o, m) \in Int /\ EdgeUnixNs(o, BinOf(k)) \in Int
    BY <1>1, <2>3, EdgesFollow
  <2> HIDE DEF m, o
  <2> QED BY <2>1, <2>4, <2>5, <2>6, <1>3
<1>5. {k \in DOMAIN reports : reports[k].unixNs < bins[m].begin} = {}
  BY <1>4
<1> DEFINE z == SumFunctionOnSet(Dy, {})
<1>6. z = 0 /\ Moved(bins[m].begin) = DeriveAxes(grid.convention, z)
  <2>1. z = 0
    BY <1>1, SumsAreTyped, SumFacts
  <2> QED BY <1>5, <2>1 DEF Moved
<1> HIDE DEF z, m
<1>7. z \in Int /\ z <= 0 /\ 0 <= z
  BY <1>6
<1>8. DeriveAxes(grid.convention, z) = 0
  BY <1>7 DEF DeriveAxes
<1>9. Moved(bins[m].begin) = 0
  BY <1>6, <1>8
<1> QED BY <1>2, <1>9 DEF m

\* The movement through a bin is that of its reports.
LEMMA MovedThroughTheBin ==
  ASSUME DeriverTypeOK, LaidOut, NEW i \in grid.range
  PROVE  /\ Moved(bins[i].begin) \in Int
         /\ Moved(bins[i].end) =
              Moved(bins[i].begin) + DeriveAxes(grid.convention, SumFunctionOnSet(Dy, Mine(i)))
<1> DEFINE Older == {k \in DOMAIN reports : reports[k].unixNs < bins[i].begin}
           Through == {k \in DOMAIN reports : reports[k].unixNs < bins[i].end}
<1>1. /\ bins[i].begin \in Int /\ bins[i].end \in Int /\ bins[i].begin <= bins[i].end
      /\ Mine(i) = {k \in DOMAIN reports : bins[i].begin <= reports[k].unixNs
                                           /\ reports[k].unixNs < bins[i].end}
  BY BinsHoldTimes
<1>2. reports \in Seq(Report)
  BY DEF DeriverTypeOK
<1>3. \A k \in DOMAIN reports : reports[k].unixNs \in Int
  BY <1>2, ReportsAreTyped
<1>4. /\ Older \in SUBSET DOMAIN reports /\ Mine(i) \in SUBSET DOMAIN reports
      /\ Older \cap Mine(i) = {} /\ Through = Older \cup Mine(i)
  BY <1>1, <1>3
<1>5. IsFiniteSet(DOMAIN reports) /\ Dy \in [DOMAIN reports -> Int]
  BY <1>2, SumsAreTyped
<1> DEFINE Sum(S) == SumFunctionOnSet(Dy, S)
<1>6. Sum(Through) = Sum(Older) + Sum(Mine(i))
  <2> HIDE DEF Older, Through
  <2> QED BY <1>4, <1>5, SumOfUnion
<1>7. Sum(Older) \in Int /\ Sum(Mine(i)) \in Int
  <2> HIDE DEF Older
  <2> QED BY <1>4, <1>5, SumFacts
<1>8. Moved(bins[i].begin) = DeriveAxes(grid.convention, Sum(Older))
      /\ Moved(bins[i].end) = DeriveAxes(grid.convention, Sum(Through))
  BY DEF Moved
<1> HIDE DEF Sum, Older, Through
<1>9. /\ DeriveAxes(grid.convention, Sum(Older)) \in Int
      /\ DeriveAxes(grid.convention, Sum(Through)) =
           DeriveAxes(grid.convention, Sum(Older)) + DeriveAxes(grid.convention, Sum(Mine(i)))
  BY <1>6, <1>7 DEF DeriveAxes
<1> QED BY <1>8, <1>9 DEF Sum

\* A row that is made from its replay and the row before it.
LEMMA RowIsMade ==
  ASSUME UNCHANGED reports, UNCHANGED grid, NEW i, NEW c, NEW now, NEW edges,
         bins'[i].start = c, bins'[i].finish = now, bins'[i].edges = edges,
         bins'[i].pre = Moved(bins'[i].begin), bins'[i].post = Moved(bins'[i].end),
         c = IF i = Min(grid.range) THEN {} ELSE bins'[i - 1].finish,
         Mine(i) = {} => now = c,
         \A k \in Mine(i) :
           /\ (\A l \in Mine(i) : l # k => Before(l, k)) => now = reports[k].buttons
           /\ (\A l \in Mine(i) : l # k => Before(k, l)) => EdgesOf(edges, k) = Changes(k, c)
           /\ \A j \in Mine(i) : Follows(j, k, i) =>
                EdgesOf(edges, k) = Changes(k, reports[j].buttons)
  PROVE  Integrated(i)'
<1>1. /\ \A t : Moved(t)' = Moved(t)
      /\ Mine(i)' = Mine(i) /\ \A j, k : Before(j, k)' <=> Before(j, k)
      /\ \A j, k : Follows(j, k, i)' <=> Follows(j, k, i)
  BY KeptWithReports
<1>2. (bins[i].pre = Moved(bins[i].begin) /\ bins[i].post = Moved(bins[i].end))'
  BY DEF Moved, Dy
<1>3. (bins[i].start = IF i = Min(grid.range) THEN {} ELSE bins[i - 1].finish)'
  OBVIOUS
<1>4. (Mine(i) = {} => bins[i].finish = bins[i].start)'
  BY <1>1
<1>5. ASSUME NEW k \in Mine(i)
      PROVE  /\ ((\A l \in Mine(i) : l # k => Before(l, k))
                  => bins[i].finish = reports[k].buttons)'
             /\ ((\A l \in Mine(i) : l # k => Before(k, l))
                  => EdgesOf(bins[i].edges, k) = Changes(k, bins[i].start))'
             /\ (\A j \in Mine(i) : Follows(j, k, i)
                  => EdgesOf(bins[i].edges, k) = Changes(k, reports[j].buttons))'
  BY <1>1 DEF Changes
<1>6. TellsInOrder(i)'
  BY <1>1, <1>4, <1>5 DEF TellsInOrder
<1> QED BY <1>2, <1>3, <1>6 DEF Integrated

LEMMA IntegrateKeeps == DeriverInv /\ Integrate => DeriverInv'
<1> SUFFICES ASSUME DeriverInv, Integrate PROVE DeriverInv'
  OBVIOUS
<1> DEFINE R == grid.range
           m == Min(grid.range)
           c == Carried.buttons
           x == Carried.crosshair
           r == Replay(at, c)
           post == x + DeriveAxes(grid.convention, bins[at].dy)
<1>1. /\ DeriverTypeOK /\ stage = "integrating" /\ LaidOut /\ Binned(Len(reports))
      /\ at \in R /\ UNCHANGED reports /\ UNCHANGED grid /\ reports \in Seq(Report)
      /\ \A i \in R : i < at => Integrated(i)
  BY DEF DeriverInv, Integrate, DeriverTypeOK
<1>2. /\ m \in Int /\ Max(R) \in Int /\ m \in R /\ R = m..Max(R) /\ at \in Int /\ m <= at
      /\ DOMAIN bins = R /\ bins \in [R -> Bin] /\ R \subseteq Int
  <2>1. m \in Int /\ Max(R) \in Int /\ R = m..Max(R) /\ DOMAIN bins = R
    BY <1>1 DEF LaidOut
  <2>2. m \in R
    BY <1>1, NothingIsBeforeTheGrid
  <2>3. bins \in [R -> Bin]
    BY <1>1, <2>1 DEF DeriverTypeOK
  <2> HIDE DEF R, m
  <2> QED BY <1>1, <2>1, <2>2, <2>3
<1>3. ASSUME NEW i \in R
      PROVE  /\ bins[i] \in Bin /\ bins[i].dy \in Int /\ bins[i].finish \in Held
             /\ bins[i].post \in Int
  BY <1>2 DEF Bin
<1>4. ASSUME at # m
      PROVE  at - 1 \in R /\ at - 1 < at /\ at - 1 + 1 = at
  <2> HIDE DEF R, m
  <2> QED BY <1>2, <1>1, <1>4
<1>5. /\ c = IF at = m THEN {} ELSE bins[at - 1].finish
      /\ x = Moved(bins[at].begin)
      /\ c \in Held /\ x \in Int
  <2>1. CASE at = m
    <3>1. c = {} /\ x = 0
      BY <2>1 DEF Carried
    <3>2. Moved(bins[at].begin) = 0
      BY <1>1, <2>1, NothingIsBeforeTheGrid
    <3> QED BY <2>1, <3>1, <3>2 DEF Held
  <2>2. CASE at # m
    <3>1. c = bins[at - 1].finish /\ x = bins[at - 1].post
      BY <2>2 DEF Carried
    <3>2. bins[at - 1].post = Moved(bins[at - 1].end)
      BY <1>1, <1>4, <2>2 DEF Integrated
    <3>3. bins[at - 1].end = bins[at].begin
      <4>1. at - 1 \in R /\ at - 1 + 1 = at /\ at \in R
        BY <1>1, <1>4, <2>2
      <4>2. \A i \in R : i + 1 \in R => bins[i].end = bins[i + 1].begin
        BY <1>1, BinsHoldTimes
      <4> HIDE DEF R
      <4>3. at - 1 + 1 \in R => bins[at - 1].end = bins[at - 1 + 1].begin
        BY <4>1, <4>2
      <4> QED BY <4>1, <4>3
    <3>4. bins[at - 1].finish \in Held /\ bins[at - 1].post \in Int
      BY <1>3, <1>4, <2>2
    <3> QED BY <2>2, <3>1, <3>2, <3>3, <3>4
  <2> QED BY <2>1, <2>2
<1>6. bins[at].dy = SumFunctionOnSet(Dy, Mine(at))
  <2>1. MineAmong(at, Len(reports)) = Mine(at)
    <3>1. \A k \in DOMAIN reports : k <= Len(reports)
      BY <1>1, ReportsAreTyped
    <3> QED BY <3>1 DEF MineAmong, Mine
  <2>2. bins[at].dy = SumFunctionOnSet(Dy, MineAmong(at, Len(reports)))
    BY <1>1 DEF Binned
  <2> QED BY <2>1, <2>2
<1>7. post = Moved(bins[at].end) /\ post \in Int
  <2>1. Moved(bins[at].end) =
          Moved(bins[at].begin) + DeriveAxes(grid.convention, SumFunctionOnSet(Dy, Mine(at)))
    BY <1>1, MovedThroughTheBin
  <2>2. DeriveAxes(grid.convention, bins[at].dy) \in Int
    BY <1>1, <1>3 DEF DeriveAxes
  <2> HIDE DEF x
  <2> QED BY <2>1, <2>2, <1>5, <1>6
<1>8. /\ r.now \in Held /\ r.edges \in Seq(Edge)
      /\ Mine(at) = {} => r.now = c
      /\ \A k \in Mine(at) :
           /\ (\A l \in Mine(at) : l # k => Before(l, k)) => r.now = reports[k].buttons
           /\ (\A l \in Mine(at) : l # k => Before(k, l)) => EdgesOf(r.edges, k) = Changes(k, c)
           /\ \A j \in Mine(at) : Follows(j, k, at) =>
                EdgesOf(r.edges, k) = Changes(k, reports[j].buttons)
  <2> HIDE DEF c
  <2> QED BY <1>1, <1>5, ReplayIsInOrder
<1>9. CASE ~(Derives(grid.convention, bins[at].dy) /\ Representable(post))
  <2>1. stage' = "failed" /\ UNCHANGED <<bins, at>>
    BY <1>9 DEF Integrate
  <2>2. DeriverTypeOK'
    BY <1>1, <2>1 DEF DeriverTypeOK
  <2> QED BY <2>1, <2>2 DEF DeriverInv
<1>10. CASE Derives(grid.convention, bins[at].dy) /\ Representable(post)
  <2>1. /\ bins' = [bins EXCEPT ![at] =
             [@ EXCEPT !.start = c, !.finish = r.now, !.edges = r.edges, !.pre = x, !.post = post]]
        /\ at' = at + 1
        /\ stage' = IF at + 1 \in R THEN stage ELSE "done"
    BY <1>10 DEF Integrate
  <2> HIDE DEF c, x, r, post, m
  <2>2. /\ bins'[at] \in Bin
        /\ bins'[at].begin = bins[at].begin /\ bins'[at].end = bins[at].end
        /\ bins'[at].dy = bins[at].dy /\ bins'[at].count = bins[at].count
        /\ bins'[at].marks = bins[at].marks
        /\ bins'[at].start = c /\ bins'[at].finish = r.now /\ bins'[at].edges = r.edges
        /\ bins'[at].pre = x /\ bins'[at].post = post
    <3> DEFINE b == bins[at]
               q == [b EXCEPT !.start = c, !.finish = r.now, !.edges = r.edges,
                              !.pre = x, !.post = post]
    <3>1. b \in Bin
      BY <1>1, <1>3
    <3>2. bins'[at] = q
      BY <2>1, <1>1, <1>2
    <3> DEFINE now == r.now
               edges == r.edges
    <3>3. now \in Held /\ edges \in Seq(Edge)
      BY <1>8
    <3>4. q = [b EXCEPT !.start = c, !.finish = now, !.edges = edges, !.pre = x, !.post = post]
      OBVIOUS
    <3> HIDE DEF now, edges, q, b
    <3>5. /\ q \in Bin /\ q.begin = b.begin /\ q.end = b.end /\ q.dy = b.dy
          /\ q.count = b.count /\ q.marks = b.marks /\ q.start = c /\ q.finish = now
          /\ q.edges = edges /\ q.pre = x /\ q.post = post
      BY <3>1, <3>3, <3>4, <1>5, <1>7 DEF Bin
    <3> QED BY <3>2, <3>5 DEF now, edges, b
  <2>3. \A i \in R : i # at => bins'[i] = bins[i]
    BY <2>1, <1>2
  <2>4. DOMAIN bins' = R /\ bins' \in [R -> Bin]
    <3>1. DOMAIN bins' = R
      BY <2>1, <1>2
    <3>2. \A i \in R : bins'[i] \in Bin
      BY <2>2, <2>3, <1>3
    <3>3. bins' = [i \in R |-> bins'[i]]
      BY <2>1, <1>2
    <3> QED BY <3>1, <3>2, <3>3
  <2>5. /\ \A i \in R : /\ bins'[i].begin = bins[i].begin /\ bins'[i].end = bins[i].end
                        /\ bins'[i].dy = bins[i].dy /\ bins'[i].count = bins[i].count
                        /\ bins'[i].marks = bins[i].marks
    BY <2>2, <2>3
  <2>6. DeriverTypeOK'
    <3>1. at' \in Int
      <4>1. at + 1 \in Int
        BY <1>2
      <4> QED BY <4>1, <2>1
    <3>2. stage' \in {"integrating", "done"}
      BY <2>1, <1>1
    <3> QED BY <1>1, <1>2, <2>4, <3>1, <3>2 DEF DeriverTypeOK
  <2>7. LaidOut'
    <3>1. (\A k \in DOMAIN reports : BinOf(k) \in grid.range)'
      BY <1>1 DEF LaidOut, BinOf
    <3>2. (\A i \in grid.range : /\ bins[i].begin = EdgeUnixNs(grid.origin, i)
                                 /\ bins[i].end = bins[i].begin + BinWidth)'
      BY <1>1, <2>5 DEF LaidOut
    <3>3. (DOMAIN bins = grid.range)'
      BY <1>1, <2>4
    <3> QED BY <1>1, <3>1, <3>2, <3>3 DEF LaidOut
  <2>8. Binned(Len(reports))'
    <3>1. /\ \A k : (Regresses(k)' <=> Regresses(k)) /\ (Repeats(k)' <=> Repeats(k))
          /\ \A k : MarkInclusiveBinSpan(k)' = MarkInclusiveBinSpan(k)
          /\ Dy' = Dy
      BY <1>1, KeptWithReports
    <3>2. Count' = Count
      BY <1>1, <2>5 DEF Count
    <3>3. (\A i \in grid.range : /\ bins[i].count = Cardinality(MineAmong(i, Len(reports)))
                                 /\ bins[i].dy = SumFunctionOnSet(Dy, MineAmong(i, Len(reports))))'
      <4>1. ASSUME NEW i PROVE MineAmong(i, Len(reports))' = MineAmong(i, Len(reports))
        BY <1>1 DEF MineAmong, BinOf
      <4> QED BY <1>1, <2>5, <3>1, <4>1 DEF Binned
    <3>4. (\A k \in 1..Len(reports) : Regresses(k) \/ Repeats(k) =>
             \A i \in MarkInclusiveBinSpan(k) : i \in grid.range => Uncertain(i))'
      <4>1. \A i \in R : Uncertain(i)' <=> Uncertain(i)
        BY <2>5 DEF Uncertain
      <4> QED BY <1>1, <3>1, <4>1 DEF Binned
    <3>5. (SumFunction(Count) = Len(reports))'
      BY <1>1, <3>2 DEF Binned
    <3> QED BY <3>3, <3>4, <3>5 DEF Binned
  <2>9. ASSUME NEW i \in R, i < at PROVE Integrated(i)'
    <3>1. Integrated(i) /\ i # at
      BY <1>1, <1>2, <2>9
    <3>2. bins'[i] = bins[i]
      BY <2>3, <3>1
    <3>3. i # m => bins'[i - 1] = bins[i - 1]
      <4>1. ASSUME i # m PROVE i - 1 \in R /\ i - 1 # at
        <5> HIDE DEF R
        <5> QED BY <1>2, <2>9, <4>1
      <4> QED BY <4>1, <2>3
    <3> QED BY <1>1, <3>1, <3>2, <3>3, RowIsKept DEF m
  <2>10. ASSUME NEW i \in R, i = at PROVE Integrated(i)'
    <3>1. /\ bins'[i].start = c /\ bins'[i].finish = r.now /\ bins'[i].edges = r.edges
          /\ bins'[i].pre = Moved(bins'[i].begin) /\ bins'[i].post = Moved(bins'[i].end)
      BY <1>5, <1>7, <2>2, <2>10
    <3>2. c = IF i = m THEN {} ELSE bins'[i - 1].finish
      <4>1. CASE at = m
        BY <4>1, <1>5, <2>10
      <4>2. CASE at # m
        <5>1. bins'[at - 1] = bins[at - 1]
          <6>1. at - 1 \in R /\ at - 1 # at
            BY <1>2, <1>4, <4>2
          <6> QED BY <6>1, <2>3
        <5> QED BY <4>2, <5>1, <1>5, <2>10
      <4> QED BY <4>1, <4>2
    <3> DEFINE now == r.now
               edges == r.edges
    <3>3. /\ Mine(i) = {} => now = c
          /\ \A k \in Mine(i) :
               /\ (\A l \in Mine(i) : l # k => Before(l, k)) => now = reports[k].buttons
               /\ (\A l \in Mine(i) : l # k => Before(k, l)) => EdgesOf(edges, k) = Changes(k, c)
               /\ \A j \in Mine(i) : Follows(j, k, i) =>
                    EdgesOf(edges, k) = Changes(k, reports[j].buttons)
      BY <1>8, <2>10
    <3>4. bins'[i].finish = now /\ bins'[i].edges = edges
      BY <3>1
    <3>5. c = IF i = Min(grid.range) THEN {} ELSE bins'[i - 1].finish
      BY <3>2 DEF m
    <3>6. bins'[i].start = c
          /\ bins'[i].pre = Moved(bins'[i].begin) /\ bins'[i].post = Moved(bins'[i].end)
      BY <3>1
    <3>7. UNCHANGED reports /\ UNCHANGED grid
      BY <1>1
    <3> HIDE DEF now, edges
    <3> QED BY <3>3, <3>4, <3>5, <3>6, <3>7, RowIsMade
  <2>11. \A i \in R : i < at + 1 => Integrated(i)'
    <3>1. \A i \in R : i < at + 1 => i < at \/ i = at
      BY <1>2
    <3> QED BY <2>9, <2>10, <3>1
  <2>12. CASE at + 1 \in R
    <3>1. stage' = "integrating" /\ at' = at + 1
      BY <1>1, <2>1, <2>12
    <3>2. (at \in grid.range)' /\ (\A i \in grid.range : i < at => Integrated(i))'
      BY <1>1, <2>11, <2>12, <3>1
    <3> QED BY <2>6, <2>7, <2>8, <3>1, <3>2 DEF DeriverInv
  <2>13. CASE at + 1 \notin R
    <3>1. stage' = "done"
      BY <2>1, <2>13
    <3>2. \A i \in R : i < at + 1
      <4> HIDE DEF R
      <4> QED BY <1>1, <1>2, <2>13
    <3>3. (\A i \in grid.range : Integrated(i))'
      BY <1>1, <2>11, <3>2
    <3> QED BY <2>6, <2>7, <2>8, <3>1, <3>3 DEF DeriverInv
  <2> QED BY <2>12, <2>13
<1> QED BY <1>9, <1>10

(***************************************************************************)
(* The theorems.                                                           *)
(***************************************************************************)
LEMMA StutterKeeps == DeriverInv /\ UNCHANGED deriverVars => DeriverInv'
<1> SUFFICES ASSUME DeriverInv, UNCHANGED deriverVars PROVE DeriverInv'
  OBVIOUS
<1>1. UNCHANGED stage /\ UNCHANGED reports /\ UNCHANGED grid /\ UNCHANGED bins /\ UNCHANGED at
  BY DEF deriverVars
<1>2. DeriverTypeOK'
  BY <1>1 DEF DeriverInv, DeriverTypeOK
<1>3. LaidOut => LaidOut'
  <2>1. \A k : BinOf(k)' = BinOf(k)
    BY <1>1, KeptWithReports
  <2> QED BY <1>1, <2>1 DEF LaidOut
<1>4. ASSUME NEW n, Binned(n) PROVE Binned(n)'
  <2>1. /\ \A i : MineAmong(i, n)' = MineAmong(i, n)
        /\ \A k : (Regresses(k)' <=> Regresses(k)) /\ (Repeats(k)' <=> Repeats(k))
        /\ \A k : MarkInclusiveBinSpan(k)' = MarkInclusiveBinSpan(k)
        /\ Dy' = Dy /\ Count' = Count
    <3>1. ASSUME NEW i PROVE MineAmong(i, n)' = MineAmong(i, n)
      BY <1>1 DEF MineAmong, BinOf
    <3>2. Count' = Count
      BY <1>1 DEF Count
    <3> QED BY <1>1, <3>1, <3>2, KeptWithReports
  <2>2. \A i : Uncertain(i)' <=> Uncertain(i)
    BY <1>1 DEF Uncertain
  <2>3. (\A i \in grid.range : /\ bins[i].count = Cardinality(MineAmong(i, n))
                               /\ bins[i].dy = SumFunctionOnSet(Dy, MineAmong(i, n)))'
    BY <1>1, <1>4, <2>1 DEF Binned
  <2>4. (SumFunction(Count) = n)'
    BY <1>4, <2>1 DEF Binned
  <2>5. (\A k \in 1..n : Regresses(k) \/ Repeats(k) =>
           \A i \in MarkInclusiveBinSpan(k) : i \in grid.range => Uncertain(i))'
    BY <1>1, <1>4, <2>1, <2>2 DEF Binned
  <2> QED BY <2>3, <2>4, <2>5 DEF Binned
<1>5. ASSUME NEW i, Integrated(i) PROVE Integrated(i)'
  BY <1>1, <1>5, RowIsKept
<1>6. CASE stage = "binning"
  <2>1. at \in 1..(Len(reports) + 1) /\ Binned(at - 1) /\ LaidOut
    BY <1>6 DEF DeriverInv
  <2>2. \A n : Binned(n) => Binned(n)'
    BY <1>4
  <2>3. Binned(at - 1)'
    <3>1. PICK n : n = at - 1
      OBVIOUS
    <3>2. Binned(n)' /\ at' - 1 = n
      BY <1>1, <2>1, <2>2, <3>1
    <3> QED BY <3>2 DEF Binned
  <2> QED BY <1>1, <1>2, <1>3, <1>6, <2>1, <2>3 DEF DeriverInv
<1>7. CASE stage \in {"integrating", "done"}
  <2>1. Binned(Len(reports)) /\ LaidOut
    BY <1>7 DEF DeriverInv
  <2>2. Binned(Len(reports))'
    <3>1. PICK n : n = Len(reports)
      OBVIOUS
    <3>2. Binned(n)' /\ Len(reports') = n
      BY <1>1, <1>4, <2>1, <3>1
    <3> QED BY <3>2 DEF Binned
  <2>3. (stage = "integrating" =>
           at \in grid.range /\ \A i \in grid.range : i < at => Integrated(i))'
    BY <1>1, <1>5 DEF DeriverInv
  <2>4. (stage = "done" => \A i \in grid.range : Integrated(i))'
    BY <1>1, <1>5 DEF DeriverInv
  <2> QED BY <1>1, <1>2, <1>3, <1>7, <2>1, <2>2, <2>3, <2>4 DEF DeriverInv
<1>8. CASE stage \in {"reading", "failed"}
  BY <1>1, <1>2, <1>8 DEF DeriverInv
<1> QED BY <1>6, <1>7, <1>8 DEF DeriverInv, DeriverTypeOK

\* The invariant of the derivation holds whatever the stream is.
THEOREM DeriverIsInvariant == DeriverSpec => []DeriverInv
<1>1. DeriverInv /\ [DeriverNext]_deriverVars => DeriverInv'
  BY ReadKeeps, LayOutKeeps, BinReportKeeps, AllBinnedKeeps, IntegrateKeeps, StutterKeeps
     DEF DeriverNext
<1> QED BY InitEstablishes, <1>1, PTL DEF DeriverSpec

LEMMA AllOfABin ==
  ASSUME DeriverTypeOK, NEW i
  PROVE  /\ MineAmong(i, Len(reports)) = Mine(i)
         /\ Mine(i) \in SUBSET DOMAIN reports /\ IsFiniteSet(Mine(i))
         /\ Cardinality(Mine(i)) \in Nat
         /\ Cardinality(Mine(i)) > 0 <=> Mine(i) # {}
<1>1. reports \in Seq(Report)
  BY DEF DeriverTypeOK
<1>2. \A k \in DOMAIN reports : k <= Len(reports)
  BY <1>1, ReportsAreTyped
<1>3. MineAmong(i, Len(reports)) = Mine(i)
  BY <1>2 DEF MineAmong, Mine
<1>4. Mine(i) \in SUBSET DOMAIN reports /\ IsFiniteSet(DOMAIN reports)
  BY <1>1, ReportsAreTyped DEF Mine
<1>5. IsFiniteSet(Mine(i)) /\ Cardinality(Mine(i)) \in Nat /\ (Cardinality(Mine(i)) = 0 <=> Mine(i) = {})
  BY <1>4, Subsets
<1> QED BY <1>3, <1>4, <1>5

\* The rows of a finished derivation have the numbers of the time they name:
\* count and movement of the reports in their interval, and the crosshair as
\* the integral of the movement before it.
THEOREM RowsHaveTheirNumbers == DeriverSpec => []RowsAreExact
<1>1. DeriverInv => RowsAreExact
  <2> SUFFICES ASSUME DeriverInv, stage = "done"
               PROVE  ReportsAreBinnedOnce /\ CrosshairIntegratesTime
    BY DEF RowsAreExact, ReportsAreBinnedOnce, CrosshairIntegratesTime
  <2>1. /\ DeriverTypeOK /\ LaidOut /\ Binned(Len(reports))
        /\ \A i \in grid.range : Integrated(i)
    BY DEF DeriverInv
  <2>2. ASSUME NEW i \in grid.range
        PROVE  LET mine == {k \in DOMAIN reports : bins[i].begin <= reports[k].unixNs
                                                   /\ reports[k].unixNs < bins[i].end}
               IN /\ bins[i].count = Cardinality(mine)
                  /\ bins[i].dy = SumFunctionOnSet(Dy, mine)
                  /\ i + 1 \in grid.range => bins[i].end = bins[i + 1].begin
    <3>1. MineAmong(i, Len(reports)) = Mine(i)
      BY <2>1, AllOfABin
    <3>2. bins[i].count = Cardinality(Mine(i)) /\ bins[i].dy = SumFunctionOnSet(Dy, Mine(i))
      BY <2>1, <3>1 DEF Binned
    <3> QED BY <2>1, <3>2, BinsHoldTimes
  <2>3. SumFunction(Count) = Len(reports)
    BY <2>1 DEF Binned
  <2>4. ReportsAreBinnedOnce
    BY <2>2, <2>3 DEF ReportsAreBinnedOnce
  <2>5. CrosshairIntegratesTime
    BY <2>1 DEF CrosshairIntegratesTime, Integrated
  <2> QED BY <2>4, <2>5
<1> QED BY <1>1, DeriverIsInvariant, PTL

(***************************************************************************)
(* The buttons of bins that are not marked uncertain.                      *)
(***************************************************************************)
\* Nothing that touches the bin goes back in time or repeats a sequence number.
Clean(i) ==
  \A j \in DOMAIN reports :
    j > 1 /\ i \in MarkInclusiveBinSpan(j) => ~Regresses(j) /\ ~Repeats(j)

LEMMA NotUncertainIsClean ==
  ASSUME DeriverTypeOK, LaidOut, Binned(Len(reports)), NEW i \in grid.range, ~Uncertain(i)
  PROVE  Clean(i)
<1>1. DOMAIN reports = 1..Len(reports)
  BY ReportsAreTyped DEF DeriverTypeOK
<1> QED BY <1>1 DEF Clean, Binned

\* What the span of a report is: the bins between its own and that before it.
LEMMA SpanIsBetween ==
  ASSUME DeriverTypeOK, LaidOut, NEW j \in DOMAIN reports, j > 1
  PROVE  /\ j - 1 \in DOMAIN reports
         /\ BinOf(j) \in Int /\ BinOf(j - 1) \in Int
         /\ \A i \in Int : BinOf(j - 1) <= i /\ i <= BinOf(j) => i \in MarkInclusiveBinSpan(j)
         /\ \A i \in Int : BinOf(j) <= i /\ i <= BinOf(j - 1) => i \in MarkInclusiveBinSpan(j)
<1> DEFINE x == BinOf(j - 1)
           y == BinOf(j)
           ends == {x, y}
<1>1. j - 1 \in DOMAIN reports /\ j # 1
  <2>1. Len(reports) \in Nat /\ DOMAIN reports = 1..Len(reports)
    BY ReportsAreTyped DEF DeriverTypeOK
  <2>2. j \in 1..Len(reports)
    BY <2>1
  <2>3. j - 1 \in 1..Len(reports) /\ j # 1
    BY <2>1, <2>2
  <2> QED BY <2>1, <2>3
<1>2. x \in Int /\ y \in Int
  BY <1>1 DEF LaidOut, DeriverTypeOK, Grid
<1>3. MarkInclusiveBinSpan(j) = Min(ends)..Max(ends)
  BY <1>1 DEF MarkInclusiveBinSpan
<1> HIDE DEF x, y
<1>4. IsFiniteSet(ends)
  <2>1. IsFiniteSet({x}) /\ ends = {x} \cup {y}
    BY FS_Singleton
  <2> HIDE DEF ends
  <2> QED BY <2>1, FS_AddElement
<1>5. ends \subseteq Int /\ ends # {} /\ x \in ends /\ y \in ends
  BY <1>2
<1> HIDE DEF ends
<1>6. /\ Min(ends) \in Int /\ Max(ends) \in Int
      /\ Min(ends) <= x /\ Min(ends) <= y /\ x <= Max(ends) /\ y <= Max(ends)
  BY <1>4, <1>5, Extremes
<1>7. \A i \in Int : (x <= i /\ i <= y) \/ (y <= i /\ i <= x) => i \in Min(ends)..Max(ends)
  BY <1>2, <1>6
<1> QED BY <1>1, <1>2, <1>3, <1>7 DEF x, y

\* A later time is in no earlier bin.
LEMMA LaterIsNoEarlier ==
  ASSUME NEW origin \in Int, NEW v \in Int, NEW w \in Int, v <= w
  PROVE  IndexOf(origin, v) <= IndexOf(origin, w)
<1> DEFINE x == IndexOf(origin, v)
           y == IndexOf(origin, w)
<1>1. /\ x \in Int /\ y \in Int
      /\ EdgeUnixNs(origin, x) <= v /\ w < EdgeUnixNs(origin, y) + BinWidth
  BY IndexOfIsTheBin
<1> HIDE DEF x, y
<1>2. SUFFICES ASSUME y + 1 <= x PROVE FALSE
  BY <1>1 DEF x, y
<1>3. EdgeUnixNs(origin, y + 1) <= EdgeUnixNs(origin, x)
  BY <1>1, <1>2, EdgesGrow
<1>4. EdgeUnixNs(origin, y + 1) = EdgeUnixNs(origin, y) + BinWidth
      /\ EdgeUnixNs(origin, x) \in Int /\ EdgeUnixNs(origin, y) \in Int /\ BinWidth \in Int
  BY <1>1, EdgesFollow, GridAssumption
<1> QED BY <1>1, <1>3, <1>4

\* The stream passes a clean bin only upward, and with growing numbers.
LEMMA CleanIsPassedUpward ==
  ASSUME DeriverTypeOK, LaidOut, NEW i \in grid.range, Clean(i),
         NEW j \in DOMAIN reports, j > 1,
         (BinOf(j - 1) <= i /\ i <= BinOf(j)) \/ (BinOf(j) <= i /\ i <= BinOf(j - 1))
  PROVE  /\ BinOf(j - 1) <= i /\ i <= BinOf(j)
         /\ reports[j - 1].sequence < reports[j].sequence
<1>1. i \in Int /\ grid.origin \in Int /\ reports \in Seq(Report)
  BY DEF DeriverTypeOK, Grid
<1>2. j - 1 \in DOMAIN reports /\ BinOf(j) \in Int /\ BinOf(j - 1) \in Int
      /\ i \in MarkInclusiveBinSpan(j)
  BY <1>1, SpanIsBetween
<1>3. ~Regresses(j) /\ ~Repeats(j)
  BY <1>2 DEF Clean
<1>4. /\ reports[j].unixNs \in Int /\ reports[j - 1].unixNs \in Int
      /\ reports[j].sequence \in Int /\ reports[j - 1].sequence \in Int
  BY <1>1, <1>2, ReportsAreTyped
<1>5. reports[j - 1].unixNs <= reports[j].unixNs
      /\ reports[j - 1].sequence < reports[j].sequence
  BY <1>3, <1>4 DEF Regresses, Repeats
<1>6. BinOf(j - 1) <= BinOf(j)
  BY <1>1, <1>4, <1>5, LaterIsNoEarlier DEF BinOf
<1> QED BY <1>1, <1>2, <1>5, <1>6

\* Once the stream has reached or passed a clean bin it stays there or beyond.
LEMMA CleanIsNotRevisited ==
  ASSUME DeriverTypeOK, LaidOut, NEW i \in grid.range, Clean(i),
         NEW j \in DOMAIN reports, NEW l \in DOMAIN reports, j < l
  PROVE  /\ i <= BinOf(j) => i <= BinOf(l)
         /\ i < BinOf(j) => i < BinOf(l)
<1> DEFINE D == DOMAIN reports
           Good(n) == (i <= BinOf(j) => i <= BinOf(n)) /\ (i < BinOf(j) => i < BinOf(n))
           Wrong == {n \in D : j < n /\ ~Good(n)}
<1>1. D \subseteq Nat \ {0} /\ i \in Int /\ \A n \in D : BinOf(n) \in Int
  BY ReportsAreTyped DEF DeriverTypeOK, LaidOut, Grid
<1>2. Wrong = {}
  <2>1. SUFFICES ASSUME Wrong # {} PROVE FALSE
    OBVIOUS
  <2>2. PICK n \in Wrong : \A o \in Wrong : n <= o
    <3>1. Wrong \subseteq Nat
      BY <1>1
    <3> HIDE DEF Wrong
    <3> QED BY <2>1, <3>1, HasLeast
  <2>3. n \in D /\ j < n /\ ~Good(n) /\ n \in Nat /\ j \in Nat /\ j \in D /\ n > 1
    BY <1>1, <2>2
  <2>4. n - 1 \in D
    <3> HIDE DEF Good
    <3> QED BY <2>3, SpanIsBetween
  <2>5. Good(n - 1)
    <3>1. CASE j = n - 1
      BY <3>1
    <3>2. CASE j # n - 1
      <4>1. j < n - 1 /\ ~(n <= n - 1)
        BY <2>3, <3>2
      <4>2. n - 1 \notin Wrong
        <5> HIDE DEF Wrong
        <5> QED BY <2>2, <4>1
      <4> HIDE DEF Good
      <4> QED BY <2>4, <4>1, <4>2
    <3> QED BY <3>1, <3>2
  <2>6. (BinOf(n - 1) <= i /\ i <= BinOf(n)) \/ (BinOf(n) <= i /\ i <= BinOf(n - 1)) =>
          BinOf(n - 1) <= i /\ i <= BinOf(n)
    <3> HIDE DEF Good
    <3> QED BY <2>3, CleanIsPassedUpward
  <2>7. BinOf(n) \in Int /\ BinOf(n - 1) \in Int /\ BinOf(j) \in Int
    BY <1>1, <2>3, <2>4
  <2> HIDE DEF Wrong, D
  <2> QED BY <1>1, <2>3, <2>5, <2>6, <2>7
<1>3. l \notin Wrong
  BY <1>2
<1> QED BY <1>3

\* The reports of a clean bin have the order of the stream.
LEMMA CleanIsInOrder ==
  ASSUME DeriverTypeOK, LaidOut, NEW i \in grid.range, Clean(i),
         NEW j \in Mine(i), NEW l \in Mine(i), j < l
  PROVE  Before(j, l)
<1> DEFINE D == DOMAIN reports
           Wrong == {n \in D : j < n /\ n \in Mine(i) /\ ~(reports[j].sequence < reports[n].sequence)}
<1>1. D \subseteq Nat \ {0} /\ i \in Int /\ \A n \in D : BinOf(n) \in Int /\ reports[n].sequence \in Int
  BY ReportsAreTyped DEF DeriverTypeOK, LaidOut, Grid
<1>2. j \in D /\ l \in D /\ BinOf(j) = i /\ BinOf(l) = i
  BY DEF Mine
<1>3. Wrong = {}
  <2>1. SUFFICES ASSUME Wrong # {} PROVE FALSE
    OBVIOUS
  <2>2. PICK n \in Wrong : \A o \in Wrong : n <= o
    <3>1. Wrong \subseteq Nat
      BY <1>1
    <3> HIDE DEF Wrong
    <3> QED BY <2>1, <3>1, HasLeast
  <2>3. n \in D /\ j < n /\ ~(reports[j].sequence < reports[n].sequence)
        /\ n \in Nat /\ j \in Nat /\ n > 1 /\ BinOf(n) = i
    BY <1>1, <1>2, <2>2 DEF Mine
  <2>4. n - 1 \in D
    BY <2>3, SpanIsBetween
  <2>5. BinOf(n - 1) \in Int /\ reports[n - 1].sequence \in Int
        /\ reports[n].sequence \in Int /\ reports[j].sequence \in Int
    BY <1>1, <1>2, <2>3, <2>4
  <2>6. reports[n - 1].sequence < reports[n].sequence /\ BinOf(n - 1) <= i
    <3>1. (BinOf(n - 1) <= i /\ i <= BinOf(n)) \/ (BinOf(n) <= i /\ i <= BinOf(n - 1))
      BY <1>1, <2>3, <2>5
    <3> QED BY <2>3, <3>1, CleanIsPassedUpward
  <2>7. CASE j = n - 1
    BY <2>3, <2>6, <2>7
  <2>8. CASE j # n - 1
    <3>1. j < n - 1 /\ ~(n <= n - 1)
      BY <2>3, <2>8
    <3>2. i <= BinOf(n - 1)
      <4>1. i <= BinOf(j)
        BY <1>1, <1>2
      <4> QED BY <1>2, <2>4, <3>1, <4>1, CleanIsNotRevisited
    <3>3. n - 1 \in Mine(i)
      <4>1. BinOf(n - 1) = i
        BY <1>1, <2>5, <2>6, <3>2
      <4> QED BY <2>4, <4>1 DEF Mine
    <3>4. reports[j].sequence < reports[n - 1].sequence
      <4>1. n - 1 \notin Wrong
        <5> HIDE DEF Wrong
        <5> QED BY <2>2, <3>1
      <4> QED BY <2>4, <3>1, <3>3, <4>1
    <3> QED BY <2>3, <2>5, <2>6, <3>4
  <2> QED BY <2>7, <2>8
<1>4. reports[j].sequence < reports[l].sequence
  BY <1>2, <1>3
<1> QED BY <1>4 DEF Before

\* Rows without reports hand the buttons on.
LEMMA EmptyRowsHandOn ==
  ASSUME DeriverTypeOK, LaidOut, \A i \in grid.range : Integrated(i),
         NEW lo \in grid.range, NEW hi \in grid.range, lo <= hi,
         \A i \in grid.range : lo <= i /\ i < hi => Mine(i) = {}
  PROVE  bins[hi].start = bins[lo].start
<1> DEFINE R == grid.range
           m == Min(R)
           Wrong == {d \in Nat : lo + d <= hi /\ bins[lo + d].start # bins[lo].start}
<1>1. /\ m \in Int /\ Max(R) \in Int /\ R = m..Max(R) /\ lo \in Int /\ hi \in Int
      /\ m <= lo /\ hi <= Max(R)
  <2>1. m \in Int /\ Max(R) \in Int /\ R = m..Max(R) /\ lo \in R /\ hi \in R
    BY DEF LaidOut
  <2> HIDE DEF R, m
  <2> QED BY <2>1
<1>2. Wrong = {}
  <2>1. SUFFICES ASSUME Wrong # {} PROVE FALSE
    OBVIOUS
  <2>2. PICK d \in Wrong : \A e \in Wrong : d <= e
    <3>1. Wrong \subseteq Nat
      OBVIOUS
    <3> HIDE DEF Wrong
    <3> QED BY <2>1, <3>1, HasLeast
  <2>3. d \in Nat /\ lo + d <= hi /\ bins[lo + d].start # bins[lo].start
    BY <2>2
  <2>4. d # 0
    <3>1. lo + 0 = lo
      BY <1>1
    <3> QED BY <2>3, <3>1
  <2> DEFINE i == lo + d
             p == lo + (d - 1)
  <2>5. d - 1 \in Nat /\ ~(d <= d - 1) /\ i - 1 = p /\ p <= hi /\ p < hi /\ lo <= p
        /\ i # m /\ p \in R /\ i \in R
    <3>1. i \in Int /\ m <= i /\ i <= Max(R) /\ p \in Int /\ m <= p /\ p <= Max(R)
          /\ d - 1 \in Nat /\ ~(d <= d - 1) /\ i - 1 = p /\ p <= hi /\ p < hi /\ lo <= p
          /\ i # m
      <4> HIDE DEF R, m
      <4> QED BY <1>1, <2>3, <2>4
    <3>2. p \in R /\ i \in R
      <4> HIDE DEF R, m, i, p
      <4> QED BY <1>1, <3>1
    <3> QED BY <3>1, <3>2
  <2>6. bins[p].start = bins[lo].start
    <3>1. d - 1 \notin Wrong
      <4> HIDE DEF Wrong
      <4> QED BY <2>2, <2>5
    <3> QED BY <2>5, <3>1
  <2>7. bins[i].start = bins[i - 1].finish
    <3> HIDE DEF i
    <3> QED BY <2>5 DEF Integrated
  <2>8. bins[p].finish = bins[p].start
    <3>1. Mine(p) = {}
      <4> HIDE DEF p
      <4> QED BY <2>5
    <3> HIDE DEF p
    <3> QED BY <2>5, <3>1 DEF Integrated, TellsInOrder
  <2> HIDE DEF p
  <2> QED BY <2>3, <2>5, <2>6, <2>7, <2>8
<1>3. hi - lo \in Nat /\ lo + (hi - lo) = hi /\ lo + (hi - lo) <= hi
  <2> HIDE DEF R, m
  <2> QED BY <1>1
<1>4. hi - lo \notin Wrong
  BY <1>2
<1> QED BY <1>3, <1>4

\* What a finished derivation tells of a report, if neither its bin nor the
\* last earlier one with reports is marked: the change from the report before.
LEMMA UnmarkedTells ==
  ASSUME DeriverTypeOK, LaidOut, Binned(Len(reports)), \A i \in grid.range : Integrated(i),
         NEW k \in DOMAIN reports, ~Uncertain(BinOf(k)),
         LET earlier == {i \in grid.range : i < BinOf(k) /\ bins[i].count > 0}
         IN earlier = {} \/ ~Uncertain(Max(earlier))
  PROVE  Tells(BinOf(k), k)
<1> DEFINE b == BinOf(k)
           R == grid.range
           m == Min(R)
           before == IF k = 1 THEN {} ELSE reports[k - 1].buttons
           earlier == {i \in R : i < b /\ bins[i].count > 0}
<1>1. SUFFICES EdgesOf(bins[b].edges, k) = Changes(k, before)
  BY DEF Tells, EdgesOf, Changes
<1>2. /\ reports \in Seq(Report) /\ k \in Nat /\ k >= 1 /\ DOMAIN reports \subseteq Nat \ {0}
      /\ b \in R /\ m \in R /\ m \in Int /\ Max(R) \in Int /\ R = m..Max(R) /\ R \subseteq Int
      /\ IsFiniteSet(R)
  <2>1. reports \in Seq(Report) /\ b \in R /\ m \in Int /\ Max(R) \in Int /\ R = m..Max(R)
    BY DEF DeriverTypeOK, LaidOut
  <2>2. DOMAIN reports \subseteq Nat \ {0} /\ m \in R
    BY <2>1, ReportsAreTyped, NothingIsBeforeTheGrid
  <2>3. k \in Nat /\ k >= 1
    BY <2>2
  <2> HIDE DEF R, m, b
  <2>4. IsFiniteSet(m..Max(R)) /\ m..Max(R) \subseteq Int
    BY <2>1, FS_Interval
  <2> QED BY <2>1, <2>2, <2>3, <2>4
<1>3. \A n \in DOMAIN reports : BinOf(n) \in R /\ BinOf(n) \in Int /\ n \in Nat /\ n >= 1
  BY <1>2 DEF LaidOut
<1>4. Clean(b) /\ Integrated(b) /\ k \in Mine(b)
  BY <1>2, NotUncertainIsClean DEF Mine
<1>5. \A i \in R : bins[i].count > 0 <=> Mine(i) # {}
  BY AllOfABin DEF Binned
<1> HIDE DEF R
<1>6. ASSUME earlier # {}
      PROVE  \E e \in R : /\ e = Max(earlier) /\ Clean(e) /\ e < b /\ Mine(e) # {}
                          /\ \A i \in earlier : i <= e
  <2>1. IsFiniteSet(earlier) /\ earlier \subseteq Int
    <3>1. earlier \subseteq R
      OBVIOUS
    <3> HIDE DEF earlier
    <3> QED BY <1>2, <3>1, FS_Subset
  <2>2. Max(earlier) \in earlier /\ \A i \in earlier : i <= Max(earlier)
    <3> HIDE DEF earlier
    <3> QED BY <1>6, <2>1, Extremes
  <2>3. ~Uncertain(Max(earlier))
    BY <1>6 DEF R
  <2>4. Clean(Max(earlier))
    <3>1. Max(earlier) \in R
      BY <2>2
    <3> QED BY <2>3, <3>1, NotUncertainIsClean DEF R
  <2>5. Max(earlier) < b /\ Mine(Max(earlier)) # {} /\ Max(earlier) \in R
    BY <1>5, <2>2
  <2> HIDE DEF earlier
  <2> QED BY <2>2, <2>4, <2>5
<1>7. ASSUME k > 1
      PROVE  k - 1 \in DOMAIN reports /\ before = reports[k - 1].buttons
             /\ BinOf(k - 1) \in Int /\ BinOf(k - 1) \in R
  <2>1. k - 1 \in DOMAIN reports
    BY <1>7, SpanIsBetween
  <2> QED BY <1>3, <1>7, <2>1
<1>8. ASSUME k = 1 \/ BinOf(k - 1) # b
      PROVE  EdgesOf(bins[b].edges, k) = Changes(k, bins[b].start)
  <2>1. ASSUME NEW l \in Mine(b), l # k PROVE Before(k, l)
    <3>1. l \in DOMAIN reports /\ BinOf(l) = b /\ l \in Nat /\ l >= 1
      BY <1>3 DEF Mine
    <3>2. ~(l < k)
      <4>1. SUFFICES ASSUME l < k PROVE FALSE
        OBVIOUS
      <4>2. k > 1 /\ l < k - 1
        BY <1>2, <1>8, <3>1, <4>1
      <4>3. b <= BinOf(k - 1)
        <5>1. b <= BinOf(l)
          BY <1>2, <3>1
        <5> QED BY <1>2, <1>4, <1>7, <3>1, <4>2, <5>1, CleanIsNotRevisited DEF R
      <4>4. BinOf(k - 1) <= b
        BY <1>2, <1>3, <1>4, <1>7, <4>2, <4>3, CleanIsPassedUpward DEF R
      <4> HIDE DEF b
      <4> QED BY <1>2, <1>7, <1>8, <4>2, <4>3, <4>4
    <3>3. k < l
      BY <1>2, <2>1, <3>1, <3>2
    <3> QED BY <1>2, <1>4, <3>3, CleanIsInOrder DEF R
  <2> QED BY <1>4, <2>1 DEF Integrated, TellsInOrder
<1>9. CASE k = 1
  <2>1. earlier = {}
    <3>1. SUFFICES ASSUME earlier # {} PROVE FALSE
      OBVIOUS
    <3>2. PICK e \in R : Clean(e) /\ e < b /\ Mine(e) # {}
      BY <1>6, <3>1
    <3>3. PICK p \in Mine(e) : TRUE
      BY <3>2
    <3>4. p \in DOMAIN reports /\ BinOf(p) = e /\ p \in Nat /\ p >= 1
      BY <1>3, <3>3 DEF Mine
    <3>5. k < p
      <4>1. p # k
        BY <1>3, <1>2, <3>2, <3>4
      <4> QED BY <1>9, <3>4, <4>1
    <3>6. e < BinOf(p)
      BY <1>2, <3>2, <3>4, <3>5, CleanIsNotRevisited DEF R
    <3> QED BY <1>3, <3>4, <3>6
  <2>2. \A i \in R : m <= i /\ i < b => Mine(i) = {}
    BY <1>5, <2>1
  <2>3. m <= b
    <3> HIDE DEF b, m
    <3> QED BY <1>2
  <2>4. bins[b].start = bins[m].start
    BY <1>2, <2>2, <2>3, EmptyRowsHandOn DEF R
  <2>5. bins[m].start = {}
    BY <1>2 DEF Integrated, R
  <2> QED BY <1>8, <1>9, <2>4, <2>5
<1>10. CASE k > 1 /\ BinOf(k - 1) = b
  <2>1. k - 1 \in Mine(b) /\ k - 1 < k /\ k - 1 \in Nat
    <3>1. k - 1 \in Nat /\ k - 1 < k
      BY <1>2, <1>10
    <3> QED BY <1>7, <1>10, <3>1 DEF Mine
  <2>2. Before(k - 1, k)
    BY <1>2, <1>4, <2>1, CleanIsInOrder DEF R
  <2>3. ASSUME NEW l \in Mine(b) PROVE ~(Before(k - 1, l) /\ Before(l, k))
    <3>1. l \in DOMAIN reports /\ l \in Nat
      BY <1>3 DEF Mine
    <3>2. \A x, y \in Mine(b) : x < y => ~Before(y, x)
      <4>1. \A x, y \in Mine(b) : x < y => Before(x, y)
        BY <1>2, <1>4, CleanIsInOrder DEF R
      <4>2. Mine(b) \subseteq DOMAIN reports
        BY DEF Mine
      <4> QED BY <1>2, <4>1, <4>2, BeforeIsAnOrder
    <3>3. CASE l < k - 1
      BY <3>2, <3>3, <2>1
    <3>4. CASE l > k
      BY <3>2, <3>4, <1>4
    <3>5. CASE l = k - 1 \/ l = k
      BY <1>2, <1>7, <1>10, <3>5, BeforeIsAnOrder
    <3> QED BY <1>2, <3>1, <3>3, <3>4, <3>5
  <2>4. Follows(k - 1, k, b)
    BY <2>2, <2>3 DEF Follows
  <2>5. EdgesOf(bins[b].edges, k) = Changes(k, reports[k - 1].buttons)
    BY <1>4, <2>1, <2>4 DEF Integrated, TellsInOrder
  <2> QED BY <1>7, <1>10, <2>5
<1>11. CASE k > 1 /\ BinOf(k - 1) # b
  <2> DEFINE a == BinOf(k - 1)
  <2>1. a < b
    <3>1. ~(b <= a)
      <4>1. SUFFICES ASSUME b <= a PROVE FALSE
        OBVIOUS
      <4>2. a <= b
        BY <1>2, <1>3, <1>4, <1>7, <1>11, <4>1, CleanIsPassedUpward DEF R
      <4> QED BY <1>2, <1>7, <1>11, <4>1, <4>2
    <3> QED BY <1>2, <1>7, <1>11, <3>1
  <2>2. a \in earlier
    <3>1. k - 1 \in Mine(a)
      BY <1>7, <1>11 DEF Mine
    <3> QED BY <1>5, <1>7, <1>11, <2>1, <3>1
  <2>3. PICK e \in R : Clean(e) /\ e < b /\ Mine(e) # {} /\ \A i \in earlier : i <= e
    BY <1>6, <2>2
  <2>4. a <= e /\ e \in Int /\ a \in Int /\ b \in Int
    BY <1>2, <1>7, <1>11, <2>2, <2>3
  <2>5. a = e
    <3>1. SUFFICES ASSUME a < e PROVE FALSE
      BY <2>4
    <3>2. PICK p \in Mine(e) : TRUE
      BY <2>3
    <3>3. p \in DOMAIN reports /\ BinOf(p) = e /\ p \in Nat /\ p >= 1
      BY <1>3, <3>2 DEF Mine
    <3>4. ~(p < k - 1)
      <4>1. SUFFICES ASSUME p < k - 1 PROVE FALSE
        OBVIOUS
      <4>2. e <= BinOf(p)
        BY <2>4, <3>3
      <4>3. e <= a
        BY <1>7, <1>11, <2>3, <3>3, <4>1, <4>2, CleanIsNotRevisited DEF R
      <4> QED BY <2>4, <3>1, <4>3
    <3>5. ~(k < p)
      <4>1. SUFFICES ASSUME k < p PROVE FALSE
        OBVIOUS
      <4>2. e < BinOf(p)
        BY <2>3, <3>3, <4>1, CleanIsNotRevisited DEF R
      <4> QED BY <2>4, <3>3, <4>2
    <3>6. p # k /\ p # k - 1
      BY <2>3, <2>4, <3>1, <3>3
    <3> QED BY <1>2, <3>3, <3>4, <3>5, <3>6
  <2>6. bins[e].finish = reports[k - 1].buttons
    <3>1. ASSUME NEW l \in Mine(e), l # k - 1 PROVE Before(l, k - 1)
      <4>1. l \in DOMAIN reports /\ BinOf(l) = e /\ l \in Nat
        BY <1>3 DEF Mine
      <4>2. ~(k < l)
        <5>1. SUFFICES ASSUME k < l PROVE FALSE
          OBVIOUS
        <5>2. e < BinOf(l)
          BY <2>3, <4>1, <5>1, CleanIsNotRevisited DEF R
        <5> QED BY <2>4, <4>1, <5>2
      <4>3. l # k
        BY <2>3, <2>4, <4>1
      <4>4. l < k - 1
        BY <1>2, <3>1, <4>1, <4>2, <4>3
      <4>5. k - 1 \in Mine(e)
        BY <1>7, <1>11, <2>5 DEF Mine
      <4> QED BY <2>3, <4>4, <4>5, CleanIsInOrder DEF R
    <3>2. k - 1 \in Mine(e) /\ Integrated(e)
      BY <1>7, <1>11, <2>3, <2>5 DEF Mine, R
    <3> QED BY <3>1, <3>2 DEF Integrated, TellsInOrder
  <2>7. bins[b].start = bins[e].finish
    <3>1. e + 1 \in R /\ e + 1 <= b /\ e + 1 # m /\ e + 1 - 1 = e
      <4> HIDE DEF b, m, a, earlier
      <4> QED BY <1>2, <2>3, <2>4
    <3>2. ASSUME NEW i \in R, e + 1 <= i, i < b PROVE Mine(i) = {}
      <4>1. ~(i <= e)
        BY <1>2, <2>4, <3>2
      <4>2. i \notin earlier
        BY <2>3, <4>1
      <4> QED BY <1>5, <3>2, <4>2
    <3>3. bins[b].start = bins[e + 1].start
      BY <1>2, <3>1, <3>2, EmptyRowsHandOn DEF R
    <3>4. bins[e + 1].start = bins[e].finish
      <4> DEFINE f == e + 1
      <4>0. f - 1 = e
        BY <2>4
      <4>1. f \in R /\ f # Min(grid.range)
        BY <3>1 DEF R
      <4> HIDE DEF f
      <4>2. Integrated(f)
        BY <4>1 DEF R
      <4>3. bins[f].start = bins[f - 1].finish
        BY <4>1, <4>2 DEF Integrated
      <4>4. bins[f].start = bins[e].finish
        BY <4>0, <4>3
      <4> QED BY <4>4 DEF f
    <3> QED BY <3>1, <3>3, <3>4
  <2> QED BY <1>7, <1>8, <1>11, <2>6, <2>7
<1>12. k = 1 \/ k > 1
  BY <1>2
<1> QED BY <1>9, <1>10, <1>11, <1>12

\* A row that says of a report anything but the change from the report before
\* it is marked uncertain itself, or follows a marked one with reports.
THEOREM WrongEdgesAreMarked == DeriverSpec => []UncertaintyIsMarked
<1>1. DeriverInv => UncertaintyIsMarked
  <2> SUFFICES ASSUME DeriverInv, stage = "done", NEW k \in DOMAIN reports
               PROVE  LET b == BinOf(k)
                          earlier == {i \in grid.range : i < b /\ bins[i].count > 0}
                      IN Tells(b, k) \/ Uncertain(b) \/ (earlier # {} /\ Uncertain(Max(earlier)))
    BY DEF UncertaintyIsMarked
  <2>1. /\ DeriverTypeOK /\ LaidOut /\ Binned(Len(reports))
        /\ \A i \in grid.range : Integrated(i)
    BY DEF DeriverInv
  <2> QED BY <2>1, UnmarkedTells
<1> QED BY <1>1, DeriverIsInvariant, PTL
=================================================================================
