--------------------------- MODULE CapturePipeline ---------------------------
(***************************************************************************)
(* The streaming PCAP parser and the products written from it: the exact   *)
(* device PCAP (authoritative), the decoded report stream and the anomaly  *)
(* journal (optional derivatives).                                         *)
(*                                                                         *)
(* The source is a sequence of units of UnitBytes bytes each: unit 1 is    *)
(* the PCAP global header, every later unit one record, known by its kind. *)
(* A product is the sequence of the unit numbers written to it.            *)
(***************************************************************************)
EXTENDS Integers, Sequences

CONSTANTS
  UnitBytes,  \* bytes of a unit; chunks cut the stream anywhere
  Streams     \* the streams the device may produce: sequences of unit kinds

HeaderKinds == {"header", "badHeader"}
RecordKinds == {"mouse",       \* decodes to a report
                "noted",       \* decodes to a report and an anomaly
                "undecodable", \* on the decoded endpoint, extraction fails
                "truncated",   \* payload cut by the snapshot length
                "other",       \* another endpoint or transfer type
                "foreign",     \* not the certified bus and device
                "badPacket",   \* not a USBPcap packet
                "badLength"}   \* a record header with impossible lengths

ASSUME PipelineAssumption ==
  /\ UnitBytes \in Nat \ {0}
  /\ \A s \in Streams : /\ s \in Seq(HeaderKinds \cup RecordKinds)
                        /\ Len(s) > 0
                        /\ \A i \in 1..Len(s) : s[i] \in HeaderKinds <=> i = 1

VARIABLES
  units,         \* the stream of this run
  sourceBytes,   \* snapshot.source_bytes
  todo,          \* records of the current chunk not processed yet
  writer,        \* device_pcap: "none", "open" or "final"
  writerFailed,  \* authoritative_writer_failed
  pcap,          \* records appended to the device PCAP
  durable,       \* how many of them the last checkpoint made durable
  reportStream,  \* reports: "none", "open" or "final"
  reports,
  journal,       \* anomalies: "none", "open" or "final"
  anomalies,
  sealed, published

productVars  == <<writer, writerFailed, pcap, durable, reportStream, reports,
                  journal, anomalies>>
pipelineVars == <<units, sourceBytes, todo, productVars, sealed, published>>

ErrorKinds  == {"PcapFraming", "DeviceIdentity", "Writer", "Other"}
StreamBytes == UnitBytes * Len(units)

(***************************************************************************)
(* StreamingPcapParser, as a function of the bytes it was given.           *)
(***************************************************************************)
\* The units that n bytes complete.
Arrived(n) == n \div UnitBytes

\* HeaderReady: the global header is complete and valid.
HeaderReady(n) == Arrived(n) > 0 /\ units[1] = "header"

\* AtRecordBoundary: nothing but whole units has arrived.
AtRecordBoundary(n) == HeaderReady(n) /\ n % UnitBytes = 0

\* TakeRecords throws: a bad global header, or lengths that are already wrong in
\* the first bytes of a record.
FramingFault(n) ==
  \/ Arrived(n) > 0 /\ units[1] = "badHeader"
  \/ \E i \in 2..Len(units) : units[i] = "badLength" /\ n > UnitBytes * (i - 1)

\* The records that the bytes from m + 1 to n complete.
RecordsBetween(m, n) ==
  LET first == IF Arrived(m) = 0 THEN 2 ELSE Arrived(m) + 1
  IN [i \in 1..(Arrived(n) + 1 - first) |-> first + i - 1]

(***************************************************************************)
(* Optional products: a failure closes the product and nothing else.       *)
(***************************************************************************)
\* Mutant: a report that cannot be appended is skipped.
AppendReportOrSkip(r) ==
  /\ reports' \in IF reportStream = "open" THEN {Append(reports, r), reports}
                                             ELSE {reports}
  /\ UNCHANGED reportStream

\* Reports.Append, or DisableReports when it throws.
AppendReport(r) ==
  \/ /\ reportStream = "open"
     /\ reports' = Append(reports, r) /\ UNCHANGED reportStream
  \/ /\ reportStream = "open"
     /\ reportStream' = "none" /\ UNCHANGED reports
  \/ reportStream # "open" /\ UNCHANGED <<reportStream, reports>>

\* AppendAnomaly: the journal likewise.
AppendAnomaly(r) ==
  \/ /\ journal = "open"
     /\ anomalies' = Append(anomalies, r) /\ UNCHANGED journal
  \/ /\ journal = "open"
     /\ journal' = "none" /\ UNCHANGED anomalies
  \/ journal # "open" /\ UNCHANGED <<journal, anomalies>>

\* A checkpoint or a publication keeps an open derivative or loses it.
DerivativesBecome(next) ==
  /\ reportStream' \in IF reportStream = "open" THEN {next, "none"} ELSE {reportStream}
  /\ journal' \in IF journal = "open" THEN {next, "none"} ELSE {journal}
  /\ UNCHANGED <<reports, anomalies>>

(***************************************************************************)
(* ProcessChunk.                                                           *)
(***************************************************************************)
\* The chunk's bytes up to hi are parsed, and the writer exists as soon as the
\* global header does. error is "none" or what ProcessChunk throws.
ChunkArrives(hi, error) ==
  /\ todo = <<>> /\ ~sealed /\ ~published
  /\ sourceBytes' = hi
  /\ \/ /\ FramingFault(hi) /\ error = "PcapFraming"
        /\ UNCHANGED <<todo, writer, writerFailed>>
     \/ /\ ~FramingFault(hi) /\ error = "none"
        /\ todo' = RecordsBetween(sourceBytes, hi)
        /\ writer' = IF writer = "none" /\ HeaderReady(hi) THEN "open" ELSE writer
        /\ UNCHANGED writerFailed
     \/ /\ ~FramingFault(hi) /\ error = "Writer"
        /\ writer = "none" /\ HeaderReady(hi)
        /\ writerFailed' = TRUE
        /\ UNCHANGED <<todo, writer>>
  /\ UNCHANGED <<units, pcap, durable, reportStream, reports, journal, anomalies,
                 sealed, published>>

\* Mutant: the identity is looked at after the append.
RecordRejectedLate(error) ==
  /\ todo # <<>> /\ error = "DeviceIdentity"
  /\ units[Head(todo)] = "foreign"
  /\ pcap' = Append(pcap, Head(todo)) /\ todo' = <<>>
  /\ UNCHANGED <<units, sourceBytes, writer, writerFailed, durable, reportStream,
                 reports, journal, anomalies, sealed, published>>

\* The record is rejected before anything is written.
RecordRejected(error) ==
  /\ todo # <<>>
  /\ \/ units[Head(todo)] = "badPacket" /\ error = "PcapFraming"
     \/ units[Head(todo)] = "foreign" /\ error = "DeviceIdentity"
  /\ todo' = <<>>
  /\ UNCHANGED <<units, sourceBytes, productVars, sealed, published>>

\* The authoritative append fails.
RecordAppendFails(error) ==
  /\ todo # <<>> /\ error = "Writer"
  /\ units[Head(todo)] \notin {"badPacket", "foreign"}
  /\ writerFailed' = TRUE
  /\ todo' = <<>>
  /\ UNCHANGED <<units, sourceBytes, writer, pcap, durable, reportStream, reports,
                 journal, anomalies, sealed, published>>

\* The record is appended first; what is decoded from it comes after.
RecordRetained ==
  /\ todo # <<>>
  /\ units[Head(todo)] \notin {"badPacket", "foreign"}
  /\ pcap' = Append(pcap, Head(todo))
  /\ todo' = Tail(todo)
  /\ IF units[Head(todo)] \in {"truncated", "undecodable", "noted"}
       THEN AppendAnomaly(Head(todo))
       ELSE UNCHANGED <<journal, anomalies>>
  /\ IF units[Head(todo)] \in {"mouse", "noted"}
       THEN AppendReport(Head(todo))
       ELSE UNCHANGED <<reportStream, reports>>
  /\ UNCHANGED <<units, sourceBytes, writer, writerFailed, durable, sealed, published>>

\* The interpretation itself throws (out of memory while describing an anomaly).
RecordInterpretationThrows(error) ==
  /\ todo # <<>> /\ error = "Other"
  /\ units[Head(todo)] \in {"truncated", "undecodable", "noted"}
  /\ pcap' = Append(pcap, Head(todo))
  /\ todo' = <<>>
  /\ UNCHANGED <<units, sourceBytes, writer, writerFailed, durable, reportStream,
                 reports, journal, anomalies, sealed, published>>

RecordFails(error) ==
  RecordRejected(error) \/ RecordAppendFails(error) \/ RecordInterpretationThrows(error)

(***************************************************************************)
(* Checkpoint, Seal and Publish.                                           *)
(***************************************************************************)
\* Checkpoint: the device PCAP is flushed, then the derivatives.
Checkpoint ==
  /\ ~published
  /\ durable' = IF writer = "none" THEN durable ELSE Len(pcap)
  /\ DerivativesBecome("open")
  /\ UNCHANGED <<units, sourceBytes, todo, writer, writerFailed, pcap, sealed, published>>

CheckpointFails ==
  /\ ~published /\ writer # "none"
  /\ writerFailed' = TRUE
  /\ UNCHANGED <<units, sourceBytes, todo, writer, pcap, durable, reportStream,
                 reports, journal, anomalies, sealed, published>>

\* Seal: Finalize refuses a stream that ends inside a unit, before any flush.
Seal ==
  /\ ~sealed /\ AtRecordBoundary(sourceBytes)
  /\ durable' = Len(pcap)
  /\ DerivativesBecome("open")
  /\ sealed' = TRUE
  /\ UNCHANGED <<units, sourceBytes, todo, writer, writerFailed, pcap, published>>

SealFails(error) ==
  /\ ~sealed
  /\ \/ /\ ~AtRecordBoundary(sourceBytes) /\ error = "PcapFraming"
        /\ UNCHANGED writerFailed
     \/ /\ AtRecordBoundary(sourceBytes) /\ error = "Writer"
        /\ writerFailed' = TRUE
  /\ UNCHANGED <<units, sourceBytes, todo, writer, pcap, durable, reportStream,
                 reports, journal, anomalies, sealed, published>>

\* Publish renames the device PCAP, then the derivatives that still exist.
Publish ==
  /\ sealed /\ ~published
  /\ writer' = "final" /\ durable' = Len(pcap)
  /\ DerivativesBecome("final")
  /\ published' = TRUE
  /\ UNCHANGED <<units, sourceBytes, todo, writerFailed, pcap, sealed>>

PublishFails ==
  /\ sealed /\ ~published
  /\ writerFailed' = TRUE
  /\ UNCHANGED <<units, sourceBytes, todo, writer, pcap, durable, reportStream,
                 reports, journal, anomalies, sealed, published>>

\* DrainEvidence: what StopAndDrain asks before it calls a stop clean.
DrainEvidence == [boundary    |-> AtRecordBoundary(sourceBytes),
                  writerClean |-> sealed /\ ~writerFailed,
                  accounted   |-> sourceBytes]

\* Each derivative may be unavailable from the beginning.
PipelineInit ==
  /\ units \in Streams
  /\ sourceBytes = 0 /\ todo = <<>>
  /\ writer = "none" /\ writerFailed = FALSE /\ pcap = <<>> /\ durable = 0
  /\ reportStream \in {"none", "open"} /\ reports = <<>>
  /\ journal \in {"none", "open"} /\ anomalies = <<>>
  /\ sealed = FALSE /\ published = FALSE
=============================================================================
