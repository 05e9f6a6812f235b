--------------------------- MODULE MillisecondDeriver ---------------------------
(***************************************************************************)
(* The offline derivation of consecutive millisecond bins from the decoded *)
(* reports of one mouse: the grid, one pass over the reports that sums and *)
(* marks, and one pass over the bins that replays the buttons and          *)
(* integrates the crosshair.                                               *)
(*                                                                         *)
(* hid_dy stands for the four sums of a bin, which are made alike and of   *)
(* which only Y is converted; the marks of the source reports, which a bin *)
(* only collects, are left out.                                            *)
(***************************************************************************)
EXTENDS Integers, Sequences, SequencesExt, FiniteSetsExt

CONSTANTS
  BinWidth,        \* kNanosecondsPerMillisecond
  MinInt, MaxInt,  \* the range of std::int64_t
  Timestamps,      \* capture_unix_ns of the reports
  Moves,           \* hid_dy and buttons of the reports
  Increments,      \* how capture_sequence goes on from report to report
  Origins,         \* grid origins that callers persisted
  MaxReports       \* bound: reports of the stream

ASSUME GridAssumption ==
  /\ BinWidth \in Nat \ {0} /\ MinInt \in Int /\ MaxInt \in Int /\ MaxReports \in Nat
  /\ Timestamps \subseteq Int /\ Origins \subseteq Int /\ Increments \subseteq Int
  /\ \A m \in Moves : m.dy \in Int

VARIABLES
  stage,    \* "reading", "binning", "integrating", "done", "failed"
  reports,  \* the decoded reports, in the order of the stream
  grid,     \* origin, covering range and axis convention
  bins,     \* the bins so far
  at        \* the report, and then the bin, that comes next

deriverVars == <<stage, reports, grid, bins, at>>

(***************************************************************************)
(* MillisecondGrid.                                                        *)
(***************************************************************************)
Representable(v) == v \in MinInt..MaxInt

\* `/' and `%' of the language truncate toward zero.
Truncated(v) == IF v < 0 THEN -((-v) \div BinWidth) ELSE v \div BinWidth

\* Mutant: the quotient is left truncated.
TruncatedParts(v) ==
  [quotient |-> Truncated(v), remainder |-> v - Truncated(v) * BinWidth]

FloorParts(v) ==
  LET quotient == Truncated(v)
      remainder == v - quotient * BinWidth
  IN IF remainder < 0 THEN [quotient |-> quotient - 1, remainder |-> remainder + BinWidth]
                      ELSE [quotient |-> quotient, remainder |-> remainder]

FloorToMillisecond(v) == FloorParts(v).quotient * BinWidth

IndexOf(origin, v) ==
  LET t == FloorParts(v)
      o == FloorParts(origin)
  IN t.quotient - o.quotient - (IF t.remainder < o.remainder THEN 1 ELSE 0)

EdgeUnixNs(origin, i) == origin + i * BinWidth

\* EdgeUnixNs and Interval throw when a product or a sum leaves the range.
IntervalExists(origin, i) ==
  /\ Representable(i * BinWidth) /\ Representable(EdgeUnixNs(origin, i))
  /\ Representable(EdgeUnixNs(origin, i) + BinWidth)

CoveringBinRange(origin) ==
  LET indices == {IndexOf(origin, reports[k].unixNs) : k \in DOMAIN reports}
  IN Min(indices)..Max(indices)

(***************************************************************************)
(* The axis conventions.                                                   *)
(***************************************************************************)
AxisConventions == {"legacy_device_native_y_v1", "phalm_m16_count_space_x_right_y_up_v2"}

Negates(convention) == convention = "phalm_m16_count_space_x_right_y_up_v2"

\* The smallest number has no opposite.
Derives(convention, dy) == ~(Negates(convention) /\ dy = MinInt)
DeriveAxes(convention, dy) == IF Negates(convention) THEN -dy ELSE dy

(***************************************************************************)
(* The reports: the reader of a stream lets only growing sequence numbers  *)
(* through, the deriver takes any, and both take any timestamps.           *)
(***************************************************************************)
Read ==
  /\ stage = "reading" /\ Len(reports) < MaxReports
  /\ \E t \in Timestamps, m \in Moves, i \in Increments :
       reports' = Append(reports,
         [unixNs |-> t, dy |-> m.dy, buttons |-> m.buttons,
          sequence |-> i + (IF reports = <<>> THEN MaxReports ELSE Last(reports).sequence)])
  /\ UNCHANGED <<stage, grid, bins, at>>

NewBin(origin, i) ==
  [begin |-> EdgeUnixNs(origin, i), end |-> EdgeUnixNs(origin, i) + BinWidth,
   dy |-> 0, count |-> 0, marks |-> {}, start |-> {}, finish |-> {}, edges |-> <<>>,
   pre |-> 0, post |-> 0]

Earliest == Min({reports[k].unixNs : k \in DOMAIN reports})

\* The exporter aligns the grid to its earliest report; another caller of the
\* deriver persists an origin.
LayOut ==
  /\ stage = "reading" /\ reports # <<>>
  /\ \E origin \in {FloorToMillisecond(Earliest)} \cup Origins, c \in AxisConventions :
       LET range == CoveringBinRange(origin)
       IN /\ grid' = [origin |-> origin, range |-> range, convention |-> c]
          /\ IF Representable(origin) /\ \A i \in range : IntervalExists(origin, i)
             THEN stage' = "binning" /\ bins' = [i \in range |-> NewBin(origin, i)]
             ELSE stage' = "failed" /\ UNCHANGED bins
  /\ UNCHANGED <<reports, at>>

BinOf(k) == IndexOf(grid.origin, reports[k].unixNs)

(***************************************************************************)
(* The first pass: a report is added to its bin, and whatever it contra-   *)
(* dicts of the one before it marks all bins between the two.              *)
(***************************************************************************)
Regresses(k) == k > 1 /\ reports[k].unixNs < reports[k - 1].unixNs
Repeats(k) == k > 1 /\ reports[k].sequence <= reports[k - 1].sequence

Marks(k) ==
  (IF Regresses(k) THEN {"TimestampRegressionDetected", "ButtonChronologyUncertain"} ELSE {})
  \cup (IF Repeats(k) THEN {"CaptureSequenceNotIncreasing", "ButtonChronologyUncertain"} ELSE {})

\* Mutant: only the two ends are marked.
MarkEnds(k) == IF k = 1 THEN {} ELSE {BinOf(k - 1), BinOf(k)}

MarkInclusiveBinSpan(k) ==
  IF k = 1 THEN {}
  ELSE LET ends == {BinOf(k - 1), BinOf(k)} IN Min(ends)..Max(ends)

BinReport ==
  /\ stage = "binning" /\ at <= Len(reports)
  /\ LET b == BinOf(at)
         sum == bins[b].dy + reports[at].dy
     IN IF Representable(sum)
        THEN /\ bins' = [i \in grid.range |->
                  [bins[i] EXCEPT
                     !.dy = IF i = b THEN sum ELSE @,
                     !.count = IF i = b THEN @ + 1 ELSE @,
                     !.marks = IF i \in MarkInclusiveBinSpan(at) THEN @ \cup Marks(at) ELSE @]]
             /\ at' = at + 1 /\ UNCHANGED stage
        ELSE stage' = "failed" /\ UNCHANGED <<bins, at>>
  /\ UNCHANGED <<reports, grid>>

AllBinned ==
  /\ stage = "binning" /\ at > Len(reports)
  /\ stage' = "integrating" /\ at' = Min(grid.range)
  /\ UNCHANGED <<reports, grid, bins>>

(***************************************************************************)
(* The second pass. The reports of a bin are replayed in the order of      *)
(* their sequence numbers, equal ones in that of the stream.               *)
(***************************************************************************)
Before(j, k) ==
  \/ reports[j].sequence < reports[k].sequence
  \/ reports[j].sequence = reports[k].sequence /\ j < k

Mine(b) == {k \in DOMAIN reports : BinOf(k) = b}
Places(b) == 1..Cardinality(Mine(b))

Group(b) == CHOOSE order \in [Places(b) -> Mine(b)] :
              \A i, j \in Places(b) : i < j => Before(order[i], order[j])

ReplayReport(held, k) ==
  IF reports[k].buttons = held.now THEN held
  ELSE [now |-> reports[k].buttons,
        edges |-> Append(held.edges,
          [report |-> k, before |-> held.now, after |-> reports[k].buttons])]

Replay(b, buttons) ==
  FoldLeft(ReplayReport, [now |-> buttons, edges |-> <<>>], Group(b))

\* Mutant: the next row continues from where this one started.
CarriedPre == IF at = Min(grid.range) THEN [buttons |-> {}, crosshair |-> 0]
              ELSE [buttons |-> bins[at - 1].finish, crosshair |-> bins[at - 1].pre]

\* The buttons and the crosshair start from nothing.
Carried == IF at = Min(grid.range) THEN [buttons |-> {}, crosshair |-> 0]
           ELSE [buttons |-> bins[at - 1].finish, crosshair |-> bins[at - 1].post]

Integrate ==
  /\ stage = "integrating" /\ at \in grid.range
  /\ LET replay == Replay(at, Carried.buttons)
         post == Carried.crosshair + DeriveAxes(grid.convention, bins[at].dy)
     IN IF Derives(grid.convention, bins[at].dy) /\ Representable(post)
        THEN /\ bins' = [bins EXCEPT ![at] =
                  [@ EXCEPT !.start = Carried.buttons, !.finish = replay.now,
                            !.edges = replay.edges, !.pre = Carried.crosshair, !.post = post]]
             /\ at' = at + 1
             /\ stage' = IF at + 1 \in grid.range THEN stage ELSE "done"
        ELSE stage' = "failed" /\ UNCHANGED <<bins, at>>
  /\ UNCHANGED <<reports, grid>>

DeriverInit ==
  /\ stage = "reading" /\ reports = <<>> /\ at = 1 /\ bins = [i \in {} |-> {}]
  /\ grid = [origin |-> 0, range |-> {}, convention |-> "none"]

DeriverNext == Read \/ LayOut \/ BinReport \/ AllBinned \/ Integrate

DeriverSpec == DeriverInit /\ [][DeriverNext]_deriverVars
(***************************************************************************)
(* Properties.                                                             *)
(***************************************************************************)
Dy    == [k \in DOMAIN reports |-> reports[k].dy]
Count == [i \in grid.range |-> bins[i].count]

\* Every decoded report is summed in one bin, the one whose half-open interval
\* holds its timestamp, and the bins follow each other without a gap.
ReportsAreBinnedOnce ==
  stage = "done" =>
    /\ \A i \in grid.range :
         LET mine == {k \in DOMAIN reports : bins[i].begin <= reports[k].unixNs
                                             /\ reports[k].unixNs < bins[i].end}
         IN /\ bins[i].count = Cardinality(mine)
            /\ bins[i].dy = SumFunctionOnSet(Dy, mine)
            /\ i + 1 \in grid.range => bins[i].end = bins[i + 1].begin
    /\ SumFunction(Count) = Len(reports)

\* The canonical movement of the reports before a time.
Moved(t) ==
  DeriveAxes(grid.convention,
             SumFunctionOnSet(Dy, {k \in DOMAIN reports : reports[k].unixNs < t}))

\* The crosshair before and after a row is the integral of the canonical
\* movement of all reports that came earlier on the grid, in whatever order the
\* stream had them.
CrosshairIntegratesTime ==
  stage = "done" =>
    \A i \in grid.range : /\ bins[i].pre = Moved(bins[i].begin)
                          /\ bins[i].post = Moved(bins[i].end)

\* The numbers of a row are those of the time it names.
RowsAreExact == ReportsAreBinnedOnce /\ CrosshairIntegratesTime

\* What bin b says of report k: exactly the change from the report before it.
Tells(b, k) ==
  LET before == IF k = 1 THEN {} ELSE reports[k - 1].buttons
  IN {e \in ToSet(bins[b].edges) : e.report = k} =
       IF reports[k].buttons = before THEN {}
       ELSE {[report |-> k, before |-> before, after |-> reports[k].buttons]}

Uncertain(b) == "ButtonChronologyUncertain" \in bins[b].marks

\* A button edge that is missing, made up or wrong about what came before it is
\* in a bin marked uncertain, or its bin takes the buttons over from one: the
\* mark does not reach the bin behind a regression, and a reader of the edges
\* has to look at the last bin with reports as well.
UncertaintyIsMarked ==
  stage = "done" =>
    \A k \in DOMAIN reports :
      LET b == BinOf(k)
          earlier == {i \in grid.range : i < b /\ bins[i].count > 0}
      IN \/ Tells(b, k)
         \/ Uncertain(b)
         \/ earlier # {} /\ Uncertain(Max(earlier))
=============================================================================
