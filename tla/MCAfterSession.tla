----------------------------- MODULE MCAfterSession -----------------------------
(***************************************************************************)
(* What becomes of a sealed session: the derivation of the bins, and the   *)
(* export they are written by. The two share no state, and an export only  *)
(* needs to know whether its derivation succeeded (source.dense). So each  *)
(* is explored while the other has not begun.                              *)
(*                                                                         *)
(* The derivation has three nanoseconds a bin, and a range of numbers that *)
(* does not begin or end at an edge. There are two exports, each into one  *)
(* of six places: one whose staging directory has the name of another, one *)
(* inside that other, one inside the first, one whose parents are missing, *)
(* and one inside the source.                                              *)
(***************************************************************************)
EXTENDS ResearchExport, MillisecondDeriver

Instants == {-2, 2, 3, 7}
Press == [dy |-> -2, buttons |-> {"left"}]
Release == [dy |-> 1, buttons |-> {}]
OneDown == {Press, Release}
Increases == {-1, 1}
Persisted == {11}
Smallest == -13

Home    == <<<<"home">>>>
TheSource == Append(Home, <<"session">>)
Already == {Home, TheSource}

Out     == Append(Home, <<"out">>)
Partial == Append(Home, <<"out", "partial">>)
SomeOutputs ==
  {Out, Partial, Append(Out, <<"in">>), Append(Partial, <<"in">>),
   Append(Append(Append(Home, <<"new">>), <<"deep">>), <<"out">>),
   Append(TheSource, <<"out">>)}

Good == [sealed |-> TRUE, required |-> TRUE, reports |-> "readable", dense |-> TRUE,
         records |-> "agree"]
SomeSources ==
  {Good, [Good EXCEPT !.sealed = FALSE], [Good EXCEPT !.required = FALSE],
   [Good EXCEPT !.dense = FALSE], [Good EXCEPT !.reports = "unreadable"],
   [Good EXCEPT !.reports = "none"], [Good EXCEPT !.records = "disagree"]}

\* Bound: the streams of reports are enumerated for one source and one place only.
ExportsNotBegun ==
  /\ source = Good
  /\ \A p \in Exporters : pc[p] = "validate" /\ target[p] = Out

\* Bound: the number of the first report is only ever compared with later ones, so
\* one first increase is enough.
FirstIncreases == reports # <<>> => Head(reports).sequence = MaxReports + 1

DerivationNotBegun == stage = "reading" /\ reports = <<>>

AfterSessionVars == <<exportVars, deriverVars>>

AfterSessionInit == ExportInit /\ DeriverInit

AfterSessionNext ==
  \/ ExportsNotBegun /\ DeriverNext /\ FirstIncreases' /\ UNCHANGED exportVars
  \/ DerivationNotBegun /\ ExportNext /\ UNCHANGED deriverVars

AfterSessionSpec == AfterSessionInit /\ [][AfterSessionNext]_AfterSessionVars
=============================================================================
