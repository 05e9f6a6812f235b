-------------------------- MODULE CertificationFlow --------------------------
(***************************************************************************)
(* The coordinator of a mouse certification (device/CertificationFlow): it *)
(* is prepared for the selected mouse, takes the evidence of one bounded   *)
(* probe, and then either certifies one route, offers a retry or is over.  *)
(* Pure. Evidence is a sequence with an item for each route of the probe;  *)
(* a route is its place in the plan.                                       *)
(***************************************************************************)
EXTENDS Naturals, Sequences, FiniteSetsExt

NoIdentity == <<0, 0>>  \* packet bus and device, when nothing was observed
NoLock     == [address |-> 0, endpoint |-> 0]

NoCertification == [state |-> "none", issue |-> "none", lock |-> NoLock]

\* Prepare: of the inventory, the mouse that was selected and the topologies of its
\* collections. Each must be proven and no route may be there twice.
Prepare(complete, present, topologies) ==
  LET failed(issue) == [NoCertification EXCEPT !.state = "preparation_failed",
                                               !.issue = issue]
  IN CASE ~complete -> failed("inventory_incomplete")
       [] complete /\ ~present -> failed("physical_selection_missing")
       [] complete /\ present /\ \E t \in topologies : ~t.proven -> failed("invalid_topology")
       [] complete /\ present /\ topologies = {} -> failed("no_probeable_route")
       [] OTHER -> [NoCertification EXCEPT !.state = "awaiting_probe"]

\* What is wrong with item i, looked at after the ones before it.
ItemIssue(evidence, routes, i) ==
  LET item == evidence[i]
      earlier == {evidence[j] : j \in 1 .. (i - 1)}
      identified == {e \in earlier : e.identity # NoIdentity}
  IN IF item.route \notin 1 .. Len(routes) \/ \E e \in earlier : e.route = item.route
       THEN "invalid_probe_evidence"
     ELSE IF ~item.inWindow THEN "probe_window_invalid"
     ELSE IF ~item.intact THEN "source_capture_lost"
     ELSE IF item.identity = NoIdentity /\ item.fromRoot THEN "invalid_probe_evidence"
     ELSE IF /\ item.identity # NoIdentity
             /\ \E e \in identified :
                  <<e.identity, e.fromRoot>> # <<item.identity, item.fromRoot>>
       THEN "invalid_probe_evidence"
     ELSE "none"

\* Items are strong by their payload changes, then by their completions. Decoded
\* motion, the last tie break, is not collected by a probe of a whole root.
Stronger(a, b) ==
  \/ a.changes > b.changes
  \/ a.changes = b.changes /\ a.completions > b.completions

Active(evidence) == {i \in DOMAIN evidence : evidence[i].completions > 0}

\* The first of the strongest, in the order of the routes.
Winner(evidence) ==
  LET best == {i \in Active(evidence) :
                 \A j \in Active(evidence) : ~Stronger(evidence[j], evidence[i])}
      route == Min({evidence[i].route : i \in best})
  IN CHOOSE i \in best : evidence[i].route = route

\* Mutant: the address of the topology is locked whatever was observed.
LockOfTopology(item, routes, topologyAddress) ==
  [address |-> topologyAddress, endpoint |-> IF item.wide THEN 0 ELSE routes[item.route]]

\* The lock takes the address that was observed, and drops the endpoint when all of
\* the device proved the activity.
LockOf(item, routes, topologyAddress) ==
  [address  |-> IF item.identity = NoIdentity THEN topologyAddress ELSE item.identity[2],
   endpoint |-> IF item.wide THEN 0 ELSE routes[item.route]]

\* Mutant: the click is not looked for.
RefusalUnclicked(evidence, raw, routes) ==
  LET wrong == {i \in DOMAIN evidence : ItemIssue(evidence, routes, i) # "none"}
  IN CASE wrong # {} -> ItemIssue(evidence, routes, Min(wrong))
       [] wrong = {} /\ "moved" \notin raw -> "insufficient_movement"
       [] wrong = {} /\ "moved" \in raw /\ Active(evidence) = {} -> "usb_activity_not_observed"
       [] OTHER -> "none"

\* Why the evidence does not certify; raw is what the selected mouse was seen to do.
Refusal(evidence, raw, routes) ==
  LET wrong == {i \in DOMAIN evidence : ItemIssue(evidence, routes, i) # "none"}
  IN IF Len(evidence) # Len(routes) THEN "invalid_probe_evidence"
     ELSE IF wrong # {} THEN ItemIssue(evidence, routes, Min(wrong))
     ELSE IF "moved" \notin raw THEN "insufficient_movement"
     ELSE IF "clicked" \notin raw THEN "click_not_observed"
     ELSE IF Active(evidence) = {} THEN "usb_activity_not_observed"
     ELSE "none"

\* A source that was lost ends the certification, any other refusal offers a retry.
SubmitProbe(c, evidence, raw, routes, topologyAddress) ==
  LET issue == Refusal(evidence, raw, routes)
  IN IF c.state # "awaiting_probe" THEN c
     ELSE IF issue = "source_capture_lost"
       THEN [NoCertification EXCEPT !.state = "preparation_failed", !.issue = issue]
     ELSE IF issue # "none"
       THEN [NoCertification EXCEPT !.state = "retry_available", !.issue = issue]
     ELSE [state |-> "certified", issue |-> "none",
           lock  |-> LockOf(evidence[Winner(evidence)], routes, topologyAddress)]

Retry(c) ==
  IF c.state = "retry_available"
    THEN [NoCertification EXCEPT !.state = "awaiting_probe"] ELSE c

CancelCertification(c) ==
  IF c.state \in {"certified", "cancelled"} THEN c
  ELSE [NoCertification EXCEPT !.state = "cancelled", !.issue = "cancelled"]
=============================================================================
