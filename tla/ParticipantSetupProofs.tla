----------------------- MODULE ParticipantSetupProofs -----------------------
(***************************************************************************)
(* Proofs about the certification of a mouse, for every root of streams,   *)
(* whatever the reader delivers and in every interleaving of the           *)
(* participant, the application's polls, the helper process and its probe. *)
(* First what the choice of a stream and of a route give, for all counts;  *)
(* then the inductive invariant of the application with its helper.        *)
(***************************************************************************)
EXTENDS ParticipantSetup, FiniteSetTheorems, WellFoundedInduction, SequenceTheorems, TLAPS

(***************************************************************************)
(* The types.                                                              *)
(***************************************************************************)
Reasons == {"none", "native_capture_lost", "queue_or_byte_loss", "pcap_framing",
            "source_bound_exceeded", "source_start_failed"}
Told    == {"none", "cancelled", "complete"}

Item ==
  [route : Nat, inWindow : BOOLEAN, intact : BOOLEAN, identity : Nat \X Nat,
   fromRoot : BOOLEAN, wide : BOOLEAN, completions : Nat, changes : Nat]
Evidence == {<<>>} \cup [DOMAIN Routes -> Item]
Result ==
  [told : Told, reason : Reasons, identity : Nat \X Nat, evidence : Evidence]

Issues == {"none", "invalid_probe_evidence", "probe_window_invalid", "source_capture_lost",
           "insufficient_movement", "click_not_observed", "usb_activity_not_observed"}
PreparationIssues ==
  {"inventory_incomplete", "physical_selection_missing", "invalid_topology",
   "no_probeable_route", "cancelled"}

Lock == [address : Nat, endpoint : Nat]
CertificationStates ==
  {"none", "preparation_failed", "awaiting_probe", "retry_available", "certified", "cancelled"}

Certifications ==
  [state : CertificationStates, issue : Issues \cup PreparationIssues, lock : Lock]

Sources ==
  [state : {"idle", "capturing", "stopped", "lost", "overflow"}, queue : Seq(Chunks),
   sent : Nat, stop : BOOLEAN]
Works ==
  [at : {"idle", "start", "take", "look", "finish", "done"}, got : BOOLEAN,
   stop : BOOLEAN, pending : Reasons, taken : Seq(Chunks), reason : Reasons]

Controls ==
  [made : BOOLEAN, ready : {"none", "partial", "whole"}, cancel : BOOLEAN,
   temporary : BOOLEAN, result : Result]
Helpers ==
  [at : {"none", "boot", "loop", "result", "exited"}, zero : BOOLEAN,
   cancelled : BOOLEAN, orphan : BOOLEAN, failed : BOOLEAN]
Clients ==
  [state : {"none", "starting", "running", "cancel_requested"}, handle : BOOLEAN,
   ready : BOOLEAN, result : Result, cancel : BOOLEAN, written : BOOLEAN]

Actions == {"moved", "clicked"}
Mice    == UNION {found.present : found \in Inventories}

Flows ==
  [stage : PreCaptureStages \cup {"cancelled"}, blockers : SUBSET Blockers,
   manual : BOOLEAN, problem : Problems \cup {"none"}, sensitivity : BOOLEAN,
   length : BOOLEAN, prefix : Preserved, send : BOOLEAN]
Setups ==
  [at : {"pump", "poll", "leaving", "gone", "lost"}, recovered : BOOLEAN,
   scanning : BOOLEAN, inventory : Inventories \cup {NoInventory},
   selected : Mice \cup {NoMouse}, success : BOOLEAN, routes : BOOLEAN,
   sampling : BOOLEAN, raw : SUBSET Actions, close : BOOLEAN, allow : BOOLEAN,
   checks : Nat]

ProbeTypes   == source \in Sources /\ work \in Works
ControlTypes == parent \in BOOLEAN /\ files \in Controls /\ helper \in Helpers
                /\ client \in Clients
SetupTypes   == flow \in Flows /\ cert \in Certifications /\ setup \in Setups
                /\ gesture \in SUBSET Actions

(***************************************************************************)
(* The invariant.                                                          *)
(***************************************************************************)
\* Every chunk the reader sent is queued or was taken. What ends without a reason
\* ended with the reader stopped and nothing queued: a reader that is lost or
\* overflows leaves its reason with the worker first.
ProbeInv ==
  /\ Len(work.taken) + Len(source.queue) = source.sent
  /\ work.at = "finish" =>
       ReaderFinished /\ (source.state # "stopped" => work.pending # "none")
  /\ work.at = "done" /\ work.reason = "none" =>
       source.state = "stopped" /\ source.queue = <<>>

\* A helper that boots has not probed, and one that publishes has a probe that is done;
\* the result in the file is that of the probe, which nothing touches anymore.
HelperInv ==
  /\ helper.at = "boot" => work.taken = <<>>
  /\ helper.at = "result" => work.at = "done"
  /\ files.result # NoResult =>
       /\ helper.at = "exited" /\ work.at = "done"
       /\ \E t \in {"cancelled", "complete"} :
            files.result = [ResultOf(work.taken, work.reason) EXCEPT !.told = t]

\* The client holds its process for as long as it exists, and takes its result from
\* the file after it has seen the whole of the ready file.
ClientInv ==
  /\ client.handle <=> client.state # "none"
  /\ setup.at \in {"poll", "leaving"} => client.handle
  /\ client.result # NoResult => client.ready /\ client.result = files.result

SettingsStages == {"configure_session", "ready_to_start"}

\* A probe goes with the screen of the check or with a flow that was cancelled, and
\* only in the first case does the coordinator still wait for what it saw.
FlowInv ==
  /\ client.handle => flow.stage \in {"certifying", "cancelled"}
  /\ flow.stage = "certifying" => cert.state = "awaiting_probe"
  /\ client.handle /\ flow.stage = "cancelled" => cert.state = "cancelled"
  /\ cert.state = "certified" => flow.stage \in SettingsStages
  /\ setup.at \in {"gone", "lost"} => flow.stage = "welcome_privacy"

\* The selected mouse stays the same one from its choice to the settings: no scan is
\* under way that would take it away. What is sampled is of this probe.
MouseInv ==
  /\ setup.scanning => flow.stage \in {"choose_mouse", "cancelled"}
  /\ flow.stage \in {"certification_ready", "certifying", "certification_needs_action",
                     "configure_session", "ready_to_start"} => setup.selected # NoMouse
  /\ setup.sampling => client.handle /\ setup.raw \subseteq gesture

SetupInv ==
  /\ ProbeTypes /\ ControlTypes /\ SetupTypes
  /\ ProbeInv /\ HelperInv /\ ClientInv /\ FlowInv /\ MouseInv
  /\ ProbeLeavesNothing /\ CertifiedIsEarned /\ ProbeAndFlowAgree

(***************************************************************************)
(* Facts about finite sets. Induction is by a smallest counterexample.     *)
(***************************************************************************)
\* The smallest of some numbers.
LEMMA HasLeast ==
  ASSUME NEW T, T \subseteq Nat, T # {}
  PROVE  \E n \in T : \A m \in T : n <= m
<1> DEFINE Less == {p \in Nat \X Nat : p[1] < p[2]}
<1>1. IsWellFoundedOn(Less, Nat)
  BY NatLessThanWellFounded, SMT DEF OpToRel
<1>2. \E x \in T : \A y \in T : <<y, x>> \notin Less
  <2> HIDE DEF Less
  <2> QED BY <1>1, WFMin
<1>3. ASSUME NEW x \in T, NEW y \in T, <<y, x>> \notin Less
      PROVE  x <= y
  BY <1>3
<1> QED
  <2> HIDE DEF Less
  <2> QED BY <1>2, <1>3

LEMMA MinIsLeast ==
  ASSUME NEW T, T \subseteq Nat, T # {}
  PROVE  Min(T) \in T
BY HasLeast DEF Min

\* A total transitive relation on a finite set has an element before all others.
LEMMA FiniteHasTop ==
  ASSUME NEW R, NEW S, IsFiniteSet(S), S # {},
         \A x, y, z \in S : <<x, y>> \in R /\ <<y, z>> \in R => <<x, z>> \in R,
         \A x, y \in S : x # y => <<x, y>> \in R \/ <<y, x>> \in R
  PROVE  \E s \in S : \A t \in S \ {s} : <<s, t>> \in R
<1> DEFINE Top(X) == \E s \in X : \A t \in X \ {s} : <<s, t>> \in R
           Bad == {X \in SUBSET S : X # {} /\ ~Top(X)}
           Sizes == {Cardinality(X) : X \in Bad}
<1>1. SUFFICES ASSUME S \in Bad PROVE FALSE
  OBVIOUS
<1>2. \A X \in SUBSET S : IsFiniteSet(X) /\ Cardinality(X) \in Nat
  BY FS_Subset, FS_CardinalityType
<1>3. Sizes \subseteq Nat /\ Sizes # {}
  BY <1>1, <1>2
<1>4. PICK X \in Bad : \A Y \in Bad : Cardinality(X) <= Cardinality(Y)
  <2> HIDE DEF Bad
  <2>1. PICK n \in Sizes : \A m \in Sizes : n <= m
    BY <1>3, HasLeast
  <2> QED BY <2>1
<1>5. PICK x \in X : TRUE
  BY <1>4
<1> DEFINE Y == X \ {x}
<1>6. IsFiniteSet(Y) /\ Cardinality(Y) = Cardinality(X) - 1 /\ Cardinality(X) \in Nat
  BY <1>2, <1>4, <1>5, FS_RemoveElement
<1>7. Y \notin Bad
  <2> HIDE DEF Bad
  <2>1. Cardinality(Y) < Cardinality(X)
    BY <1>6
  <2> QED BY <2>1, <1>4, <1>6
<1>8. CASE Y = {}
  <2>1. Top(X)
    BY <1>5, <1>8
  <2> QED BY <2>1, <1>4
<1>9. CASE Y # {}
  <2>1. PICK s \in Y : \A t \in Y \ {s} : <<s, t>> \in R
    BY <1>7, <1>9, <1>4
  <2>2. CASE <<s, x>> \in R
    <3>1. \A t \in X \ {s} : <<s, t>> \in R
      BY <2>1, <2>2
    <3> QED BY <3>1, <2>1, <1>4
  <2>3. CASE <<x, s>> \in R
    <3>1. \A t \in X \ {x} : <<x, t>> \in R
      BY <2>1, <2>3, <1>4, <1>5
    <3> QED BY <3>1, <1>4, <1>5
  <2> QED
    BY <2>1, <2>2, <2>3, <1>4, <1>5
<1> QED
  BY <1>8, <1>9

\* The element by which a fold makes its set smaller.
Chosen(s) == CHOOSE x \in s : TRUE

\* The sum of numbers over a finite set is a number. The function that the fold is
\* defined by exists: it is made for subsets of one element more at a time.
LEMMA SumIsNatural ==
  ASSUME NEW D, IsFiniteSet(D), NEW f \in [D -> Nat]
  PROVE  SumFunction(f) \in Nat
<1> DEFINE Body(g, s) == IF s = {} THEN 0 ELSE f[Chosen(s)] + g[s \ {Chosen(s)}]
           Upto(n) == {s \in SUBSET D : Cardinality(s) <= n}
           Sums(n) == {g \in [Upto(n) -> Nat] : \A s \in Upto(n) : g[s] = Body(g, s)}
           None == {n \in Nat : Sums(n) = {}}
<1>1. \A s \in SUBSET D : /\ IsFiniteSet(s) /\ Cardinality(s) \in Nat
                          /\ Cardinality(s) = 0 <=> s = {}
  BY FS_Subset, FS_CardinalityType, FS_EmptySet
<1>2. \A s \in SUBSET D : s # {} =>
         /\ Chosen(s) \in s /\ f[Chosen(s)] \in Nat
         /\ s \ {Chosen(s)} \in SUBSET D
         /\ Cardinality(s \ {Chosen(s)}) = Cardinality(s) - 1
  BY <1>1, FS_RemoveElement DEF Chosen
<1>3. Sums(0) # {}
  <2> DEFINE g == [s \in Upto(0) |-> 0]
  <2>1. \A s \in Upto(0) : s = {}
    BY <1>1
  <2>2. g \in Sums(0)
    BY <2>1
  <2> QED BY <2>2
<1>4. ASSUME NEW n \in Nat, Sums(n) # {}
      PROVE  Sums(n + 1) # {}
  <2>1. PICK g \in Sums(n) : TRUE
    BY <1>4
  <2> DEFINE h == [s \in Upto(n + 1) |-> Body(g, s)]
  <2>2. ASSUME NEW s \in Upto(n + 1), s # {}
        PROVE  s \ {Chosen(s)} \in Upto(n) /\ s \ {Chosen(s)} \in Upto(n + 1)
    BY <2>2, <1>1, <1>2
  <2>3. h \in [Upto(n + 1) -> Nat]
    BY <2>1, <2>2, <1>2
  <2>4. ASSUME NEW t \in Upto(n)
        PROVE  t \in Upto(n + 1) /\ h[t] = g[t]
    BY <2>1, <1>1
  <2>5. ASSUME NEW s \in Upto(n + 1)
        PROVE  h[s] = Body(h, s)
    BY <2>2, <2>4
  <2> QED BY <2>3, <2>5
<1>5. None = {}
  <2>1. SUFFICES ASSUME None # {} PROVE FALSE
    OBVIOUS
  <2> HIDE DEF Sums
  <2>2. PICK n \in None : \A m \in None : n <= m
    BY <2>1, HasLeast
  <2>3. n # 0
    BY <1>3, <2>2
  <2>4. n - 1 \in Nat /\ n - 1 \notin None
    BY <2>2, <2>3
  <2>5. Sums(n - 1 + 1) # {}
    BY <2>4, <1>4
  <2> QED BY <2>5, <2>2
<1> DEFINE Whole == Cardinality(D)
<1>6. Upto(Whole) = SUBSET D /\ Whole \in Nat
  BY FS_Subset, FS_CardinalityType
<1>7. PICK g \in [SUBSET D -> Nat] : \A s \in SUBSET D : g[s] = Body(g, s)
  <2>1. Sums(Whole) # {}
    <3> HIDE DEF Sums, Whole
    <3> QED BY <1>5, <1>6
  <2> QED BY <2>1, <1>6
<1>8. g = [s \in SUBSET D |-> Body(g, s)]
  BY <1>7
<1> DEFINE iter == CHOOSE h : h = [s \in SUBSET D |-> Body(h, s)]
<1>9. iter = [s \in SUBSET D |-> Body(iter, s)]
  <2> HIDE DEF Body
  <2> QED BY <1>8
<1>10. \A s \in SUBSET D : iter[s] \in Nat
  <2> DEFINE Wrong == {s \in SUBSET D : iter[s] \notin Nat}
             Sizes == {Cardinality(s) : s \in Wrong}
  <2>1. SUFFICES ASSUME Wrong # {} PROVE FALSE
    OBVIOUS
  <2> HIDE DEF iter
  <2>2. Sizes \subseteq Nat /\ Sizes # {}
    BY <2>1, <1>1
  <2>3. PICK s \in Wrong : \A t \in Wrong : Cardinality(s) <= Cardinality(t)
    <3> HIDE DEF Wrong
    <3>1. PICK n \in Sizes : \A m \in Sizes : n <= m
      BY <2>2, HasLeast
    <3> QED BY <3>1
  <2>4. iter[s] = Body(iter, s)
    BY <1>9, <2>3
  <2>5. s # {}
    BY <2>3, <2>4
  <2>6. s \ {Chosen(s)} \notin Wrong
    <3> HIDE DEF Wrong
    <3>1. Cardinality(s) \in Nat /\ Cardinality(s \ {Chosen(s)}) = Cardinality(s) - 1
      BY <2>3, <2>5, <1>1, <1>2 DEF Wrong
    <3>2. ~(Cardinality(s) <= Cardinality(s \ {Chosen(s)}))
      BY <3>1
    <3> QED BY <3>2, <2>3
  <2> QED BY <2>3, <2>4, <2>5, <2>6, <1>2
<1>11. DOMAIN f = D
  OBVIOUS
<1>12. SumFunctionOnSet(f, D) = iter[D]
  BY DEF SumFunctionOnSet, FoldFunctionOnSet, MapThenFoldSet, Chosen
<1> QED
  BY <1>10, <1>11, <1>12 DEF SumFunction

(***************************************************************************)
(* The choice of a stream.                                                 *)
(***************************************************************************)
Fields     == {"completions", "changes"}
Activities == [Streams \X Endpoints -> [Fields -> Nat]]

LEMMA RoutesType ==
  /\ DOMAIN Routes = 1..Len(Routes) /\ Len(Routes) \in Nat \ {0} /\ 1 \in DOMAIN Routes
  /\ \A i \in DOMAIN Routes : /\ Routes[i] \in Endpoints \cup {0} /\ Routes[i] \in Nat
                              /\ OnRoute(i) \subseteq Endpoints
<1>1. Routes \in Seq(Endpoints \cup {0}) /\ Routes # <<>> /\ Endpoints \subseteq Nat
  BY ProbeAssumption
<1>2. DOMAIN Routes = 1..Len(Routes) /\ Len(Routes) \in Nat \ {0}
  BY <1>1
<1>3. \A i \in DOMAIN Routes : Routes[i] \in Endpoints \cup {0}
  BY <1>1
<1>4. ASSUME NEW i \in DOMAIN Routes
      PROVE  Routes[i] \in Nat /\ OnRoute(i) \subseteq Endpoints
  <2>1. Endpoints \subseteq Nat
    BY <1>1
  <2>2. Routes[i] \in Endpoints \/ Routes[i] = 0
    BY <1>3
  <2>3. Routes[i] \in Endpoints => Routes[i] \in Nat
    BY <2>1, Zenon
  <2>4. Routes[i] = 0 => Routes[i] \in Nat
    OBVIOUS
  <2> QED BY <2>2, <2>3, <2>4 DEF OnRoute
<1>5. 1 \in DOMAIN Routes
  BY <1>2
<1> QED
  BY <1>2, <1>3, <1>4, <1>5

\* The chunks that were taken amount to numbers.
LEMMA ActivityIsActivities ==
  ASSUME NEW taken \in Seq(Chunks)
  PROVE  ActivityOf(taken) \in Activities
<1>1. IsFiniteSet(DOMAIN taken)
  BY FS_Interval, DOMAIN taken = 1..Len(taken), 1 \in Int, Len(taken) \in Int
<1>2. ASSUME NEW k \in Streams \X Endpoints, NEW field \in Fields
      PROVE  SumFunction([i \in DOMAIN taken |-> Seen[taken[i]][k][field]]) \in Nat
  <2>1. ASSUME NEW i \in DOMAIN taken
        PROVE  Seen[taken[i]][k][field] \in Nat
    <3>1. taken[i] \in Chunks
      OBVIOUS
    <3>2. Seen[taken[i]][k] \in [completions : Nat, changes : Nat]
      BY <3>1, ProbeAssumption
    <3> QED BY <3>2 DEF Fields
  <2>2. [i \in DOMAIN taken |-> Seen[taken[i]][k][field]] \in [DOMAIN taken -> Nat]
    BY <2>1
  <2> QED BY <1>1, <2>2, SumIsNatural
<1> QED
  BY <1>2 DEF ActivityOf, Activities, Fields

LEMMA CountsAreNumbers ==
  ASSUME NEW activity \in Activities, NEW s \in Streams, NEW E \in SUBSET Endpoints
  PROVE  /\ Counts(activity, s, E).completions \in Nat
         /\ Counts(activity, s, E).changes \in Nat
<1>1. IsFiniteSet(E)
  BY ProbeAssumption, FS_Subset
<1>2. ASSUME NEW field \in Fields
      PROVE  SumFunction([e \in E |-> activity[<<s, e>>][field]]) \in Nat
  <2>1. [e \in E |-> activity[<<s, e>>][field]] \in [E -> Nat]
    BY DEF Activities
  <2> QED BY <1>1, <2>1, SumIsNatural
<1> QED
  BY <1>2 DEF Counts, Fields

\* How stream a comes before stream b.
Precedes(activity, a, b) ==
  Outscores(activity, a, b) \/ (~Outscores(activity, b, a) /\ Before(a, b))

\* The map of streams has one on top, whatever was counted.
LEMMA TopIsMember ==
  ASSUME NEW activity \in Activities, NEW S \in SUBSET Streams, S # {}
  PROVE  TopOf(activity, S) \in S
<1> DEFINE R == {p \in S \X S : Precedes(activity, p[1], p[2])}
<1>1. IsFiniteSet(S)
  BY ProbeAssumption, FS_Subset
<1>2. \A s \in S : /\ Changes(activity, s) \in Nat /\ Completions(activity, s) \in Nat
                   /\ s = <<s[1], s[2]>> /\ s[1] \in Nat /\ s[2] \in Nat
  BY CountsAreNumbers, ProbeAssumption DEF Changes, Completions
<1>3. \A x, y, z \in S : Precedes(activity, x, y) /\ Precedes(activity, y, z)
                           => Precedes(activity, x, z)
  BY <1>2 DEF Precedes, Outscores, Before
<1>4. \A x, y \in S : x # y => Precedes(activity, x, y) \/ Precedes(activity, y, x)
  BY <1>2 DEF Precedes, Outscores, Before
<1>5. \E s \in S : \A t \in S \ {s} : <<s, t>> \in R
  <2>1. /\ \A x, y, z \in S : <<x, y>> \in R /\ <<y, z>> \in R => <<x, z>> \in R
        /\ \A x, y \in S : x # y => <<x, y>> \in R \/ <<y, x>> \in R
    BY <1>3, <1>4
  <2> HIDE DEF R
  <2> QED BY <1>1, <2>1, FiniteHasTop
<1>6. \E s \in S : \A t \in S \ {s} : Precedes(activity, s, t)
  BY <1>5
<1> QED
  BY <1>6 DEF TopOf, Precedes

\* BestWholeRootStream names a stream that was observed, also when the hint decides.
LEMMA BestIsObserved ==
  ASSUME NEW activity \in Activities, Observed(activity) # {}
  PROVE  BestWholeRootStream(activity) \in Observed(activity)
<1> DEFINE hinted == {s \in Observed(activity) : s[2] = Hint}
<1>1. Observed(activity) \in SUBSET Streams /\ hinted \in SUBSET Streams
      /\ hinted \subseteq Observed(activity)
  BY DEF Observed
<1>2. TopOf(activity, Observed(activity)) \in Observed(activity)
  BY <1>1, TopIsMember
<1>3. hinted # {} => TopOf(activity, hinted) \in Observed(activity)
  BY <1>1, TopIsMember
<1> QED
  BY <1>2, <1>3 DEF BestWholeRootStream

(***************************************************************************)
(* The result of a probe.                                                  *)
(***************************************************************************)
LEMMA PlainType ==
  ASSUME NEW activity \in Activities, NEW s \in Streams
  PROVE  /\ Plain(activity, s) \in [DOMAIN Routes -> Item]
         /\ \A i \in DOMAIN Routes : /\ Plain(activity, s)[i].identity = s
                                     /\ Plain(activity, s)[i].fromRoot
<1>1. s \in Nat \X Nat
  BY ProbeAssumption
<1>2. \A i \in DOMAIN Routes :
        /\ Counts(activity, s, OnRoute(i)).completions \in Nat
        /\ Counts(activity, s, OnRoute(i)).changes \in Nat
        /\ i \in Nat
  BY CountsAreNumbers, RoutesType
<1> QED
  BY <1>1, <1>2 DEF Plain, Item

\* The evidence is about the chosen stream alone, and shows it alive.
LEMMA EvidenceOfStream ==
  ASSUME NEW activity \in Activities, NEW s \in Observed(activity)
  PROVE  /\ EvidenceOf(activity, s) \in [DOMAIN Routes -> Item]
         /\ \A i \in DOMAIN Routes : /\ EvidenceOf(activity, s)[i].identity = s
                                     /\ EvidenceOf(activity, s)[i].fromRoot
         /\ Active(EvidenceOf(activity, s)) # {}
<1> DEFINE items == Plain(activity, s)
<1>1. s \in Streams /\ Completions(activity, s) > 0
  BY DEF Observed
<1>2. Completions(activity, s) \in Nat /\ Changes(activity, s) \in Nat
  BY <1>1, CountsAreNumbers DEF Completions, Changes
<1>3. /\ items \in [DOMAIN Routes -> Item]
      /\ \A i \in DOMAIN Routes : items[i].identity = s /\ items[i].fromRoot
  BY <1>1, PlainType
<1> HIDE DEF items
<1>4. CASE ~Missed(activity, s, items)
  <2>1. \E i \in DOMAIN Routes : items[i].completions # 0
    BY <1>3, <1>4 DEF Missed
  <2>2. \E i \in DOMAIN Routes : items[i].completions > 0
    BY <2>1, <1>3 DEF Item
  <2>3. EvidenceOf(activity, s) = items
    BY <1>4 DEF EvidenceOf, items
  <2> QED BY <2>2, <2>3, <1>3 DEF Active
<1>5. CASE Missed(activity, s, items)
  <2> DEFINE first == [items[1] EXCEPT !.wide = TRUE,
                         !.completions = Completions(activity, s),
                         !.changes = Changes(activity, s)]
  <2>1. EvidenceOf(activity, s) = [items EXCEPT ![1] = first]
    BY <1>5 DEF EvidenceOf, items
  <2>2. 1 \in DOMAIN Routes /\ items[1] \in Item /\ items[1].identity = s /\ items[1].fromRoot
    BY RoutesType, <1>3
  <2>3. first \in Item /\ first.identity = s /\ first.fromRoot /\ first.completions > 0
    BY <2>2, <1>1, <1>2 DEF Item
  <2> HIDE DEF first
  <2> QED BY <2>1, <2>2, <2>3, <1>3 DEF Active
<1> QED
  BY <1>4, <1>5

\* What the result says: of streams only if the probe is clean and saw any, and then
\* of one that it saw; a probe that saw nothing says nothing of the routes.
LEMMA ResultSays ==
  ASSUME NEW taken \in Seq(Chunks), NEW reason \in Reasons
  PROVE  LET r == ResultOf(taken, reason)
         IN /\ r \in Result /\ r.told = "none" /\ r.reason = reason
            /\ r.identity # NoIdentity => Active(r.evidence) # {}
            /\ reason = "none" /\ Active(r.evidence) # {} =>
                 /\ r.identity \in Streams
                 /\ Completions(ActivityOf(taken), r.identity) > 0
                 /\ \A i \in DOMAIN r.evidence : /\ r.evidence[i].identity = r.identity
                                                 /\ r.evidence[i].fromRoot
<1> DEFINE activity == ActivityOf(taken)
           best == BestWholeRootStream(activity)
           r == ResultOf(taken, reason)
<1>1. activity \in Activities
  BY ActivityIsActivities
<1>2. NoResult \in Result
  BY DEF NoResult, Result, Told, Reasons, Evidence
<1> HIDE DEF activity
<1>3. CASE reason # "none"
  <2>1. r = [NoResult EXCEPT !.reason = reason]
    BY <1>3 DEF ResultOf
  <2>2. r \in Result /\ r.told = "none" /\ r.reason = reason /\ r.identity = NoIdentity
    BY <2>1, <1>2 DEF Result, NoResult, NoIdentity
  <2> QED BY <2>2, <1>3
<1>4. CASE reason = "none" /\ Observed(activity) = {}
  <2>1. r = [NoResult EXCEPT !.evidence = Silent(TRUE)]
    BY <1>4 DEF ResultOf, activity
  <2>2. Silent(TRUE) \in [DOMAIN Routes -> Item]
    BY RoutesType DEF Silent, Item
  <2>3. Active(Silent(TRUE)) = {}
    BY DEF Silent, Active
  <2>4. Silent(TRUE) \in Evidence
    BY <2>2 DEF Evidence
  <2>5. r \in Result /\ r.told = "none" /\ r.reason = reason /\ r.identity = NoIdentity
        /\ r.evidence = Silent(TRUE)
    BY <2>1, <2>4, <1>2, <1>4 DEF Result, NoResult, NoIdentity
  <2> QED BY <2>3, <2>5
<1>5. CASE reason = "none" /\ Observed(activity) # {}
  <2> DEFINE evidence == EvidenceOf(activity, best)
  <2>1. r = [NoResult EXCEPT !.identity = best, !.evidence = evidence]
    BY <1>5 DEF ResultOf, activity
  <2>2. best \in Observed(activity)
    BY <1>1, <1>5, BestIsObserved
  <2>3. best \in Streams /\ Completions(activity, best) > 0 /\ best \in Nat \X Nat
    BY <2>2, ProbeAssumption DEF Observed
  <2>4. /\ evidence \in [DOMAIN Routes -> Item]
        /\ \A i \in DOMAIN Routes : evidence[i].identity = best /\ evidence[i].fromRoot
        /\ Active(evidence) # {}
    BY <1>1, <2>2, EvidenceOfStream
  <2>5. evidence \in Evidence /\ DOMAIN evidence = DOMAIN Routes
    BY <2>4 DEF Evidence
  <2> HIDE DEF evidence, best
  <2>6. r \in Result /\ r.told = "none" /\ r.reason = reason /\ r.identity = best
        /\ r.evidence = evidence
    BY <2>1, <2>3, <2>5, <1>2, <1>5 DEF Result, NoResult
  <2> QED BY <2>3, <2>4, <2>5, <2>6 DEF activity
<1> QED
  BY <1>3, <1>4, <1>5

(***************************************************************************)
(* The verdict of the coordinator.                                         *)
(***************************************************************************)
LEMMA ItemIssueType ==
  ASSUME NEW evidence, NEW i
  PROVE  ItemIssue(evidence, Routes, i) \in Issues
BY DEF ItemIssue, Issues

\* Evidence that is not refused is complete and consistent, and shows activity; the
\* mouse moved and clicked.
LEMMA NotRefused ==
  ASSUME NEW evidence \in Evidence, NEW raw
  PROVE  /\ Refusal(evidence, raw, Routes) \in Issues
         /\ Refusal(evidence, raw, Routes) = "none" =>
              /\ evidence \in [DOMAIN Routes -> Item]
              /\ "moved" \in raw /\ "clicked" \in raw
              /\ Active(evidence) # {}
              /\ \A i \in DOMAIN evidence : ItemIssue(evidence, Routes, i) = "none"
<1> DEFINE wrong == {i \in DOMAIN evidence : ItemIssue(evidence, Routes, i) # "none"}
<1>1. Refusal(evidence, raw, Routes) \in Issues
  BY ItemIssueType DEF Refusal, Issues
<1>2. ASSUME Refusal(evidence, raw, Routes) = "none"
      PROVE  /\ evidence \in [DOMAIN Routes -> Item]
             /\ "moved" \in raw /\ "clicked" \in raw /\ Active(evidence) # {}
             /\ wrong = {}
  <2>1. Len(evidence) = Len(Routes)
    BY <1>2 DEF Refusal
  <2>2. evidence \in [DOMAIN Routes -> Item]
    <3>1. evidence # <<>>
      BY <2>1, RoutesType
    <3> QED BY <3>1 DEF Evidence
  <2>3. wrong \subseteq Nat
    BY <2>2, RoutesType
  <2>4. wrong # {} => ItemIssue(evidence, Routes, Min(wrong)) # "none"
    <3>1. wrong # {} => Min(wrong) \in wrong
      BY <2>3, MinIsLeast
    <3> QED BY <3>1
  <2>5. wrong = {}
    BY <2>1, <2>4, <1>2 DEF Refusal
  <2>6. "moved" \in raw /\ "clicked" \in raw /\ Active(evidence) # {}
    BY <2>1, <2>5, <1>2 DEF Refusal
  <2> QED BY <2>2, <2>5, <2>6
<1> QED
  BY <1>1, <1>2

\* The winner is one of the active items.
LEMMA WinnerIsActive ==
  ASSUME NEW evidence \in [DOMAIN Routes -> Item], Active(evidence) # {}
  PROVE  Winner(evidence) \in Active(evidence)
<1> DEFINE R == {p \in Active(evidence) \X Active(evidence) :
                   ~Stronger(evidence[p[2]], evidence[p[1]])}
           best == {i \in Active(evidence) :
                      \A j \in Active(evidence) : ~Stronger(evidence[j], evidence[i])}
           names == {evidence[i].route : i \in best}
<1>1. Active(evidence) \subseteq 1..Len(Routes) /\ IsFiniteSet(Active(evidence))
  <2>1. Active(evidence) \subseteq 1..Len(Routes)
    BY RoutesType DEF Active
  <2>2. IsFiniteSet(1..Len(Routes))
    BY FS_Interval, RoutesType
  <2> QED BY <2>1, <2>2, FS_Subset
<1>2. \A i \in Active(evidence) : /\ evidence[i].changes \in Nat
                                  /\ evidence[i].completions \in Nat
                                  /\ evidence[i].route \in Nat
  BY DEF Active, Item
<1>3. /\ \A x, y, z \in Active(evidence) : <<x, y>> \in R /\ <<y, z>> \in R => <<x, z>> \in R
      /\ \A x, y \in Active(evidence) : x # y => <<x, y>> \in R \/ <<y, x>> \in R
      /\ \A x \in Active(evidence) : <<x, x>> \in R
  BY <1>2 DEF Stronger
<1>4. \E s \in Active(evidence) : \A t \in Active(evidence) \ {s} : <<s, t>> \in R
  <2> HIDE DEF R
  <2> QED BY <1>1, <1>3, FiniteHasTop
<1>5. best # {}
  <2>1. \E s \in Active(evidence) : \A t \in Active(evidence) : <<s, t>> \in R
    <3> HIDE DEF R
    <3> QED BY <1>3, <1>4
  <2> QED BY <2>1
<1>6. names \subseteq Nat /\ names # {}
  BY <1>2, <1>5
<1>7. Min(names) \in names
  <2> HIDE DEF names
  <2> QED BY <1>6, MinIsLeast
<1>8. \E i \in best : evidence[i].route = Min(names)
  BY <1>7
<1> QED
  BY <1>8 DEF Winner

LEMMA ItemAccepted ==
  ASSUME NEW evidence \in [DOMAIN Routes -> Item], NEW i \in DOMAIN Routes,
         ItemIssue(evidence, Routes, i) = "none"
  PROVE  /\ evidence[i].route \in DOMAIN Routes
         /\ evidence[i].fromRoot => evidence[i].identity # NoIdentity
<1>1. evidence[i].route \in 1..Len(Routes)
  BY DEF ItemIssue
<1>2. evidence[i].fromRoot => evidence[i].identity # NoIdentity
  BY DEF ItemIssue
<1> QED
  BY <1>1, <1>2, RoutesType

\* SubmitProbe certifies only what it waited for, and locks an active item.
LEMMA Submitted ==
  ASSUME NEW c \in Certifications, NEW evidence \in Evidence, NEW raw
  PROVE  LET d == SubmitProbe(c, evidence, raw, Routes, Hint)
         IN /\ d \in Certifications
            /\ c.state # "awaiting_probe" => d = c
            /\ c.state = "awaiting_probe" => d.state # "awaiting_probe"
            /\ c.state = "awaiting_probe" /\ d.state = "certified" =>
                 /\ "moved" \in raw /\ "clicked" \in raw
                 /\ \E i \in Active(evidence) :
                      /\ d.lock = LockOf(evidence[i], Routes, Hint)
                      /\ evidence[i].fromRoot => evidence[i].identity # NoIdentity
<1> DEFINE d == SubmitProbe(c, evidence, raw, Routes, Hint)
           issue == Refusal(evidence, raw, Routes)
<1>1. CASE c.state # "awaiting_probe"
  <2>1. d = c
    BY <1>1 DEF SubmitProbe
  <2> QED BY <2>1, <1>1
<1>2. CASE c.state = "awaiting_probe" /\ issue # "none"
  <2>1. NoLock \in Lock
    BY DEF NoLock, Lock
  <2>2. issue \in Issues
    BY NotRefused
  <2>3. \/ d = [NoCertification EXCEPT !.state = "preparation_failed", !.issue = issue]
        \/ d = [NoCertification EXCEPT !.state = "retry_available", !.issue = issue]
    BY <1>2 DEF SubmitProbe
  <2> HIDE DEF issue
  <2>4. d \in Certifications /\ d.state \in {"preparation_failed", "retry_available"}
    BY <2>1, <2>2, <2>3 DEF NoCertification, Certifications, CertificationStates
  <2> QED BY <2>4, <1>2
<1>3. CASE c.state = "awaiting_probe" /\ issue = "none"
  <2> DEFINE i == Winner(evidence)
             lock == LockOf(evidence[i], Routes, Hint)
  <2>1. /\ evidence \in [DOMAIN Routes -> Item] /\ Active(evidence) # {}
        /\ "moved" \in raw /\ "clicked" \in raw
        /\ \A j \in DOMAIN evidence : ItemIssue(evidence, Routes, j) = "none"
    BY <1>3, NotRefused
  <2>2. i \in Active(evidence) /\ i \in DOMAIN Routes
    BY <2>1, WinnerIsActive DEF Active
  <2> HIDE DEF i
  <2>3. /\ evidence[i] \in Item /\ evidence[i].route \in DOMAIN Routes
        /\ evidence[i].fromRoot => evidence[i].identity # NoIdentity
    BY <2>1, <2>2, ItemAccepted
  <2>4. Routes[evidence[i].route] \in Nat
    BY <2>3, RoutesType
  <2>5. lock \in Lock
    <3>1. evidence[i].identity[2] \in Nat /\ Hint \in Nat
      BY <2>3, ProbeAssumption DEF Item
    <3> QED BY <3>1, <2>4 DEF LockOf, Lock
  <2>6. d = [state |-> "certified", issue |-> "none", lock |-> lock]
    BY <1>3 DEF SubmitProbe, i
  <2> HIDE DEF lock
  <2>7. d \in Certifications /\ d.lock = lock /\ d.state = "certified"
    BY <2>5, <2>6 DEF Certifications, CertificationStates, Issues
  <2> QED BY <1>3, <2>1, <2>2, <2>3, <2>7 DEF lock
<1> QED
  BY <1>1, <1>2, <1>3

\* A certification that an attempt failed for is not certified by that.
LEMMA FailedIsNotCertified ==
  ASSUME NEW c \in Certifications
  PROVE  /\ FailedCert(c) \in Certifications
         /\ c.state # "awaiting_probe" => FailedCert(c) = c
         /\ c.state = "awaiting_probe" =>
              FailedCert(c).state \notin {"awaiting_probe", "certified"}
<1>1. Silent(FALSE) \in Evidence
  BY RoutesType DEF Silent, Item, Evidence
<1> QED
  BY <1>1, Submitted DEF FailedCert

\* Probe and coordinator name the same device, which reported during the probe, and
\* the mouse moved and clicked.
LEMMA CertifiedByResult ==
  ASSUME NEW c \in Certifications, NEW raw, NEW taken \in Seq(Chunks), NEW reason \in Reasons,
         NEW result, result.identity = ResultOf(taken, reason).identity,
         result.reason = ResultOf(taken, reason).reason,
         result.evidence = ResultOf(taken, reason).evidence,
         result.reason = "none", c.state = "awaiting_probe",
         SubmitProbe(c, result.evidence, raw, Routes, Hint).state = "certified"
  PROVE  /\ reason = "none" /\ "moved" \in raw /\ "clicked" \in raw
         /\ result.identity \in Streams
         /\ SubmitProbe(c, result.evidence, raw, Routes, Hint).lock.address
              = result.identity[2]
         /\ Completions(ActivityOf(taken), result.identity) > 0
<1> DEFINE r == ResultOf(taken, reason)
           d == SubmitProbe(c, result.evidence, raw, Routes, Hint)
<1>1. r \in Result /\ r.reason = reason
  BY ResultSays
<1>2. /\ result.evidence = r.evidence /\ result.identity = r.identity
      /\ result.reason = r.reason /\ result.evidence \in Evidence
  BY <1>1 DEF Result
<1>3. /\ "moved" \in raw /\ "clicked" \in raw
      /\ \E i \in Active(result.evidence) :
           /\ d.lock = LockOf(result.evidence[i], Routes, Hint)
           /\ result.evidence[i].fromRoot => result.evidence[i].identity # NoIdentity
  BY <1>2, Submitted
<1>4. /\ reason = "none" /\ Active(r.evidence) # {}
  BY <1>1, <1>2, <1>3
<1>5. /\ r.identity \in Streams /\ Completions(ActivityOf(taken), r.identity) > 0
      /\ \A i \in DOMAIN r.evidence : r.evidence[i].identity = r.identity
                                      /\ r.evidence[i].fromRoot
  BY <1>4, ResultSays
<1>6. PICK i \in Active(result.evidence) :
           /\ d.lock = LockOf(result.evidence[i], Routes, Hint)
           /\ result.evidence[i].fromRoot => result.evidence[i].identity # NoIdentity
  BY <1>3
<1>7. result.evidence[i].identity = result.identity
      /\ result.evidence[i].identity # NoIdentity
  BY <1>2, <1>5, <1>6 DEF Active
<1>8. d.lock.address = result.identity[2]
  BY <1>6, <1>7 DEF LockOf
<1> QED
  BY <1>2, <1>3, <1>4, <1>5, <1>8

(***************************************************************************)
(* The invariant holds at first.                                           *)
(***************************************************************************)
LEMMA SmallTypes ==
  /\ NoSource \in Sources /\ NoWork \in Works /\ NoFiles \in Controls
  /\ NoHelper \in Helpers /\ NoClient \in Clients /\ NoResult \in Result
  /\ NewFlow \in Flows /\ NoCertification \in Certifications /\ NewSetup \in Setups
<1>1. NoResult \in Result
  BY DEF NoResult, Result, Told, Reasons, Evidence
<1>2. NoSource \in Sources /\ NoWork \in Works
  BY DEF NoSource, NoWork, Sources, Works, Reasons
<1>3. NoFiles \in Controls /\ NoHelper \in Helpers /\ NoClient \in Clients
  BY <1>1 DEF NoFiles, NoHelper, NoClient, Controls, Helpers, Clients
<1>4. NewFlow \in Flows
  BY DEF NewFlow, Flows, PreCaptureStages, Preserved
<1>5. NoCertification \in Certifications
  BY DEF NoCertification, NoLock, Certifications, CertificationStates, Issues, Lock
<1>6. NewSetup \in Setups
  BY DEF NewSetup, Setups
<1> QED
  BY <1>1, <1>2, <1>3, <1>4, <1>5, <1>6

LEMMA InitInv ==
  ASSUME SetupInit
  PROVE  SetupInv
<1>1. ProbeTypes /\ ControlTypes /\ SetupTypes
  BY SmallTypes DEF SetupInit, ProbeTypes, ControlTypes, SetupTypes
<1>2. ProbeInv /\ HelperInv
  BY DEF SetupInit, ProbeInv, HelperInv, NoSource, NoWork, NoFiles, NoHelper
<1>3. ClientInv /\ FlowInv /\ MouseInv
  BY DEF SetupInit, ClientInv, FlowInv, MouseInv, NoClient, NewFlow, NoCertification,
         NewSetup, SettingsStages
<1>4. ProbeLeavesNothing /\ CertifiedIsEarned
  BY DEF SetupInit, ProbeLeavesNothing, CertifiedIsEarned, NoClient, NoHelper, NoFiles,
         HelperLives, NewFlow, NewSetup
<1>5. ProbeAndFlowAgree
  BY DEF SetupInit, ProbeAndFlowAgree, NoCertification, NoFiles, NoResult, NoIdentity
<1> QED
  BY <1>1, <1>2, <1>3, <1>4, <1>5 DEF SetupInv

(***************************************************************************)
(* The probe's own steps.                                                  *)
(***************************************************************************)
\* In the settings and after nothing of a probe runs, no scan, and no poll.
LEMMA SettingsAreQuiet ==
  ASSUME SetupInv, flow.stage \in SettingsStages
  PROVE  /\ ~client.handle /\ client.state = "none" /\ setup.at = "pump"
         /\ ~HelperLives /\ ~setup.scanning /\ ~setup.sampling
<1>1. ~client.handle /\ ~setup.scanning
  BY DEF SetupInv, FlowInv, MouseInv, SettingsStages
<1>2. client.state = "none" /\ setup.at \notin {"poll", "leaving"} /\ ~setup.sampling
  BY <1>1 DEF SetupInv, ClientInv, MouseInv
<1>3. setup.at = "pump"
  BY <1>2 DEF SetupInv, FlowInv, SettingsStages, SetupTypes, Setups
<1>4. ~HelperLives
  BY <1>1, <1>3 DEF SetupInv, ProbeLeavesNothing
<1> QED
  BY <1>1, <1>2, <1>3, <1>4

\* What a live helper and its probe do concerns only themselves and the files.
LEMMA HelperStep ==
  ASSUME SetupInv, HelperLives, UNCHANGED <<setupVars, client, parent>>,
         ProbeTypes', files' \in Controls, helper' \in Helpers, ProbeInv', HelperInv',
         files'.result.identity # NoIdentity => Active(files'.result.evidence) # {}
  PROVE  SetupInv'
<1>1. ProbeTypes' /\ ControlTypes' /\ SetupTypes'
  BY DEF SetupInv, ControlTypes, SetupTypes, setupVars
<1>2. client.result = NoResult
  BY DEF SetupInv, ClientInv, HelperInv, HelperLives
<1>3. ClientInv' /\ FlowInv' /\ MouseInv'
  BY <1>2 DEF SetupInv, ClientInv, FlowInv, MouseInv, setupVars
<1>4. flow.stage \notin SettingsStages
  BY SettingsAreQuiet
<1>5. CertifiedIsEarned'
  BY <1>4 DEF CertifiedIsEarned, SettingsStages, setupVars
<1>6. ProbeLeavesNothing'
  BY DEF SetupInv, ProbeLeavesNothing, setupVars
<1>7. ProbeAndFlowAgree'
  BY DEF SetupInv, ProbeAndFlowAgree, setupVars
<1> QED
  BY <1>1, <1>3, <1>5, <1>6, <1>7 DEF SetupInv

\* A step of the probe alone.
LEMMA ProbeStep ==
  ASSUME SetupInv, Probing, UNCHANGED setupVars, ProbeTypes', ProbeInv'
  PROVE  SetupInv'
<1>1. HelperLives /\ UNCHANGED <<client, parent, files, helper>> /\ helper.at = "loop"
  BY DEF Probing, HelperLives, controlVars
<1>2. HelperInv'
  BY <1>1 DEF SetupInv, HelperInv
<1>3. files' \in Controls /\ helper' \in Helpers
      /\ (files'.result.identity # NoIdentity => Active(files'.result.evidence) # {})
  BY <1>1 DEF SetupInv, ControlTypes, ProbeAndFlowAgree
<1> QED
  BY <1>1, <1>2, <1>3, HelperStep

LEMMA ReaderSteps ==
  ASSUME SetupInv, Probing, UNCHANGED setupVars, ReaderDelivers \/ ReaderEnds
  PROVE  SetupInv'
<1>1. ProbeTypes /\ ProbeInv
  BY DEF SetupInv
<1>2. CASE ReaderDelivers
  <2>1. PICK c \in Chunks : source' = [source EXCEPT !.queue = Append(@, c), !.sent = @ + 1]
    BY <1>2 DEF ReaderDelivers
  <2>0. work' = work
    BY <1>2 DEF ReaderDelivers
  <2>2. source.queue \in Seq(Chunks) /\ source.sent \in Nat /\ work.taken \in Seq(Chunks)
    BY <1>1 DEF ProbeTypes, Sources, Works
  <2>3. /\ Append(source.queue, c) \in Seq(Chunks) /\ Len(source.queue) \in Nat
        /\ Len(Append(source.queue, c)) = Len(source.queue) + 1 /\ Len(work.taken) \in Nat
    BY <2>2
  <2> DEFINE queue == Append(source.queue, c)
  <2>4. source' = [source EXCEPT !.queue = queue, !.sent = source.sent + 1]
    BY <2>1
  <2>5. queue \in Seq(Chunks) /\ Len(queue) = Len(source.queue) + 1
    BY <2>3
  <2> HIDE DEF queue
  <2>6. /\ source'.queue = queue /\ source'.sent = source.sent + 1
        /\ source'.state = source.state /\ source' \in Sources
    <3>1. source \in Sources /\ source.sent + 1 \in Nat
      BY <1>1, <2>2 DEF ProbeTypes
    <3> QED BY <3>1, <2>4, <2>5 DEF Sources
  <2>7. source.state = "capturing"
    BY <1>2 DEF ReaderDelivers, Capturing
  <2>8. ProbeTypes'
    BY <1>1, <2>0, <2>6 DEF ProbeTypes
  <2>9. ProbeInv'
    <3> DEFINE m == Len(work.taken)
               n == Len(source.queue)
    <3>1. m + n = source.sent /\ m \in Nat /\ n \in Nat
      BY <1>1, <2>3 DEF ProbeInv
    <3>2. Len(work'.taken) = m /\ Len(source'.queue) = n + 1
      BY <2>0, <2>5, <2>6
    <3> HIDE DEF m, n
    <3>3. Len(work'.taken) + Len(source'.queue) = source'.sent
      BY <2>6, <3>1, <3>2
    <3>4. work'.at # "finish" /\ ~(work'.at = "done" /\ work'.reason = "none")
      BY <1>1, <2>0, <2>7 DEF ProbeInv, ReaderFinished
    <3> QED BY <3>3, <3>4 DEF ProbeInv
  <2> QED BY <2>8, <2>9, ProbeStep
<1>3. CASE ReaderEnds
  <2>1. /\ source' \in Sources /\ source'.queue = source.queue /\ source'.sent = source.sent
        /\ source'.state \in {"stopped", "lost", "overflow"} /\ work' = work
        /\ source.state = "capturing"
    BY <1>1, <1>3 DEF ReaderEnds, Capturing, ProbeTypes, Sources
  <2>2. ProbeTypes' /\ ProbeInv'
    BY <1>1, <2>1 DEF ProbeTypes, ProbeInv, ReaderFinished
  <2> QED BY <2>2, ProbeStep
<1> QED
  BY <1>2, <1>3

LEMMA AbortedKeeps ==
  ASSUME ProbeTypes
  PROVE  /\ Aborted \in Sources /\ Aborted.queue = source.queue
         /\ Aborted.sent = source.sent /\ Aborted.state # "capturing"
         /\ source.state # "capturing" => Aborted = source
BY DEF ProbeTypes, Sources, Aborted, Capturing

LEMMA EndedKeeps ==
  ASSUME NEW w \in Works, NEW reason \in Reasons
  PROVE  /\ Ended(w, reason) \in Works /\ Ended(w, reason).at = "done"
         /\ Ended(w, reason).taken = w.taken /\ Ended(w, reason).reason = reason
BY DEF Works, Ended

\* A reader that ended otherwise than by a stop leaves its reason with the worker.
LEMMA LookedKeeps ==
  ASSUME ProbeTypes, NEW late \in BOOLEAN
  PROVE  LET w == Looked(work, late)
         IN /\ w \in Works /\ w.taken = work.taken /\ w.reason = work.reason
            /\ w.at = work.at /\ w.got = work.got
            /\ source.state \in {"lost", "overflow"} => w.pending # "none"
BY DEF ProbeTypes, Works, Looked, Reasons

\* A step that keeps what was sent, queued and taken.
LEMMA CountsKept ==
  ASSUME ProbeInv, source'.queue = source.queue, source'.sent = source.sent,
         work'.taken = work.taken
  PROVE  Len(work'.taken) + Len(source'.queue) = source'.sent
BY DEF ProbeInv

LEMMA WorkerTakesStep ==
  ASSUME SetupInv, Probing, UNCHANGED setupVars, WorkerTakes
  PROVE  SetupInv'
<1>1. ProbeTypes /\ ProbeInv /\ work.at = "take" /\ work \in Works
  BY DEF SetupInv, ProbeTypes, WorkerTakes
<1>2. CASE source.queue = <<>>
  <2>1. work' = [work EXCEPT !.at = "look", !.got = FALSE] /\ source' = source
    BY <1>2 DEF WorkerTakes
  <2>2. work' \in Works /\ work'.taken = work.taken /\ work'.at = "look"
    BY <1>1, <2>1 DEF ProbeTypes, Works
  <2>3. ProbeTypes'
    BY <1>1, <2>1, <2>2 DEF ProbeTypes
  <2>4. ProbeInv'
    BY <1>1, <2>1, <2>2, CountsKept DEF ProbeInv
  <2> QED BY <2>3, <2>4, ProbeStep
<1>3. ASSUME source.queue # <<>>, NEW reason \in Reasons \ {"none"},
             source' = Aborted, work' = Ended(work, reason)
      PROVE  SetupInv'
  <2>1. ProbeTypes'
    BY <1>1, <1>3, AbortedKeeps, EndedKeeps DEF ProbeTypes
  <2>2. ProbeInv'
    BY <1>1, <1>3, AbortedKeeps, EndedKeeps, CountsKept DEF ProbeInv
  <2> QED BY <2>1, <2>2, ProbeStep
<1>4. ASSUME source.queue # <<>>, source' = [source EXCEPT !.queue = Tail(@)],
             work' = [work EXCEPT !.at = "look", !.got = TRUE,
                                  !.taken = Append(@, Head(source.queue))]
      PROVE  SetupInv'
  <2> DEFINE taken == Append(work.taken, Head(source.queue))
             queue == Tail(source.queue)
  <2>1. source.queue \in Seq(Chunks) /\ work.taken \in Seq(Chunks)
    BY <1>1 DEF ProbeTypes, Sources, Works
  <2>2. /\ queue \in Seq(Chunks) /\ taken \in Seq(Chunks)
        /\ Len(queue) = Len(source.queue) - 1 /\ Len(taken) = Len(work.taken) + 1
        /\ Len(source.queue) \in Nat /\ Len(work.taken) \in Nat
    BY <1>4, <2>1
  <2>3. /\ source' = [source EXCEPT !.queue = queue]
        /\ work' = [work EXCEPT !.at = "look", !.got = TRUE, !.taken = taken]
    BY <1>4
  <2> DEFINE m == Len(work.taken)
             n == Len(source.queue)
  <2>4. m + n = source.sent /\ m \in Nat /\ n \in Nat /\ Len(queue) = n - 1
        /\ Len(taken) = m + 1
    BY <1>1, <2>2 DEF ProbeInv
  <2>5. queue \in Seq(Chunks) /\ taken \in Seq(Chunks)
    BY <2>2
  <2> HIDE DEF queue, taken, m, n
  <2>6. source' \in Sources /\ source'.queue = queue /\ source'.sent = source.sent
    <3>1. source \in Sources
      BY <1>1 DEF ProbeTypes
    <3> QED BY <3>1, <2>3, <2>5 DEF Sources
  <2>7. work' \in Works /\ work'.taken = taken /\ work'.at = "look"
    <3>1. work \in Works
      BY <1>1 DEF ProbeTypes
    <3> QED BY <3>1, <2>3, <2>5 DEF Works
  <2>8. ProbeTypes'
    BY <2>6, <2>7 DEF ProbeTypes
  <2>9. Len(work'.taken) + Len(source'.queue) = source'.sent
    BY <2>4, <2>6, <2>7
  <2>10. ProbeInv'
    BY <2>7, <2>9 DEF ProbeInv
  <2> QED BY <2>8, <2>10, ProbeStep
<1>5. CASE source.queue # <<>>
  <2>1. CASE Len(work.taken) = SourceMax \/ End[Head(source.queue)] = "bad"
    <3>1. \E reason \in Reasons \ {"none"} : source' = Aborted /\ work' = Ended(work, reason)
      BY <1>5, <2>1 DEF WorkerTakes, Reasons
    <3> QED BY <1>3, <1>5, <3>1
  <2>2. CASE ~(Len(work.taken) = SourceMax \/ End[Head(source.queue)] = "bad")
    BY <1>4, <1>5, <2>2 DEF WorkerTakes
  <2> QED BY <2>1, <2>2
<1> QED
  BY <1>2, <1>5

LEMMA WorkerLooksStep ==
  ASSUME SetupInv, Probing, UNCHANGED setupVars, NEW late \in BOOLEAN, WorkerLooks(late)
  PROVE  SetupInv'
<1> DEFINE w == Looked(work, late)
<1>1. ProbeTypes /\ ProbeInv /\ work.at = "look"
  BY DEF SetupInv, WorkerLooks
<1>2. /\ w \in Works /\ w.taken = work.taken /\ w.reason = work.reason
      /\ w.got = work.got
      /\ source.state \in {"lost", "overflow"} => w.pending # "none"
  BY <1>1, LookedKeeps
<1>3. source' = Stopping(w)
  BY DEF WorkerLooks
<1>4. /\ (~work.got /\ ReaderFinished) =>
           work' = [w EXCEPT !.at = "finish",
                      !.pending = IF ~w.stop /\ @ = "none" THEN "native_capture_lost" ELSE @]
      /\ ~(~work.got /\ ReaderFinished) => work' = [w EXCEPT !.at = "take"]
  BY DEF WorkerLooks
<1> HIDE DEF w
<1>5. /\ source' \in Sources /\ source'.queue = source.queue /\ source'.sent = source.sent
      /\ source'.state = source.state
  BY <1>1, <1>2, <1>3 DEF ProbeTypes, Sources, Works, Stopping
<1>6. /\ work' \in Works /\ work'.taken = work.taken /\ work'.at \in {"finish", "take"}
      /\ work'.at = "finish" => ReaderFinished /\ (w.pending # "none" => work'.pending # "none")
  BY <1>2, <1>4 DEF Works, Reasons
<1>7. ProbeTypes'
  BY <1>5, <1>6 DEF ProbeTypes
<1>8. work'.at = "finish" =>
        ReaderFinished' /\ (source'.state # "stopped" => work'.pending # "none")
  BY <1>2, <1>5, <1>6 DEF ReaderFinished
<1>9. ProbeInv'
  BY <1>1, <1>5, <1>6, <1>8, CountsKept DEF ProbeInv
<1> QED
  BY <1>7, <1>9, ProbeStep

LEMMA WorkerEndsStep ==
  ASSUME SetupInv, Probing, UNCHANGED setupVars,
         WorkerStarts \/ DrainTimesOut \/ WorkerFinishes
  PROVE  SetupInv'
<1>1. ProbeTypes /\ ProbeInv /\ work \in Works
  BY DEF SetupInv, ProbeTypes
<1>2. CASE WorkerStarts
  <2>1. CASE source' = [source EXCEPT !.state = "capturing"]
             /\ work' = [work EXCEPT !.at = "take"]
    <3>1. /\ source' \in Sources /\ source'.queue = source.queue
          /\ source'.sent = source.sent
      BY <1>1, <2>1 DEF ProbeTypes, Sources
    <3>2. work' \in Works /\ work'.taken = work.taken /\ work'.at = "take"
      BY <1>1, <2>1 DEF ProbeTypes, Works
    <3>3. ProbeTypes' /\ ProbeInv'
      BY <1>1, <3>1, <3>2, CountsKept DEF ProbeTypes, ProbeInv
    <3> QED BY <3>3, ProbeStep
  <2>2. CASE source' = [source EXCEPT !.state = "lost"]
             /\ work' = Ended(work, "source_start_failed")
    <3>1. /\ source' \in Sources /\ source'.queue = source.queue
          /\ source'.sent = source.sent
      BY <1>1, <2>2 DEF ProbeTypes, Sources
    <3>2. /\ work' \in Works /\ work'.taken = work.taken
          /\ work'.at = "done" /\ work'.reason # "none"
      BY <1>1, <2>2, EndedKeeps DEF Reasons
    <3>3. ProbeTypes' /\ ProbeInv'
      BY <1>1, <3>1, <3>2, CountsKept DEF ProbeTypes, ProbeInv
    <3> QED BY <3>3, ProbeStep
  <2> QED BY <1>2, <2>1, <2>2 DEF WorkerStarts
<1>3. CASE DrainTimesOut
  <2> DEFINE w == Looked(work, FALSE)
  <2>1. source' = Aborted /\ work' = Ended(w, "native_capture_lost")
        /\ w \in Works /\ w.taken = work.taken
    BY <1>1, <1>3, LookedKeeps DEF DrainTimesOut
  <2> HIDE DEF w
  <2>2. /\ source' \in Sources /\ source'.queue = source.queue /\ source'.sent = source.sent
        /\ work' \in Works /\ work'.taken = work.taken
        /\ work'.at = "done" /\ work'.reason # "none"
    BY <1>1, <2>1, AbortedKeeps, EndedKeeps DEF Reasons
  <2>3. ProbeTypes' /\ ProbeInv'
    BY <1>1, <2>2, CountsKept DEF ProbeTypes, ProbeInv
  <2> QED BY <2>3, ProbeStep
<1>4. CASE WorkerFinishes
  <2> DEFINE reason == IF ~AtBoundary THEN "pcap_framing"
                       ELSE IF source.state = "overflow" \/ source.queue # <<>>
                              THEN "queue_or_byte_loss" ELSE work.pending
  <2>1. source' = Aborted /\ work' = Ended(work, reason) /\ work.at = "finish"
    BY <1>4 DEF WorkerFinishes
  <2>2. reason \in Reasons
    BY <1>1 DEF ProbeTypes, Works, Reasons
  <2>3. ReaderFinished /\ (source.state # "stopped" => work.pending # "none")
    BY <1>1, <2>1 DEF ProbeInv
  <2>4. reason = "none" => source.state = "stopped" /\ source.queue = <<>>
    BY <2>3 DEF ReaderFinished
  <2> HIDE DEF reason
  <2>5. Aborted = source
    BY <1>1, <2>3, AbortedKeeps DEF ReaderFinished
  <2>6. /\ source' = source /\ work' \in Works /\ work'.taken = work.taken
        /\ work'.at = "done" /\ work'.reason = reason
    BY <1>1, <2>1, <2>2, <2>5, EndedKeeps
  <2>7. ProbeTypes' /\ ProbeInv'
    BY <1>1, <2>4, <2>6, CountsKept DEF ProbeTypes, ProbeInv
  <2> QED BY <2>7, ProbeStep
<1> QED
  BY <1>2, <1>3, <1>4

LEMMA ProbeMovesStep ==
  ASSUME SetupInv, ProbeMoves, UNCHANGED setupVars
  PROVE  SetupInv'
<1>1. Probing
  BY DEF ProbeMoves, WorkerTurn
<1>2. \/ ReaderDelivers \/ ReaderEnds \/ WorkerTakes \/ WorkerLooks(FALSE) \/ WorkerLooks(TRUE)
      \/ WorkerStarts \/ DrainTimesOut \/ WorkerFinishes
  BY DEF ProbeMoves, WorkerTurn, WorkerMoves, WorkerSteps
<1> QED
  BY <1>1, <1>2, ReaderSteps, WorkerTakesStep, WorkerLooksStep, WorkerEndsStep

(***************************************************************************)
(* The helper's steps.                                                     *)
(***************************************************************************)
\* Of a helper that lives there is no result yet.
LEMMA NoResultYet ==
  ASSUME SetupInv, HelperLives
  PROVE  /\ files.result = NoResult /\ NoResult.identity = NoIdentity
         /\ files \in Controls /\ helper \in Helpers /\ ProbeTypes /\ ProbeInv
BY DEF SetupInv, HelperInv, HelperLives, ControlTypes, NoResult, NoIdentity

LEMMA GivesUpStep ==
  ASSUME SetupInv, HelperLives, UNCHANGED <<setupVars, client, parent>>,
         NEW zero \in BOOLEAN, HelperGivesUp(zero), files' \in Controls,
         files'.result = files.result
  PROVE  SetupInv'
<1>1. ProbeTypes'
  BY SmallTypes DEF HelperGivesUp, ProbeTypes
<1>2. ProbeInv'
  BY DEF HelperGivesUp, ProbeInv, NoSource, NoWork
<1>3. helper' \in Helpers /\ helper'.at = "exited"
  BY NoResultYet DEF HelperGivesUp, HelperExits, Helpers
<1>4. HelperInv'
  BY <1>3, NoResultYet DEF HelperInv
<1> QED
  BY <1>1, <1>2, <1>3, <1>4, NoResultYet, HelperStep

\* The helper looks at what is told it, and may ask the reader to stop.
LEMMA LoopStep ==
  ASSUME SetupInv, helper.at = "loop", UNCHANGED <<setupVars, client, parent, work>>,
         UNCHANGED source \/ StopsSource,
         helper' \in Helpers, helper'.at = "loop",
         files' \in Controls, files'.result = files.result
  PROVE  SetupInv'
<1>1. HelperLives
  BY DEF HelperLives
<1>2. /\ source' \in Sources /\ source'.queue = source.queue /\ source'.sent = source.sent
      /\ source'.state = source.state
  BY <1>1, NoResultYet DEF StopsSource, ProbeTypes, Sources
<1>3. ProbeTypes'
  BY <1>1, <1>2, NoResultYet DEF ProbeTypes
<1>4. ProbeInv'
  BY <1>1, <1>2, NoResultYet, CountsKept DEF ProbeInv, ReaderFinished
<1>5. HelperInv'
  BY <1>1, NoResultYet DEF HelperInv
<1> QED
  BY <1>1, <1>3, <1>4, <1>5, NoResultYet, HelperStep

LEMMA PublishesStep ==
  ASSUME SetupInv, HelperPublishes, UNCHANGED setupVars
  PROVE  SetupInv'
<1>1. HelperLives /\ helper.at = "result" /\ UNCHANGED <<parent, client>>
  BY DEF HelperPublishes, HelperLives
<1>2. work.at = "done" /\ ProbeTypes /\ ProbeInv /\ files \in Controls /\ helper \in Helpers
  BY <1>1, NoResultYet DEF SetupInv, HelperInv
<1>3. CASE HelperGivesUp(FALSE) /\ files' = [files EXCEPT !.temporary = FALSE]
  <2>1. files' \in Controls /\ files'.result = files.result
    BY <1>2, <1>3 DEF Controls
  <2> QED BY <1>1, <1>3, <2>1, GivesUpStep
<1>4. CASE HelperExits(TRUE) /\ UNCHANGED probeVars
           /\ \E t \in {"cancelled", "complete"} :
                files' = [files EXCEPT !.temporary = FALSE,
                            !.result = [ResultOf(work.taken, work.reason) EXCEPT !.told = t]]
  <2> DEFINE r == ResultOf(work.taken, work.reason)
  <2>1. PICK t \in {"cancelled", "complete"} :
          files' = [files EXCEPT !.temporary = FALSE, !.result = [r EXCEPT !.told = t]]
    BY <1>4
  <2>2. work.taken \in Seq(Chunks) /\ work.reason \in Reasons
    BY <1>2 DEF ProbeTypes, Works
  <2>3. r \in Result /\ (r.identity # NoIdentity => Active(r.evidence) # {})
    BY <2>2, ResultSays
  <2> HIDE DEF r
  <2> DEFINE told == [r EXCEPT !.told = t]
  <2>4. told \in Result /\ told.identity = r.identity /\ told.evidence = r.evidence
    BY <2>3 DEF Result, Told
  <2>5. files' = [files EXCEPT !.temporary = FALSE, !.result = told]
    BY <2>1
  <2>6. told = [r EXCEPT !.told = t]
    OBVIOUS
  <2> HIDE DEF told
  <2>7. files' \in Controls /\ files'.result = told
    BY <1>2, <2>4, <2>5 DEF Controls
  <2>8. helper' \in Helpers /\ helper'.at = "exited"
    BY <1>2, <1>4 DEF HelperExits, Helpers
  <2>9. UNCHANGED <<source, work>>
    BY <1>4 DEF probeVars
  <2>10. ProbeTypes' /\ ProbeInv'
    BY <1>2, <2>9 DEF ProbeTypes, ProbeInv, ReaderFinished
  <2>11. HelperInv'
    <3>1. files'.result = [ResultOf(work'.taken, work'.reason) EXCEPT !.told = t]
      BY <2>6, <2>7, <2>9 DEF r
    <3> QED BY <1>2, <2>8, <2>9, <3>1 DEF HelperInv
  <2>12. files'.result.identity # NoIdentity => Active(files'.result.evidence) # {}
    BY <2>3, <2>4, <2>7
  <2> QED BY <1>1, <2>7, <2>8, <2>10, <2>11, <2>12, HelperStep
<1> QED
  BY <1>3, <1>4 DEF HelperPublishes

LEMMA HelperMovesStep ==
  ASSUME SetupInv, HelperMoves \/ HelperDies, UNCHANGED setupVars
  PROVE  SetupInv'
<1>1. CASE HelperBoots
  <2>1. helper.at = "boot" /\ HelperLives /\ UNCHANGED <<parent, files, client>>
    BY <1>1 DEF HelperBoots, HelperLives
  <2>2. CASE HelperGivesUp(FALSE)
    BY <2>1, <2>2, NoResultYet, GivesUpStep
  <2>3. CASE /\ helper' = [helper EXCEPT !.at = "loop"]
             /\ work' = [NoWork EXCEPT !.at = "start"] /\ UNCHANGED source
    <3>1. work' \in Works /\ work'.at = "start" /\ work'.taken = NoWork.taken
      BY <2>3, SmallTypes DEF Works
    <3>2. helper' \in Helpers /\ helper'.at = "loop"
      BY <2>1, <2>3, NoResultYet DEF Helpers
    <3>3. work.taken = <<>> /\ NoWork.taken = <<>>
      BY <2>1 DEF SetupInv, HelperInv, NoWork
    <3>4. ProbeTypes'
      BY <2>1, <2>3, <3>1, NoResultYet DEF ProbeTypes
    <3>5. ProbeInv'
      BY <2>1, <2>3, <3>1, <3>3, NoResultYet, CountsKept DEF ProbeInv
    <3>6. HelperInv'
      BY <2>1, <3>2, NoResultYet DEF HelperInv
    <3> QED BY <2>1, <3>2, <3>4, <3>5, <3>6, NoResultYet, HelperStep
  <2> QED BY <1>1, <2>2, <2>3 DEF HelperBoots
<1>2. CASE HelperTellsReady
  <2>1. /\ helper.at = "loop" /\ HelperLives /\ UNCHANGED <<parent, client, work>>
        /\ UNCHANGED source \/ StopsSource
    BY <1>2 DEF HelperTellsReady, InLoop, HelperLives
  <2>2. files' \in Controls /\ files'.result = files.result
    BY <1>2, <2>1, NoResultYet DEF HelperTellsReady, Controls
  <2>3. helper' \in Helpers /\ helper'.at = "loop"
    BY <1>2, <2>1, NoResultYet DEF HelperTellsReady, Helpers
  <2> QED BY <2>1, <2>2, <2>3, LoopStep
<1>3. CASE HelperSeesParentGone \/ HelperSeesCancel
  <2>1. /\ helper.at = "loop" /\ HelperLives /\ UNCHANGED <<parent, client, work, files>>
        /\ StopsSource
    BY <1>3 DEF HelperSeesParentGone, HelperSeesCancel, InLoop, HelperLives
  <2>2. helper' \in Helpers /\ helper'.at = "loop"
    BY <1>3, <2>1, NoResultYet DEF HelperSeesParentGone, HelperSeesCancel, Helpers
  <2> QED BY <2>1, <2>2, NoResultYet, LoopStep
<1>4. CASE HelperLeavesLoop
  <2>1. helper.at = "loop" /\ HelperLives /\ UNCHANGED <<parent, client>> /\ work.at = "done"
    BY <1>4 DEF HelperLeavesLoop, InLoop, HelperLives
  <2>2. CASE HelperGivesUp(helper.orphan) /\ UNCHANGED files
    <3>1. helper.orphan \in BOOLEAN
      BY <2>1, NoResultYet DEF Helpers
    <3> QED BY <2>1, <2>2, <3>1, NoResultYet, GivesUpStep
  <2>3. CASE /\ helper' = [helper EXCEPT !.at = "result"]
             /\ files' = [files EXCEPT !.temporary = TRUE] /\ UNCHANGED probeVars
    <3>1. files' \in Controls /\ files'.result = files.result
      BY <2>1, <2>3, NoResultYet DEF Controls
    <3>2. helper' \in Helpers /\ helper'.at = "result"
      BY <2>1, <2>3, NoResultYet DEF Helpers
    <3>3. UNCHANGED <<source, work>>
      BY <2>3 DEF probeVars
    <3>4. ProbeTypes' /\ ProbeInv'
      BY <2>1, <3>3, NoResultYet DEF ProbeTypes, ProbeInv, ReaderFinished
    <3>5. HelperInv'
      BY <2>1, <3>1, <3>2, <3>3, NoResultYet DEF HelperInv
    <3> QED BY <2>1, <3>1, <3>2, <3>4, <3>5, NoResultYet, HelperStep
  <2> QED BY <1>4, <2>2, <2>3 DEF HelperLeavesLoop
<1>5. CASE HelperDies
  BY <1>5, NoResultYet, GivesUpStep DEF HelperDies
<1> QED
  BY <1>1, <1>2, <1>3, <1>4, <1>5, PublishesStep DEF HelperMoves

(***************************************************************************)
(* The application's steps. First what they have in common.                *)
(***************************************************************************)
\* The list of steps is a function of event and stage.
LEMMA StepTaken ==
  ASSUME NEW f \in Flows, NEW s \in Steps, f.stage = s[2], s[3] \in PreCaptureStages
  PROVE  Step(f, s[1]) \in Flows /\ Step(f, s[1]).stage = s[3]
<1> DEFINE found == {t \in Steps : t[1] = s[1] /\ t[2] = f.stage}
<1>1. \A t \in Steps : t[1] = s[1] /\ t[2] = s[2] => t = s
  BY DEF Steps
<1>2. found = {s}
  BY <1>1
<1>3. (CHOOSE t \in found : TRUE) = s /\ found # {}
  BY <1>2
<1>4. \/ Step(f, s[1]) = [f EXCEPT !.stage = s[3], !.problem = "none"]
      \/ Step(f, s[1]) = [f EXCEPT !.stage = s[3], !.problem = f.problem]
  BY <1>3 DEF Step
<1> QED
  BY <1>4 DEF Flows

\* The parts that a step of the application disturbs when the client and the files stay.
LEMMA ControlStays ==
  ASSUME SetupInv, UNCHANGED Control, gesture' \in {gesture, {}}, setup'.at = setup.at,
         flow' \in Flows, cert' \in Certifications, setup' \in Setups,
         FlowInv', MouseInv', CertifiedIsEarned'
  PROVE  SetupInv'
<1>1. UNCHANGED <<source, work, parent, files, helper, client>>
  BY DEF Control, probeVars, controlVars
<1>2. ProbeTypes' /\ ControlTypes' /\ SetupTypes'
  BY <1>1 DEF SetupInv, ProbeTypes, ControlTypes, SetupTypes
<1>3. ProbeInv' /\ HelperInv'
  BY <1>1 DEF SetupInv, ProbeInv, HelperInv, ReaderFinished
<1>4. ClientInv'
  BY <1>1 DEF SetupInv, ClientInv
<1>5. ProbeLeavesNothing'
  BY <1>1 DEF SetupInv, ProbeLeavesNothing, HelperLives
<1>6. ProbeAndFlowAgree'
  BY <1>1 DEF SetupInv, ProbeAndFlowAgree, FlowInv, SettingsStages
<1> QED
  BY <1>2, <1>3, <1>4, <1>5, <1>6 DEF SetupInv

\* Before the settings nothing is claimed of the certification.
LEMMA NotYetEarned ==
  ASSUME flow'.stage \notin SettingsStages
  PROVE  CertifiedIsEarned'
BY DEF CertifiedIsEarned, SettingsStages

\* The parts that a step disturbs in which the client looks at the files.
LEMMA ClientLooks ==
  ASSUME SetupInv, UNCHANGED <<probeVars, parent, helper>>,
         client' \in Clients, client'.handle, client'.state # "none",
         client'.result # NoResult => client'.ready /\ client'.result = files.result,
         files' \in Controls, files'.result = files.result,
         SetupTypes', FlowInv', MouseInv'
  PROVE  SetupInv'
<1>1. UNCHANGED <<source, work, parent, helper>>
  BY DEF probeVars
<1>2. ProbeTypes' /\ ControlTypes'
  BY <1>1 DEF SetupInv, ProbeTypes, ControlTypes
<1>3. ProbeInv' /\ HelperInv'
  BY <1>1 DEF SetupInv, ProbeInv, HelperInv, ReaderFinished
<1>4. ClientInv' /\ ProbeLeavesNothing'
  BY DEF ClientInv, ProbeLeavesNothing
<1>5. CertifiedIsEarned'
  BY NotYetEarned DEF FlowInv, SettingsStages
<1>6. ProbeAndFlowAgree'
  BY DEF SetupInv, ProbeAndFlowAgree, FlowInv, SettingsStages
<1> QED
  BY <1>2, <1>3, <1>4, <1>5, <1>6 DEF SetupInv

\* ObserveFiles only adds to what the client knows.
LEMMA ObservingKeeps ==
  ASSUME files \in Controls, NEW c \in Clients, c.handle, c.state # "none",
         c.result # NoResult => c.ready /\ c.result = files.result
  PROVE  /\ Observing(c) \in Clients /\ Observing(c).handle /\ Observing(c).state # "none"
         /\ Observing(c).result # NoResult =>
              Observing(c).ready /\ Observing(c).result = files.result
         /\ Cancelling(c) \in Controls /\ Cancelling(c).result = files.result
<1> DEFINE ready == c.ready \/ files.ready = "whole"
           known == IF ready /\ c.result = NoResult THEN files.result ELSE c.result
           state == IF ready /\ c.state = "starting" THEN "running" ELSE c.state
           written == c.written \/ (ready /\ c.cancel)
<1>1. \/ Observing(c) = c
      \/ Observing(c) = [c EXCEPT !.ready = ready, !.state = state, !.written = written,
                                  !.result = known]
  BY DEF Observing
<1>2. /\ ready \in BOOLEAN /\ written \in BOOLEAN /\ known \in Result
      /\ state \in {"starting", "running", "cancel_requested"}
      /\ known # NoResult => ready /\ known = files.result
  BY DEF Clients, Controls
<1> HIDE DEF ready, known, state, written
<1>3. /\ Observing(c) \in Clients /\ Observing(c).handle /\ Observing(c).state # "none"
      /\ Observing(c).result # NoResult =>
           Observing(c).ready /\ Observing(c).result = files.result
  BY <1>1, <1>2 DEF Clients
<1>4. Cancelling(c) \in Controls /\ Cancelling(c).result = files.result
  BY <1>3 DEF Cancelling, Controls, Clients
<1> QED
  BY <1>3, <1>4

\* The client's own part of the invariant.
LEMMA ClientFacts ==
  ASSUME SetupInv
  PROVE  /\ files \in Controls /\ client \in Clients /\ helper \in Helpers
         /\ client.handle <=> client.state # "none"
         /\ client.result # NoResult => client.ready /\ client.result = files.result
         /\ flow \in Flows /\ cert \in Certifications /\ setup \in Setups
         /\ gesture \in SUBSET Actions
BY DEF SetupInv, ControlTypes, ClientInv, SetupTypes

\* A request to cancel, of a process that runs.
LEMMA RequestLooks ==
  ASSUME SetupInv, client.handle, RequestsCancel
  PROVE  /\ client' \in Clients /\ client'.handle /\ client'.state # "none"
         /\ client'.result # NoResult => client'.ready /\ client'.result = files.result
         /\ files' \in Controls /\ files'.result = files.result
<1> DEFINE asked == [client EXCEPT !.cancel = TRUE, !.state = "cancel_requested"]
<1>1. /\ asked \in Clients /\ asked.handle /\ asked.state # "none"
      /\ asked.result # NoResult => asked.ready /\ asked.result = files.result
  BY ClientFacts DEF Clients
<1>2. client' = Observing(asked) /\ files' = Cancelling(asked)
  BY DEF RequestsCancel
<1> HIDE DEF asked
<1> QED
  BY <1>1, <1>2, ClientFacts, ObservingKeeps

\* The process of the application ends.
LEMMA EndsStep ==
  ASSUME SetupInv, NEW how \in {"gone", "lost"}, ApplicationEnds(how),
         ProbeTypes', ProbeInv', HelperInv', files' \in Controls, helper' \in Helpers,
         files'.result.identity # NoIdentity => Active(files'.result.evidence) # {},
         how = "gone" => /\ ~HelperLives'
                         /\ files' = [NoFiles EXCEPT !.temporary = files'.temporary]
  PROVE  SetupInv'
<1>1. /\ setup' \in Setups /\ setup'.at = how /\ ~setup'.scanning /\ ~setup'.sampling
      /\ flow' = NewFlow /\ cert' = NoCertification /\ gesture' = {} /\ client' = NoClient
      /\ parent' = FALSE
  BY SmallTypes DEF ApplicationEnds, Setups, NewSetup
<1>2. ControlTypes' /\ SetupTypes'
  BY <1>1, SmallTypes DEF ControlTypes, SetupTypes
<1>3. ClientInv'
  BY <1>1 DEF ClientInv, NoClient
<1>4. FlowInv' /\ MouseInv'
  BY <1>1 DEF FlowInv, MouseInv, NoClient, NewFlow, NoCertification, SettingsStages
<1>5. CertifiedIsEarned'
  BY <1>1, NotYetEarned DEF NewFlow, SettingsStages
<1>6. ProbeAndFlowAgree'
  BY <1>1 DEF ProbeAndFlowAgree, NoCertification
<1>7. ProbeLeavesNothing'
  BY <1>1 DEF ProbeLeavesNothing
<1> QED
  BY <1>2, <1>3, <1>4, <1>5, <1>6, <1>7 DEF SetupInv

\* On which screens a choice is offered.
LEMMA WhereOffered ==
  ASSUME flow \in Flows, NEW a, Click(a)
  PROVE  /\ setup.at = "pump"
         /\ \/ flow.stage = "welcome_privacy" /\ a \in {"exit", "accept"}
            \/ flow.stage = "choose_mouse" /\ a \in {"select", "refresh", "cancel"}
            \/ flow.stage = "certification_ready" /\ a \in {"begin", "choose", "cancel"}
            \/ flow.stage = "certifying" /\ a = "cancel"
            \/ flow.stage = "certification_needs_action" /\ a \in {"retry", "choose", "cancel"}
            \/ flow.stage = "configure_session" /\ a = "confirm"
            \/ flow.stage = "ready_to_start" /\ a = "edit"
            \/ flow.stage = "cancelled" /\ a = "done"
<1>1. setup.at = "pump" /\ a \in Offered(flow)
  BY DEF Click
<1>2. flow.stage \in {"welcome_privacy", "choose_mouse", "certification_ready", "certifying",
         "certification_needs_action", "configure_session", "ready_to_start", "cancelled"}
  BY DEF Flows, PreCaptureStages
<1>3. CASE flow.stage = "welcome_privacy"
  BY <1>1, <1>3 DEF Offered
<1>4. CASE flow.stage = "choose_mouse"
  BY <1>1, <1>4 DEF Offered
<1>5. CASE flow.stage = "certification_ready"
  BY <1>1, <1>5 DEF Offered
<1>6. CASE flow.stage = "certifying"
  BY <1>1, <1>6 DEF Offered
<1>7. CASE flow.stage = "certification_needs_action"
  BY <1>1, <1>7 DEF Offered
<1>8. CASE flow.stage = "configure_session"
  BY <1>1, <1>8 DEF Offered
<1>9. CASE flow.stage = "ready_to_start"
  BY <1>1, <1>9 DEF Offered
<1>10. CASE flow.stage = "cancelled"
  BY <1>1, <1>10 DEF Offered
<1> QED
  BY <1>1, <1>2, <1>3, <1>4, <1>5, <1>6, <1>7, <1>8, <1>9, <1>10

\* Off the screen of the check and of the end there is no probe.
LEMMA NoProbe ==
  ASSUME SetupInv, flow.stage \notin {"certifying", "cancelled"}
  PROVE  ~client.handle /\ client.state = "none" /\ ~setup.sampling
BY DEF SetupInv, FlowInv, ClientInv, MouseInv

(***************************************************************************)
(* The startup check and the list of mice.                                 *)
(***************************************************************************)
\* What the settings rest on stays with the members of the application it is about.
LEMMA EarnedKept ==
  ASSUME SetupInv, UNCHANGED <<Control, gesture, cert>>, flow.stage \in SettingsStages,
         setup'.success = setup.success, setup'.routes = setup.routes,
         setup'.selected = setup.selected
  PROVE  CertifiedIsEarned'
<1>1. UNCHANGED <<source, work>>
  BY DEF Control, probeVars
<1> QED
  BY <1>1 DEF SetupInv, CertifiedIsEarned, SettingsStages

LEMMA RecoveryStep ==
  ASSUME SetupInv, PollAbandonedSessionRecovery
  PROVE  SetupInv'
<1>1. /\ setup' \in Setups /\ setup'.at = setup.at /\ setup'.scanning = setup.scanning
      /\ setup'.success = setup.success /\ setup'.routes = setup.routes
      /\ setup'.selected = setup.selected /\ setup'.sampling = setup.sampling
      /\ setup'.raw = setup.raw
  BY ClientFacts DEF PollAbandonedSessionRecovery, FinalCloseIfRequested, Setups
<1>2. UNCHANGED <<Control, flow, cert, gesture, client>>
  BY DEF PollAbandonedSessionRecovery, Control, controlVars
<1>3. FlowInv' /\ MouseInv'
  BY <1>1, <1>2 DEF SetupInv, FlowInv, MouseInv
<1>4. CertifiedIsEarned'
  BY <1>1, <1>2, EarnedKept, NotYetEarned
<1> QED
  BY <1>1, <1>2, <1>3, <1>4, ClientFacts, ControlStays

\* A scan that is started changes nothing else.
LEMMA ScanStarts ==
  ASSUME setup \in Setups
  PROVE  /\ Scanning(setup) \in Setups
         /\ \A s \in {Scanning(setup)} :
              /\ s.at = setup.at /\ s.success = setup.success /\ s.routes = setup.routes
              /\ s.selected = setup.selected /\ s.sampling = setup.sampling
              /\ s.raw = setup.raw
<1>1. Scanning(setup) \in {setup, [setup EXCEPT !.scanning = TRUE]}
  BY DEF Scanning
<1>2. \A s \in {setup, [setup EXCEPT !.scanning = TRUE]} :
        /\ s \in Setups /\ s.at = setup.at /\ s.success = setup.success
        /\ s.routes = setup.routes /\ s.selected = setup.selected
        /\ s.sampling = setup.sampling /\ s.raw = setup.raw
  BY DEF Setups
<1> QED
  BY <1>1, <1>2

LEMMA ListStep ==
  ASSUME SetupInv, AcceptPrivacy \/ RefreshMouseList
  PROVE  SetupInv'
<1>1. /\ setup' \in Setups /\ setup'.at = setup.at /\ setup'.success = setup.success
      /\ setup'.routes = setup.routes /\ setup'.selected = setup.selected
      /\ setup'.sampling = setup.sampling /\ setup'.raw = setup.raw
  BY ClientFacts, ScanStarts DEF AcceptPrivacy, RefreshMouseList
<1>2. UNCHANGED <<Control, cert, gesture, client>>
  BY DEF AcceptPrivacy, RefreshMouseList, Control, controlVars
<1>3. setup.at = "pump" /\ flow.stage \in {"welcome_privacy", "choose_mouse"}
      /\ flow' \in Flows /\ flow'.stage = "choose_mouse"
  <2>1. CASE AcceptPrivacy
    <3>1. /\ setup.at = "pump" /\ flow.stage = "welcome_privacy"
          /\ flow' = Step(flow, "accept_privacy")
      BY <2>1, ClientFacts, WhereOffered DEF AcceptPrivacy
    <3>2. <<"accept_privacy", "welcome_privacy", "choose_mouse">> \in Steps
      BY DEF Steps
    <3> QED BY <3>1, <3>2, ClientFacts, StepTaken DEF PreCaptureStages
  <2>2. CASE RefreshMouseList
    BY <2>2, ClientFacts, WhereOffered DEF RefreshMouseList
  <2> QED BY <2>1, <2>2
<1>4. FlowInv' /\ MouseInv'
  BY <1>1, <1>2, <1>3, NoProbe DEF SetupInv, FlowInv, MouseInv, SettingsStages, Setups
<1>5. CertifiedIsEarned'
  BY <1>3, NotYetEarned DEF SettingsStages
<1> QED
  BY <1>1, <1>2, <1>3, <1>4, <1>5, ClientFacts, ControlStays

LEMMA ScanStep ==
  ASSUME SetupInv, PollInventoryScan
  PROVE  SetupInv'
<1>1. PICK found \in Inventories \cup {NoInventory} :
        setup' = [setup EXCEPT !.scanning = FALSE, !.inventory = found,
                               !.selected = NoMouse, !.routes = FALSE]
  BY DEF PollInventoryScan
<1>2. /\ setup' \in Setups /\ setup'.at = setup.at /\ ~setup'.scanning
      /\ setup'.sampling = setup.sampling /\ setup'.raw = setup.raw
  BY <1>1, ClientFacts DEF Setups
<1>3. UNCHANGED <<Control, flow, cert, gesture, client>>
  BY DEF PollInventoryScan, Control, controlVars
<1>4. flow.stage \in {"choose_mouse", "cancelled"}
  BY DEF PollInventoryScan, SetupInv, MouseInv
<1>5. FlowInv' /\ MouseInv'
  BY <1>2, <1>3, <1>4 DEF SetupInv, FlowInv, MouseInv
<1>6. CertifiedIsEarned'
  BY <1>3, <1>4, NotYetEarned DEF SettingsStages
<1> QED
  BY <1>2, <1>3, <1>5, <1>6, ClientFacts, ControlStays

LEMMA SelectStep ==
  ASSUME SetupInv, SelectMouse
  PROVE  SetupInv'
<1>1. PICK m \in setup.inventory.present :
        LET c == Prepare(setup.inventory.complete, TRUE, Topologies(m))
        IN /\ c.state = "awaiting_probe" /\ cert' = c
           /\ setup' = [setup EXCEPT !.selected = m, !.success = FALSE, !.routes = FALSE]
           /\ flow' = Step(flow, "select_mouse")
  BY DEF SelectMouse
<1>2. setup.at = "pump" /\ flow.stage = "choose_mouse" /\ ~setup.scanning
  BY ClientFacts, WhereOffered DEF SelectMouse
<1>3. m \in Mice /\ m # NoMouse
  <2>1. setup.inventory \in Inventories \/ setup.inventory = NoInventory
    BY ClientFacts DEF Setups
  <2> QED BY <2>1, InventoryAssumption DEF NoInventory, Mice
<1>4. cert'.state = "awaiting_probe" /\ cert' \in Certifications
  <2> DEFINE c == Prepare(setup.inventory.complete, TRUE, Topologies(m))
  <2>1. NoCertification \in Certifications
    BY SmallTypes
  <2>2. \A issue \in PreparationIssues :
          [NoCertification EXCEPT !.state = "preparation_failed", !.issue = issue]
            \in Certifications
    BY <2>1 DEF Certifications, CertificationStates
  <2>3. [NoCertification EXCEPT !.state = "awaiting_probe"] \in Certifications
    BY <2>1 DEF Certifications, CertificationStates
  <2>4. \/ c = [NoCertification EXCEPT !.state = "awaiting_probe"]
        \/ \E issue \in PreparationIssues :
             c = [NoCertification EXCEPT !.state = "preparation_failed", !.issue = issue]
    BY DEF Prepare, PreparationIssues
  <2> QED BY <1>1, <2>2, <2>3, <2>4
<1>5. flow' \in Flows /\ flow'.stage = "certification_ready"
  <2>1. <<"select_mouse", "choose_mouse", "certification_ready">> \in Steps
    BY DEF Steps
  <2> QED BY <1>1, <1>2, <2>1, ClientFacts, StepTaken DEF PreCaptureStages
<1>6. /\ setup' \in Setups /\ setup'.at = setup.at /\ ~setup'.scanning
      /\ setup'.selected # NoMouse /\ setup'.sampling = setup.sampling
  BY <1>1, <1>2, <1>3, ClientFacts DEF Setups
<1>7. UNCHANGED <<Control, gesture, client>> /\ ~client.handle /\ ~setup.sampling
  BY <1>2, NoProbe DEF SelectMouse, Control, controlVars
<1>8. FlowInv' /\ MouseInv'
  BY <1>2, <1>4, <1>5, <1>6, <1>7 DEF FlowInv, MouseInv, SettingsStages
<1>9. CertifiedIsEarned'
  BY <1>5, NotYetEarned DEF SettingsStages
<1> QED
  BY <1>4, <1>5, <1>6, <1>7, <1>8, <1>9, ControlStays

(***************************************************************************)
(* The participant's other choices.                                        *)
(***************************************************************************)
LEMMA RetryStep ==
  ASSUME SetupInv, RetryCertification
  PROVE  SetupInv'
<1>1. setup.at = "pump" /\ flow.stage = "certification_needs_action"
  BY ClientFacts, WhereOffered DEF RetryCertification
<1>2. flow' \in Flows /\ flow'.stage = "certification_ready"
  <2>1. <<"retry_certification", "certification_needs_action", "certification_ready">> \in Steps
    BY DEF Steps
  <2> QED BY <1>1, <2>1, ClientFacts, StepTaken DEF PreCaptureStages, RetryCertification
<1>3. cert.state # "certified"
  BY <1>1 DEF SetupInv, FlowInv, SettingsStages
<1>4. cert' \in Certifications /\ cert'.state # "certified"
  BY <1>3, ClientFacts, SmallTypes
  DEF RetryCertification, Retry, Certifications, CertificationStates
<1>5. UNCHANGED <<Control, setup, gesture, client>>
  BY DEF RetryCertification, Control, controlVars
<1>6. FlowInv' /\ MouseInv'
  BY <1>1, <1>2, <1>4, <1>5, NoProbe DEF SetupInv, FlowInv, MouseInv, SettingsStages
<1>7. CertifiedIsEarned'
  BY <1>2, NotYetEarned DEF SettingsStages
<1> QED
  BY <1>2, <1>4, <1>5, <1>6, <1>7, ClientFacts, ControlStays

LEMMA ConfiguresStep ==
  ASSUME SetupInv, Configures
  PROVE  SetupInv'
<1>1. setup.at = "pump" /\ flow.stage \in SettingsStages
  BY ClientFacts, WhereOffered DEF Configures, SettingsStages
<1>2. flow' \in Flows /\ flow'.stage \in SettingsStages
  <2>1. CASE flow' = ConfirmConfiguration(flow)
    BY <1>1, <2>1, ClientFacts
    DEF ConfirmConfiguration, SettingsStages, Flows, PreCaptureStages
  <2>2. CASE Click("edit") /\ flow' = Step(flow, "edit_configuration")
    <3>1. flow.stage = "ready_to_start"
      BY <2>2, ClientFacts, WhereOffered
    <3>2. <<"edit_configuration", "ready_to_start", "configure_session">> \in Steps
      BY DEF Steps
    <3> QED
      BY <2>2, <3>1, <3>2, ClientFacts, StepTaken DEF PreCaptureStages, SettingsStages
  <2> QED BY <2>1, <2>2 DEF Configures
<1>3. UNCHANGED <<Control, cert, setup, gesture, client>>
  BY DEF Configures, Control, controlVars
<1>4. FlowInv' /\ MouseInv'
  BY <1>1, <1>2, <1>3, SettingsAreQuiet DEF SetupInv, FlowInv, MouseInv, SettingsStages
<1>5. CertifiedIsEarned'
  BY <1>1, <1>3, EarnedKept
<1> QED
  BY <1>2, <1>3, <1>4, <1>5, ClientFacts, ControlStays

LEMMA DoneStep ==
  ASSUME SetupInv, Done
  PROVE  SetupInv'
<1>1. setup.at = "pump" /\ flow.stage = "cancelled"
  BY ClientFacts, WhereOffered DEF Done
<1>2. /\ setup' \in Setups /\ setup'.at = setup.at /\ setup'.scanning = setup.scanning
      /\ setup'.selected = setup.selected /\ setup'.sampling = setup.sampling
      /\ setup'.raw = setup.raw
  BY ClientFacts DEF Done, Setups
<1>3. UNCHANGED <<Control, flow, cert, gesture, client>>
  BY DEF Done, Control, controlVars
<1>4. FlowInv' /\ MouseInv'
  BY <1>2, <1>3 DEF SetupInv, FlowInv, MouseInv
<1>5. CertifiedIsEarned'
  BY <1>1, <1>3, NotYetEarned DEF SettingsStages
<1> QED
  BY <1>2, <1>3, <1>4, <1>5, ClientFacts, ControlStays

LEMMA ChooseStep ==
  ASSUME SetupInv, ChooseDifferentMouse
  PROVE  SetupInv'
<1>1. setup.at = "pump" /\ flow.stage \in {"certification_ready", "certification_needs_action"}
  BY ClientFacts, WhereOffered DEF ChooseDifferentMouse
<1>2. flow' \in Flows /\ flow'.stage = "choose_mouse"
  <2>1. <<"choose_different_mouse", "certification_ready", "choose_mouse">> \in Steps
        /\ <<"choose_different_mouse", "certification_needs_action", "choose_mouse">> \in Steps
    BY DEF Steps
  <2>2. flow' = Step(flow, "choose_different_mouse")
    BY DEF ChooseDifferentMouse
  <2>3. CASE flow.stage = "certification_ready"
    BY <2>1, <2>2, <2>3, ClientFacts, StepTaken DEF PreCaptureStages
  <2>4. CASE flow.stage = "certification_needs_action"
    BY <2>1, <2>2, <2>4, ClientFacts, StepTaken DEF PreCaptureStages
  <2> QED BY <1>1, <2>3, <2>4
<1>3. ~client.handle /\ ~setup.sampling
  BY <1>1, NoProbe
<1>4. UNCHANGED <<Control, gesture, client>>
  BY <1>3 DEF ChooseDifferentMouse, RequestsCancel, Control, controlVars
<1>5. cert' = NoCertification /\ cert' \in Certifications
  BY SmallTypes DEF ChooseDifferentMouse
<1>6. /\ setup' \in Setups /\ setup'.at = setup.at /\ setup'.sampling = setup.sampling
  BY ClientFacts DEF ChooseDifferentMouse, Setups
<1>7. FlowInv' /\ MouseInv'
  BY <1>1, <1>2, <1>3, <1>4, <1>5, <1>6
  DEF FlowInv, MouseInv, SettingsStages, NoCertification
<1>8. CertifiedIsEarned'
  BY <1>2, NotYetEarned DEF SettingsStages
<1> QED
  BY <1>2, <1>4, <1>5, <1>6, <1>7, <1>8, ControlStays

LEMMA CancelsStep ==
  ASSUME SetupInv, Cancels
  PROVE  SetupInv'
<1>1. setup.at = "pump"
      /\ flow.stage \in {"choose_mouse", "certification_ready", "certifying",
                         "certification_needs_action"}
  BY ClientFacts, WhereOffered DEF Cancels
<1>2. flow' \in Flows /\ flow'.stage = "cancelled"
  BY <1>1, ClientFacts DEF Cancels, Cancel, Flows, PreCaptureStages
<1>3. cert.state # "certified"
  BY <1>1 DEF SetupInv, FlowInv, SettingsStages
<1>4. /\ cert' \in Certifications /\ cert'.state # "certified"
      /\ cert.state # "none" => cert'.state = "cancelled"
  BY <1>3, ClientFacts, SmallTypes
  DEF Cancels, CancelCertification, Certifications, CertificationStates, PreparationIssues
<1>5. client.handle => cert'.state = "cancelled"
  BY <1>1, <1>4 DEF SetupInv, FlowInv
<1>6. UNCHANGED <<probeVars, parent, helper, setup, gesture>> /\ RequestsCancel
  BY DEF Cancels
<1>7. MouseInv' /\ FlowInv'
  <2>1. client'.handle <=> client.handle
    <3>1. CASE client.handle
      BY <1>6, <3>1, RequestLooks
    <3>2. CASE ~client.handle
      BY <1>6, <3>2 DEF RequestsCancel
    <3> QED BY <3>1, <3>2
  <2> QED
    BY <1>1, <1>2, <1>4, <1>5, <1>6, <2>1 DEF SetupInv, FlowInv, MouseInv, SettingsStages
<1>8. CertifiedIsEarned'
  BY <1>2, NotYetEarned DEF SettingsStages
<1>9. CASE ~client.handle
  <2>1. UNCHANGED <<Control, gesture, setup>>
    BY <1>6, <1>9 DEF RequestsCancel, Control, controlVars
  <2> QED BY <1>2, <1>4, <1>7, <1>8, <2>1, ClientFacts, ControlStays
<1>10. CASE client.handle
  <2>1. SetupTypes'
    BY <1>2, <1>4, <1>6, ClientFacts DEF SetupTypes
  <2> QED BY <1>6, <1>7, <1>10, <2>1, RequestLooks, ClientLooks
<1> QED
  BY <1>9, <1>10

(***************************************************************************)
(* While a probe runs.                                                     *)
(***************************************************************************)
LEMMA MouseStep ==
  ASSUME SetupInv, MouseActs
  PROVE  SetupInv'
<1>1. PICK what \in {"moved", "clicked"} \ gesture :
        /\ gesture' = gesture \cup {what}
        /\ setup' = [setup EXCEPT !.raw = IF setup.sampling THEN @ \cup {what} ELSE @]
  BY DEF MouseActs
<1>2. /\ setup.at = "pump" /\ client.state # "none" /\ client.handle
      /\ UNCHANGED <<probeVars, parent, files, helper, client, flow, cert>>
  BY ClientFacts DEF MouseActs, Control, controlVars
<1>3. /\ setup' \in Setups /\ setup'.at = setup.at /\ setup'.scanning = setup.scanning
      /\ setup'.selected = setup.selected /\ setup'.sampling = setup.sampling
      /\ setup'.raw = IF setup.sampling THEN setup.raw \cup {what} ELSE setup.raw
  BY <1>1, ClientFacts DEF Setups, Actions
<1>4. SetupTypes'
  BY <1>1, <1>2, <1>3, ClientFacts DEF SetupTypes, Actions
<1>5. FlowInv' /\ MouseInv'
  BY <1>1, <1>2, <1>3 DEF SetupInv, FlowInv, MouseInv
<1> QED
  BY <1>2, <1>4, <1>5, ClientFacts, ClientLooks

LEMMA ObservesStep ==
  ASSUME SetupInv, PollObserves
  PROVE  SetupInv'
<1>1. client.handle /\ client.state # "none" /\ setup.at = "pump"
  BY ClientFacts DEF PollObserves
<1>2. /\ client' \in Clients /\ client'.handle /\ client'.state # "none"
      /\ client'.result # NoResult => client'.ready /\ client'.result = files.result
      /\ files' \in Controls /\ files'.result = files.result
  BY <1>1, ClientFacts, ObservingKeeps DEF PollObserves
<1>3. /\ setup' \in Setups /\ setup'.at = "poll" /\ setup'.scanning = setup.scanning
      /\ setup'.selected = setup.selected /\ setup'.sampling = setup.sampling
      /\ setup'.raw = setup.raw
  BY ClientFacts DEF PollObserves, Setups
<1>4. UNCHANGED <<probeVars, parent, helper, flow, cert, gesture>>
  BY DEF PollObserves
<1>5. SetupTypes'
  BY <1>3, <1>4, ClientFacts DEF SetupTypes
<1>6. FlowInv' /\ MouseInv'
  BY <1>1, <1>2, <1>3, <1>4 DEF SetupInv, FlowInv, MouseInv
<1> QED
  BY <1>2, <1>4, <1>5, <1>6, ClientLooks

(***************************************************************************)
(* The check begins.                                                       *)
(***************************************************************************)
LEMMA StartStep ==
  ASSUME SetupInv, StartCertification
  PROVE  SetupInv'
<1>1. /\ setup.at = "pump" /\ flow.stage = "certification_ready"
      /\ cert.state = "awaiting_probe" /\ gesture' = {} /\ UNCHANGED parent
      /\ setup' = [setup EXCEPT !.checks = @ + 1]
  BY ClientFacts, WhereOffered DEF StartCertification
<1>2. /\ setup' \in Setups /\ setup'.at = setup.at /\ ~setup'.scanning /\ ~setup'.sampling
      /\ setup'.selected # NoMouse
  BY <1>1, ClientFacts, NoProbe DEF SetupInv, MouseInv, Setups
<1> DEFINE f == Step(flow, "begin_certification")
<1>3. f \in Flows /\ f.stage = "certifying"
  <2>1. <<"begin_certification", "certification_ready", "certifying">> \in Steps
    BY DEF Steps
  <2> QED BY <1>1, <2>1, ClientFacts, StepTaken DEF PreCaptureStages
<1>4. CASE StartsProbe /\ flow' = f /\ UNCHANGED cert
  <2>1. /\ source' = NoSource /\ work' = NoWork /\ files' = [NoFiles EXCEPT !.made = TRUE]
        /\ helper' = [NoHelper EXCEPT !.at = "boot"]
        /\ client' = [NoClient EXCEPT !.state = "starting", !.handle = TRUE]
    BY <1>4 DEF StartsProbe
  <2>2. /\ client' \in Clients /\ client'.handle /\ client'.state = "starting"
        /\ client'.result = NoResult
    BY <2>1, SmallTypes DEF NoClient, Clients
  <2>3. /\ files' \in Controls /\ files'.result = NoResult
        /\ helper' \in Helpers /\ helper'.at = "boot"
    BY <2>1, SmallTypes DEF NoFiles, Controls, NoHelper, Helpers
  <2>4. ProbeTypes' /\ ControlTypes' /\ SetupTypes'
    BY <1>1, <1>2, <1>3, <1>4, <2>1, <2>2, <2>3, SmallTypes, ClientFacts
    DEF ProbeTypes, ControlTypes, SetupTypes, SetupInv
  <2>5. ProbeInv' /\ HelperInv'
    BY <2>1, <2>3 DEF ProbeInv, HelperInv, NoSource, NoWork
  <2>6. ClientInv' /\ FlowInv' /\ MouseInv'
    BY <1>1, <1>2, <1>3, <1>4, <2>2 DEF ClientInv, FlowInv, MouseInv, SettingsStages
  <2>7. ProbeLeavesNothing' /\ ProbeAndFlowAgree'
    BY <1>1, <1>4, <2>2, <2>3 DEF ProbeLeavesNothing, ProbeAndFlowAgree, NoResult, NoIdentity
  <2>8. CertifiedIsEarned'
    BY <1>3, <1>4, NotYetEarned DEF SettingsStages
  <2> QED BY <2>4, <2>5, <2>6, <2>7, <2>8 DEF SetupInv
<1>5. ASSUME NEW denied \in BOOLEAN, flow' = FailedFlow(f, denied), cert' = FailedCert(cert),
             UNCHANGED <<probeVars, files, helper, client>>
      PROVE  SetupInv'
  <2>1. flow' \in Flows /\ flow'.stage = "certification_needs_action"
    <3> HIDE DEF f
    <3> QED
      BY <1>3, <1>5 DEF FailedFlow, CertificationFailed, Flows, PreCaptureStages, Problems
  <2>2. cert' \in Certifications /\ cert'.state # "certified"
    BY <1>1, <1>5, ClientFacts, FailedIsNotCertified
  <2>3. UNCHANGED <<Control, client>> /\ ~client.handle
    BY <1>1, <1>5, NoProbe DEF Control, controlVars
  <2>4. FlowInv' /\ MouseInv'
    BY <1>1, <1>2, <2>1, <2>2, <2>3 DEF FlowInv, MouseInv, SettingsStages
  <2>5. CertifiedIsEarned'
    BY <2>1, NotYetEarned DEF SettingsStages
  <2> QED BY <1>1, <1>2, <2>1, <2>2, <2>3, <2>4, <2>5, ControlStays
<1> QED
  BY <1>4, <1>5 DEF StartCertification

(***************************************************************************)
(* The end.                                                                *)
(***************************************************************************)
\* An application that goes while nothing else moves.
LEMMA EndsAlone ==
  ASSUME SetupInv, NEW how \in {"gone", "lost"}, ApplicationEnds(how),
         UNCHANGED <<probeVars, files, helper>>,
         how = "gone" => ~client.handle /\ setup.at # "lost"
  PROVE  SetupInv'
<1>1. UNCHANGED <<source, work, files, helper>>
  BY DEF probeVars
<1>2. ProbeTypes' /\ ProbeInv' /\ HelperInv'
  BY <1>1 DEF SetupInv, ProbeTypes, ProbeInv, HelperInv, ReaderFinished
<1>3. files' \in Controls /\ helper' \in Helpers
      /\ (files'.result.identity # NoIdentity => Active(files'.result.evidence) # {})
  BY <1>1, ClientFacts DEF SetupInv, ProbeAndFlowAgree
<1>4. how = "gone" => /\ ~HelperLives'
                      /\ files' = [NoFiles EXCEPT !.temporary = files'.temporary]
  BY <1>1 DEF SetupInv, ProbeLeavesNothing, HelperLives
<1> QED
  BY <1>2, <1>3, <1>4, EndsStep

\* The files of a probe that is put away.
LEMMA Cleaned ==
  ASSUME SetupInv, files' = CleanedControls
  PROVE  /\ files' \in Controls /\ files'.result = NoResult
         /\ NoResult.identity = NoIdentity
         /\ files' = [NoFiles EXCEPT !.temporary = files'.temporary]
BY ClientFacts, SmallTypes DEF CleanedControls, NoFiles, Controls, NoResult, NoIdentity

LEMMA CloseStep ==
  ASSUME SetupInv, HandleClose
  PROVE  SetupInv'
<1>1. setup.at = "pump" /\ UNCHANGED probeVars
  BY DEF HandleClose
<1>2. CASE Leaves /\ ~client.handle
  <2>1. ApplicationEnds("gone") /\ UNCHANGED <<files, helper>>
    BY <1>2 DEF Leaves
  <2> QED BY <1>1, <1>2, <2>1, EndsAlone
<1>3. ASSUME client.handle, setup' \in Setups, setup'.at \in {"pump", "leaving"},
             setup'.scanning = setup.scanning, setup'.selected = setup.selected,
             setup'.sampling = setup.sampling, setup'.raw = setup.raw,
             RequestsCancel \/ UNCHANGED <<client, files>>,
             UNCHANGED <<parent, helper, flow, cert, gesture>>
      PROVE  SetupInv'
  <2>1. /\ client' \in Clients /\ client'.handle /\ client'.state # "none"
        /\ client'.result # NoResult => client'.ready /\ client'.result = files.result
        /\ files' \in Controls /\ files'.result = files.result
    BY <1>3, RequestLooks, ClientFacts
  <2>2. SetupTypes'
    BY <1>3, ClientFacts DEF SetupTypes
  <2>3. FlowInv' /\ MouseInv'
    BY <1>3, <2>1 DEF SetupInv, FlowInv, MouseInv
  <2> QED BY <1>1, <1>3, <2>1, <2>2, <2>3, ClientLooks
<1>4. CASE Leaves /\ client.handle
  <2>1. RequestsCancel /\ setup' = [setup EXCEPT !.at = "leaving", !.close = TRUE]
        /\ UNCHANGED <<parent, helper, flow, cert, gesture>>
    BY <1>4 DEF Leaves
  <2>2. /\ setup' \in Setups /\ setup'.at \in {"pump", "leaving"}
        /\ setup'.scanning = setup.scanning /\ setup'.selected = setup.selected
        /\ setup'.sampling = setup.sampling /\ setup'.raw = setup.raw
    BY <2>1, ClientFacts DEF Setups
  <2> QED BY <1>3, <1>4, <2>1, <2>2
<1>5. CASE ~Leaves
  <2>1. /\ RequestsCancel \/ UNCHANGED <<client, files>>
        /\ setup' = [setup EXCEPT !.close = TRUE]
        /\ UNCHANGED <<parent, helper, flow, cert, gesture>>
    BY <1>5 DEF HandleClose
  <2>2. /\ setup' \in Setups /\ setup'.at = setup.at /\ setup'.success = setup.success
        /\ setup'.routes = setup.routes /\ setup'.scanning = setup.scanning
        /\ setup'.selected = setup.selected /\ setup'.sampling = setup.sampling
        /\ setup'.raw = setup.raw
    BY <2>1, ClientFacts DEF Setups
  <2>3. CASE client.handle
    BY <1>1, <1>3, <2>1, <2>2, <2>3
  <2>4. CASE ~client.handle
    <3>1. UNCHANGED <<Control, client, flow, cert, gesture>>
      BY <1>1, <2>1, <2>4 DEF RequestsCancel, Control, controlVars
    <3>2. FlowInv' /\ MouseInv'
      BY <2>2, <3>1 DEF SetupInv, FlowInv, MouseInv
    <3>3. CertifiedIsEarned'
      BY <2>2, <3>1, EarnedKept, NotYetEarned
    <3> QED BY <2>2, <3>1, <3>2, <3>3, ClientFacts, ControlStays
  <2> QED BY <2>3, <2>4
<1> QED
  BY <1>2, <1>4, <1>5

LEMMA LeavingStep ==
  ASSUME SetupInv, LeaveWaits \/ LeaveTerminates \/ Dies
  PROVE  SetupInv'
<1>1. CASE LeaveWaits /\ helper.at = "exited"
  <2>1. /\ ApplicationEnds("gone") /\ files' = CleanedControls
        /\ UNCHANGED <<source, work, helper>>
    BY <1>1 DEF LeaveWaits, probeVars
  <2>2. ProbeTypes' /\ ProbeInv' /\ HelperInv'
    BY <1>1, <2>1, Cleaned DEF SetupInv, ProbeTypes, ProbeInv, HelperInv, ReaderFinished
  <2>3. ~HelperLives' /\ helper' \in Helpers
    BY <1>1, <2>1, ClientFacts DEF HelperLives
  <2> QED BY <2>1, <2>2, <2>3, Cleaned, EndsStep
<1>2. CASE LeaveWaits /\ helper.at # "exited"
  <2>1. /\ client' = Observing(client) /\ files' = Cancelling(client)
        /\ UNCHANGED <<probeVars, helper, setup, parent, flow, cert, gesture>>
    BY <1>2 DEF LeaveWaits
  <2>2. client.handle /\ client.state # "none"
    BY <1>2, ClientFacts DEF LeaveWaits, SetupInv, ClientInv
  <2>3. /\ client' \in Clients /\ client'.handle /\ client'.state # "none"
        /\ client'.result # NoResult => client'.ready /\ client'.result = files.result
        /\ files' \in Controls /\ files'.result = files.result
    BY <2>1, <2>2, ClientFacts, ObservingKeeps
  <2>4. SetupTypes' /\ FlowInv' /\ MouseInv'
    BY <2>1, <2>2, <2>3 DEF SetupInv, SetupTypes, FlowInv, MouseInv
  <2> QED BY <2>1, <2>3, <2>4, ClientLooks
<1>3. CASE ApplicationEnds("gone") /\ HelperGivesUp(FALSE) /\ files' = CleanedControls
  <2>1. source' = NoSource /\ work' = NoWork /\ helper' \in Helpers /\ helper'.at = "exited"
    BY <1>3, ClientFacts DEF HelperGivesUp, HelperExits, Helpers
  <2>2. ProbeTypes' /\ ProbeInv'
    BY <2>1, SmallTypes DEF ProbeTypes, ProbeInv, NoSource, NoWork
  <2>3. HelperInv' /\ ~HelperLives'
    BY <1>3, <2>1, Cleaned DEF HelperInv, HelperLives
  <2> QED BY <1>3, <2>1, <2>2, <2>3, Cleaned, EndsStep
<1>4. CASE ApplicationEnds("lost") /\ UNCHANGED <<probeVars, helper, files>>
  BY <1>4, EndsAlone
<1> QED
  BY <1>1, <1>2, <1>3, <1>4 DEF LeaveTerminates, Dies

(***************************************************************************)
(* What a poll decides.                                                    *)
(***************************************************************************)
\* The parts that a step disturbs in which a probe that has ended is put away.
LEMMA PutAway ==
  ASSUME SetupInv, helper.at = "exited", UNCHANGED <<parent, helper>>,
         files' = CleanedControls, client' = NoClient,
         UNCHANGED <<probeVars, gesture>> \/ Forgets,
         flow' \in Flows, cert' \in Certifications, setup' \in Setups, setup'.at = "pump",
         FlowInv', MouseInv', CertifiedIsEarned'
  PROVE  SetupInv'
<1>1. UNCHANGED <<source, work, gesture>>
        \/ (source' = NoSource /\ work' = NoWork /\ gesture' = {})
  BY DEF probeVars, Forgets
<1>2. ProbeTypes' /\ gesture' \in SUBSET Actions
  BY <1>1, SmallTypes, ClientFacts DEF SetupInv, ProbeTypes
<1>3. ControlTypes' /\ SetupTypes'
  BY <1>2, SmallTypes, Cleaned DEF SetupInv, ControlTypes, SetupTypes
<1>4. ProbeInv'
  <2>1. CASE UNCHANGED <<source, work>>
    BY <2>1 DEF SetupInv, ProbeInv, ReaderFinished
  <2>2. CASE source' = NoSource /\ work' = NoWork
    BY <2>2 DEF ProbeInv, NoSource, NoWork
  <2> QED BY <1>1, <2>1, <2>2
<1>5. HelperInv'
  BY Cleaned DEF HelperInv
<1>6. ClientInv'
  BY DEF ClientInv, NoClient
<1>7. ProbeLeavesNothing'
  BY Cleaned DEF ProbeLeavesNothing, HelperLives
<1>8. ProbeAndFlowAgree'
  BY Cleaned DEF ProbeAndFlowAgree, FlowInv, SettingsStages
<1> QED
  BY <1>2, <1>3, <1>4, <1>5, <1>6, <1>7, <1>8 DEF SetupInv

\* A check that did not certify: the flow that was at it asks the participant what to do.
LEMMA Unsuccessful ==
  ASSUME SetupInv, helper.at = "exited", setup.at = "poll",
         UNCHANGED <<parent, helper>>, files' = CleanedControls, client' = NoClient, Forgets,
         NEW problem \in Problems,
         flow' = CertificationFailed(flow, problem) \/ flow' = flow,
         cert' \in Certifications, cert'.state # "certified",
         cert' = cert \/ (flow.stage = "certifying" /\ flow' # flow),
         setup' \in Setups, setup'.at = "pump", ~setup'.sampling,
         setup'.scanning = setup.scanning, setup'.selected = setup.selected
  PROVE  SetupInv'
<1>1. flow.stage \in {"certifying", "cancelled"}
  BY DEF SetupInv, ClientInv, FlowInv
<1>2. /\ flow' \in Flows
      /\ \/ flow' = flow
         \/ flow.stage = "certifying" /\ flow'.stage = "certification_needs_action"
  BY ClientFacts DEF CertificationFailed, Flows, PreCaptureStages
<1>3. FlowInv'
  BY <1>1, <1>2 DEF SetupInv, FlowInv, NoClient, SettingsStages
<1>4. MouseInv'
  BY <1>1, <1>2 DEF SetupInv, MouseInv
<1>5. CertifiedIsEarned'
  BY <1>1, <1>2, NotYetEarned DEF SettingsStages
<1> QED
  BY <1>2, <1>3, <1>4, <1>5, PutAway

\* The settings follow a certification.
LEMMA ConfiguredFlow ==
  ASSUME flow \in Flows, flow.stage = "certifying"
  PROVE  Configured(flow) \in Flows /\ Configured(flow).stage = "configure_session"
<1> DEFINE f == Step(flow, "certification_succeeded")
<1>1. f \in Flows /\ f.stage = "configure_session"
  <2>1. <<"certification_succeeded", "certifying", "configure_session">> \in Steps
    BY DEF Steps
  <2> QED BY <2>1, StepTaken DEF PreCaptureStages
<1>2. Configured(flow) = Choose(Choose(f, "sensitivity"), "length")
  BY DEF Configured
<1> HIDE DEF f
<1> QED
  BY <1>1, <1>2 DEF Choose, Flows

\* What counts as the end of a probe: the last look at its files, and its exit code.
LEMMA Finished ==
  ASSUME SetupInv, setup.at = "poll", helper.at = "exited"
  PROVE  /\ ~Snapshot.handle
         /\ Snapshot.state = "completed" => /\ files.result # NoResult /\ Snapshot.ready
                                            /\ Snapshot.result = files.result
<1> DEFINE c == Observing(client)
<1>1. client.handle /\ client.state # "none"
  BY DEF SetupInv, ClientInv
<1>2. c \in Clients /\ (c.result # NoResult => c.ready /\ c.result = files.result)
  BY <1>1, ClientFacts, ObservingKeeps
<1>3. Snapshot = FinishExited(c)
  BY DEF Snapshot
<1> HIDE DEF c
<1> QED
  BY <1>2, <1>3 DEF FinishExited, Clients

\* What is sampled during the poll, and what stays of it.
LEMMA SamplingKeeps ==
  ASSUME SetupInv, NEW c
  PROVE  LET s == Sampling([setup EXCEPT !.at = "pump"], c)
             over == FinalCloseIfRequested([s EXCEPT !.sampling = FALSE])
         IN /\ s \in Setups /\ over \in Setups /\ s.at = "pump" /\ over.at = "pump"
            /\ s.scanning = setup.scanning /\ over.scanning = setup.scanning
            /\ s.selected = setup.selected /\ over.selected = setup.selected
            /\ s.sampling => c.ready \/ setup.sampling
            /\ c.ready \/ setup.sampling => s.raw \subseteq gesture
            /\ ~over.sampling /\ over.raw = s.raw
<1> DEFINE p == [setup EXCEPT !.at = "pump"]
           s == Sampling(p, c)
           over == FinalCloseIfRequested([s EXCEPT !.sampling = FALSE])
<1>1. /\ p \in Setups /\ p.at = "pump" /\ p.scanning = setup.scanning
      /\ p.selected = setup.selected /\ p.sampling = setup.sampling /\ p.raw = setup.raw
      /\ setup.sampling => setup.raw \subseteq gesture
  BY ClientFacts DEF SetupInv, MouseInv, Setups
<1> HIDE DEF p
<1>2. /\ s \in Setups /\ s.at = "pump" /\ s.scanning = setup.scanning
      /\ s.selected = setup.selected
      /\ s.sampling => c.ready \/ setup.sampling
      /\ c.ready \/ setup.sampling => s.raw \subseteq gesture
  BY <1>1 DEF Sampling, Setups
<1> HIDE DEF s
<1>3. /\ over \in Setups /\ over.at = "pump" /\ over.scanning = s.scanning
      /\ over.selected = s.selected /\ ~over.sampling /\ over.raw = s.raw
  BY <1>2 DEF FinalCloseIfRequested, Setups
<1> HIDE DEF over
<1>4. over.scanning = setup.scanning /\ over.selected = setup.selected
  BY <1>2, <1>3
<1> QED
  BY <1>2, <1>3, <1>4 DEF p, s, over

LEMMA CompletesStep ==
  ASSUME SetupInv, helper.at = "exited", setup.at = "poll",
         UNCHANGED <<parent, helper>>, files' = CleanedControls, client' = NoClient,
         files.result # NoResult,
         NEW s \in Setups, s.at = "pump", ~s.sampling, s.raw \subseteq gesture,
         s.scanning = setup.scanning, s.selected = setup.selected,
         CompleteCertification(s, files.result)
  PROVE  SetupInv'
<1> DEFINE result == files.result
           decision == SubmitProbe(cert, result.evidence, s.raw, Routes, Hint)
           problem == Problem(decision, result.identity)
<1>1. flow.stage \in {"certifying", "cancelled"}
  BY DEF SetupInv, ClientInv, FlowInv
<1>2. /\ flow.stage = "certifying" => cert.state = "awaiting_probe"
      /\ flow.stage = "cancelled" => cert.state = "cancelled"
      /\ cert \in Certifications
  BY ClientFacts DEF SetupInv, ClientInv, FlowInv
<1>3. CASE result.reason # "none"
  <2>1. flow' = FailedFlow(flow, FALSE) /\ cert' = FailedCert(cert) /\ setup' = s /\ Forgets
    BY <1>3 DEF CompleteCertification
  <2>2. flow' = CertificationFailed(flow, "ambiguous") /\ "ambiguous" \in Problems
    BY <2>1 DEF FailedFlow, Problems
  <2>3. cert' \in Certifications /\ cert'.state # "certified"
        /\ (flow.stage = "cancelled" => cert' = cert)
    BY <2>1, <1>1, <1>2, FailedIsNotCertified
  <2>4. flow.stage = "certifying" => flow' # flow
    BY <2>2, ClientFacts DEF CertificationFailed, Flows
  <2> QED BY <1>1, <2>1, <2>2, <2>3, <2>4, Unsuccessful
<1>4. CASE result.reason = "none"
  <2>1. PICK t \in {"cancelled", "complete"} :
          result = [ResultOf(work.taken, work.reason) EXCEPT !.told = t]
    BY DEF SetupInv, HelperInv
  <2>2. /\ work.taken \in Seq(Chunks) /\ work.reason \in Reasons /\ work.at = "done"
        /\ result \in Result /\ result.evidence \in Evidence
    BY ClientFacts DEF SetupInv, HelperInv, ProbeTypes, Works, Controls, Result
  <2>3. /\ cert' = decision
        /\ IF problem # "none"
             THEN /\ flow' = CertificationFailed(flow, problem)
                  /\ setup' = s /\ Forgets
             ELSE /\ flow' = Configured(flow)
                  /\ setup' = [s EXCEPT !.success = TRUE, !.routes = TRUE]
                  /\ UNCHANGED <<probeVars, gesture>>
    BY <1>4 DEF CompleteCertification
  <2>4. decision \in Certifications /\ (cert.state # "awaiting_probe" => decision = cert)
    BY <1>2, <2>2, Submitted
  <2>5. ASSUME cert.state = "awaiting_probe", decision.state = "certified"
        PROVE  /\ work.reason = "none" /\ "moved" \in s.raw /\ "clicked" \in s.raw
               /\ result.identity \in Streams
               /\ decision.lock.address = result.identity[2]
               /\ Completions(ActivityOf(work.taken), result.identity) > 0
    <3> DEFINE r == ResultOf(work.taken, work.reason)
    <3>1. r \in Result
      BY <2>2, ResultSays
    <3>2. /\ result.identity = r.identity /\ result.reason = r.reason
          /\ result.evidence = r.evidence
      <4>1. result = [r EXCEPT !.told = t]
        BY <2>1
      <4> HIDE DEF r, result
      <4> QED BY <3>1, <4>1 DEF Result
    <3> HIDE DEF result
    <3>3. /\ cert \in Certifications /\ cert.state = "awaiting_probe"
          /\ work.taken \in Seq(Chunks) /\ work.reason \in Reasons
          /\ result.identity = ResultOf(work.taken, work.reason).identity
          /\ result.reason = ResultOf(work.taken, work.reason).reason
          /\ result.evidence = ResultOf(work.taken, work.reason).evidence
          /\ result.reason = "none"
          /\ SubmitProbe(cert, result.evidence, s.raw, Routes, Hint).state = "certified"
      BY <1>2, <1>4, <2>2, <2>5, <3>2
    <3> QED BY <3>3, CertifiedByResult, ZenonT(60)
  <2> HIDE DEF decision
  <2>6. /\ problem = "none" <=>
             decision.state = "certified" /\ result.identity[2] = decision.lock.address
        /\ problem = "none" \/ problem \in Problems
    BY DEF Problem, Problems
  <2> HIDE DEF problem, result
  <2>7. CASE problem # "none"
    <3>1. cert'.state # "certified" /\ cert' \in Certifications
      BY <1>1, <1>2, <2>3, <2>4, <2>5, <2>6, <2>7
    <3>2. flow.stage = "certifying" => flow' # flow
      BY <2>3, <2>7, ClientFacts DEF CertificationFailed, Flows
    <3> QED
      BY <1>1, <1>2, <2>3, <2>4, <2>6, <2>7, <3>1, <3>2, Unsuccessful
  <2>8. CASE problem = "none"
    <3>1. /\ cert.state = "awaiting_probe" /\ flow.stage = "certifying"
          /\ decision.state = "certified"
      BY <1>1, <1>2, <2>4, <2>6, <2>8
    <3>2. flow' \in Flows /\ flow'.stage = "configure_session"
      BY <2>3, <2>8, <3>1, ClientFacts, ConfiguredFlow
    <3>3. /\ setup' \in Setups /\ setup'.at = "pump" /\ setup'.success /\ setup'.routes
          /\ ~setup'.sampling /\ setup'.scanning = setup.scanning
          /\ setup'.selected = setup.selected
      BY <2>3, <2>8 DEF Setups
    <3>4. setup.selected # NoMouse /\ ~setup.scanning
      BY <3>1 DEF SetupInv, MouseInv
    <3>5. UNCHANGED <<source, work, gesture>> /\ cert' = decision
      BY <2>3, <2>8 DEF probeVars
    <3>6. gesture = {"moved", "clicked"}
      BY <2>5, <3>1, ClientFacts DEF Actions
    <3>7. source.state = "stopped" /\ source.queue = <<>>
      BY <2>2, <2>5, <3>1 DEF SetupInv, ProbeInv
    <3>8. Len(work.taken) = source.sent
      <4>1. Len(work.taken) + Len(source.queue) = source.sent
        BY DEF SetupInv, ProbeInv
      <4>2. Len(source.queue) = 0 /\ Len(work.taken) \in Nat
        BY <2>2, <3>7
      <4> QED BY <4>1, <4>2
    <3>9. CertifiedIsEarned'
      <4>1. \E q \in Streams :
              q[2] = cert'.lock.address /\ Completions(ActivityOf(work'.taken), q) > 0
        BY <2>5, <3>1, <3>5
      <4> QED
        BY <3>3, <3>4, <3>5, <3>6, <3>7, <3>8, <4>1 DEF CertifiedIsEarned
    <3>10. FlowInv' /\ MouseInv'
      BY <3>2, <3>3, <3>4 DEF FlowInv, MouseInv, NoClient, SettingsStages
    <3> QED
      BY <2>3, <2>4, <2>8, <3>2, <3>3, <3>5, <3>9, <3>10, PutAway
  <2> QED BY <2>7, <2>8
<1> QED
  BY <1>3, <1>4

LEMMA DecidesStep ==
  ASSUME SetupInv, PollDecides
  PROVE  SetupInv'
<1> DEFINE c == Snapshot
           s == Sampling([setup EXCEPT !.at = "pump"], c)
           over == FinalCloseIfRequested([s EXCEPT !.sampling = FALSE])
<1>1. /\ setup.at = "poll" /\ UNCHANGED <<parent, helper>>
      /\ client.handle /\ client.state # "none"
  BY DEF PollDecides, SetupInv, ClientInv
<1>2. /\ files' = IF c.handle THEN files ELSE CleanedControls
      /\ client' = IF c.handle THEN c ELSE NoClient
      /\ IF c.handle THEN setup' = s /\ UNCHANGED <<flow, cert, probeVars, gesture>>
         ELSE CASE c.state = "completed" -> CompleteCertification(over, c.result)
                [] c.state = "cancelled" ->
                     setup' = over /\ UNCHANGED <<flow, cert>> /\ Forgets
                [] OTHER -> /\ setup' = over /\ flow' = FailedFlow(flow, FALSE)
                            /\ cert' = FailedCert(cert) /\ Forgets
  BY DEF PollDecides
<1>3. /\ s \in Setups /\ over \in Setups /\ s.at = "pump" /\ over.at = "pump"
      /\ s.scanning = setup.scanning /\ over.scanning = setup.scanning
      /\ s.selected = setup.selected /\ over.selected = setup.selected
      /\ s.sampling => c.ready \/ setup.sampling
      /\ c.ready \/ setup.sampling => s.raw \subseteq gesture
      /\ ~over.sampling /\ over.raw = s.raw
  BY SamplingKeeps
<1>4. CASE helper.at # "exited"
  <2>1. c = client
    BY <1>4 DEF Snapshot
  <2> HIDE DEF c, s, over
  <2>2. /\ UNCHANGED <<probeVars, parent, helper, files, client, flow, cert, gesture>>
        /\ setup' = s
    BY <1>1, <1>2, <2>1
  <2>3. SetupTypes'
    BY <1>3, <2>2, ClientFacts DEF SetupTypes
  <2>4. FlowInv' /\ MouseInv'
    BY <1>1, <1>3, <2>2 DEF SetupInv, FlowInv, MouseInv
  <2> QED BY <1>1, <2>2, <2>3, <2>4, ClientFacts, ClientLooks
<1>5. CASE helper.at = "exited"
  <2>1. /\ ~c.handle
        /\ c.state = "completed" => /\ files.result # NoResult /\ c.ready
                                    /\ c.result = files.result
    BY <1>1, <1>5, Finished
  <2> HIDE DEF c, s, over
  <2>2. files' = CleanedControls /\ client' = NoClient
    BY <1>2, <2>1
  <2>3. CASE c.state = "completed"
    <3>1. CompleteCertification(over, files.result)
      BY <1>2, <2>1, <2>3
    <3> QED BY <1>1, <1>3, <1>5, <2>1, <2>2, <2>3, <3>1, CompletesStep
  <2>4. CASE c.state = "cancelled"
    <3>1. setup' = over /\ UNCHANGED <<flow, cert>> /\ Forgets
      BY <1>2, <2>1, <2>4
    <3>2. cert.state # "certified"
      BY <1>1 DEF SetupInv, FlowInv, SettingsStages
    <3>3. "ambiguous" \in Problems
      BY DEF Problems
    <3> QED
      BY <1>1, <1>3, <1>5, <2>2, <3>1, <3>2, <3>3, ClientFacts, Unsuccessful
  <2>5. CASE c.state \notin {"completed", "cancelled"}
    <3>1. /\ setup' = over /\ flow' = FailedFlow(flow, FALSE) /\ cert' = FailedCert(cert)
          /\ Forgets
      BY <1>2, <2>1, <2>5
    <3>2. flow' = CertificationFailed(flow, "ambiguous") /\ "ambiguous" \in Problems
      BY <3>1 DEF FailedFlow, Problems
    <3>3. /\ flow.stage = "certifying" => cert.state = "awaiting_probe"
          /\ flow.stage = "cancelled" => cert.state = "cancelled"
          /\ flow.stage \in {"certifying", "cancelled"}
      BY <1>1 DEF SetupInv, FlowInv
    <3>4. /\ cert' \in Certifications /\ cert'.state # "certified"
          /\ flow.stage = "cancelled" => cert' = cert
      BY <3>1, <3>3, ClientFacts, FailedIsNotCertified
    <3>5. flow.stage = "certifying" => flow' # flow
      BY <3>2, ClientFacts DEF CertificationFailed, Flows
    <3> QED
      BY <1>1, <1>3, <1>5, <2>2, <3>1, <3>2, <3>3, <3>4, <3>5, Unsuccessful
  <2> QED BY <2>3, <2>4, <2>5
<1> QED
  BY <1>4, <1>5

(***************************************************************************)
(* The theorems.                                                           *)
(***************************************************************************)
LEMMA StutterInv ==
  ASSUME SetupInv, UNCHANGED allVars
  PROVE  SetupInv'
<1>1. UNCHANGED <<Control, flow, cert, setup, gesture, client>>
  BY DEF allVars, setupVars, Control, controlVars
<1>2. FlowInv' /\ MouseInv'
  BY <1>1 DEF SetupInv, FlowInv, MouseInv
<1>3. CertifiedIsEarned'
  BY <1>1, EarnedKept, NotYetEarned
<1> QED
  BY <1>1, <1>2, <1>3, ClientFacts, ControlStays

LEMMA NextInv ==
  ASSUME SetupInv, [SetupNext]_allVars
  PROVE  SetupInv'
<1>1. CASE \/ PollAbandonedSessionRecovery \/ AcceptPrivacy \/ RefreshMouseList
           \/ PollInventoryScan \/ SelectMouse
  BY <1>1, RecoveryStep, ListStep, ScanStep, SelectStep
<1>2. CASE \/ StartCertification \/ MouseActs \/ PollObserves \/ PollDecides
  BY <1>2, StartStep, MouseStep, ObservesStep, DecidesStep
<1>3. CASE RetryCertification \/ ChooseDifferentMouse \/ Cancels \/ Configures
  BY <1>3, RetryStep, ChooseStep, CancelsStep, ConfiguresStep
<1>4. CASE Done \/ HandleClose \/ LeaveWaits \/ LeaveTerminates \/ Dies
  BY <1>4, DoneStep, CloseStep, LeavingStep
<1>5. CASE Helping
  BY <1>5, HelperMovesStep, ProbeMovesStep DEF Helping
<1>6. CASE Over \/ UNCHANGED allVars
  BY <1>6, StutterInv DEF Over
<1> QED
  BY <1>1, <1>2, <1>3, <1>4, <1>5, <1>6 DEF SetupNext

\* The inductive invariant, of every behaviour of the application with its helper.
THEOREM SetupInvariant == SetupSpec => []SetupInv
<1>1. SetupInit => SetupInv
  BY InitInv
<1>2. SetupInv /\ [SetupNext]_allVars => SetupInv'
  BY NextInv
<1> QED
  BY <1>1, <1>2, PTL DEF SetupSpec

\* Whatever the participant, the reader and the helper do, the settings are reached only
\* with a mouse that moved and clicked during a probe that lost nothing, and the
\* address that is locked is that of a stream which reported then.
THEOREM EarnedCertification == SetupSpec => []CertifiedIsEarned
<1>1. SetupInv => CertifiedIsEarned
  BY DEF SetupInv
<1> QED
  BY <1>1, SetupInvariant, PTL

\* The probe's choice of a stream and the coordinator's lock never disagree.
THEOREM ProbeAlwaysAgrees == SetupSpec => []ProbeAndFlowAgree
<1>1. SetupInv => ProbeAndFlowAgree
  BY DEF SetupInv
<1> QED
  BY <1>1, SetupInvariant, PTL

\* A client that has let go of its process leaves neither a helper nor control files.
THEOREM NothingIsLeft == SetupSpec => []ProbeLeavesNothing
<1>1. SetupInv => ProbeLeavesNothing
  BY DEF SetupInv
<1> QED
  BY <1>1, SetupInvariant, PTL
=============================================================================
