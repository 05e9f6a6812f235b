------------------------ MODULE TrainerTimelineProofs ------------------------
(***************************************************************************)
(* Proofs about the timed trainer. EngineInv is the inductive invariant;   *)
(* it is stated of any engine, because a call takes the engine through     *)
(* states that no step of the specification ends in.                       *)
(***************************************************************************)
EXTENDS TrainerTimeline, FiniteSetTheorems, SequenceTheorems, NaturalsInduction,
        WellFoundedInduction, TLAPS

States == {"idle", "countdown", "awaiting_presentation", "event_active", "event_tail",
           "inter_target_delay", "paused", "complete"}

Roles    == {"general", "tickle_reset", "tickle_small"}
Naturals0 == {"hit_dwell", "hit_click", "miss_click", "timeout", "challenge_end_timeout"}
Technical == Outcomes \cup {"focus_lost"}

Tails == {t \in [minimum : Nat, settle : Nat, maximum : Nat] : ValidTail(t)}

Behaviors ==
  [missClickEnds : BOOLEAN, fade : Nat, hitDelay : Nat, missDelay : Nat,
   timeoutDelay : Nat, hitTail : Tails, nonhitTail : Tails]

Targets ==
  [event : Nat, block : DOMAIN Pattern, index : Nat, role : Roles, behavior : Behaviors,
   attempts : Nat, radius : Int, timeout : Nat, dwell : Nat]

Plans == [scored : BOOLEAN, ends : BOOLEAN, tail : Tails, delay : Nat]

Moves == [age : Nat, size : Nat]

Lives ==
  [target : Targets, age : Nat, inside : Nat \cup {Never}, streak : Nat, moves : Seq(Moves),
   natural : Naturals0 \cup {"none"}, resolved : Nat \cup {Never}, quiet : Nat, plan : Plans]

Generators ==
  [blockActive : BOOLEAN, targetActive : BOOLEAN, endPending : BOOLEAN, expected : Nat,
   current : Nat, index : Nat, hasPrevious : BOOLEAN, nextSmall : BOOLEAN]

Events ==
  [target : Targets, technical : Technical \cup {"none"}, presented : BOOLEAN,
   natural : Naturals0 \cup {"none"}, scored : BOOLEAN, streak : Nat \cup {Never},
   tail : Nat \cup {Never}, quiet : Nat \cup {Never}]

Results ==
  [block : DOMAIN Pattern, score : Nat, events : Nat, technical : Nat, consumed : Nat,
   completed : BOOLEAN]

Engines ==
  [state : States, reason : Technical \cup {"none"}, focused : BOOLEAN, countdown : Nat,
   left : 0..BlockMs, delay : Nat, index : 0..Len(Plan), over : BOOLEAN,
   pending : Targets \cup {NoTarget}, live : Lives \cup {NoLive}, generator : Generators,
   events : Seq(Events), results : Seq(Results), refused : BOOLEAN]

\* What make_target draws.
Drawn(t) ==
  /\ t \in Targets
  /\ \E small \in BOOLEAN, end \in Draws : t = Target(t.block, t.index, small, t.event, end)

\* Trainer and generator are in the same block of the plan.
InPlan(e) ==
  /\ e.index < Len(Plan) /\ Len(e.results) = e.index + 1
  /\ e.generator.blockActive
  /\ e.generator.current = Plan[e.index + 1] /\ e.generator.expected = Plan[e.index + 1]

\* Whether event n was a hit on a reset target of a block.
ResetHit(e, block, n) ==
  /\ n > 0 /\ e.events[n].target.block = block
  /\ e.events[n].target.role = "tickle_reset" /\ e.events[n].scored

IsSmall(t) == t.role = "tickle_small"
Tickles(t) == Pattern[t.block] = "tickle_fast"

\* The target after event n has the role the alternation asks for.
Alternates(e, t, n) == Tickles(t) => (IsSmall(t) <=> ResetHit(e, t.block, n))

\* A target that is out was drawn for the block.
Proper(e, t) ==
  /\ Drawn(t) /\ t.block = e.generator.current /\ Alternates(e, t, Len(e.events))

\* No target is out, and the generator knows which role is next.
Between(e) ==
  /\ ~e.generator.targetActive /\ e.pending = NoTarget /\ e.live = NoLive
  /\ Pattern[e.generator.current] = "tickle_fast" =>
       (e.generator.nextSmall <=> ResetHit(e, e.generator.current, Len(e.events)))

\* A live event before and after its natural outcome.
InOrder(moves) == \A i, j \in DOMAIN moves : i < j => moves[j].age <= moves[i].age

Unresolved(l) ==
  l.natural = "none" /\ l.resolved = Never /\ l.plan = NoPlan /\ InOrder(l.moves)

Resolved(l) ==
  /\ l.natural \in Naturals0 /\ l.resolved \in Nat
  /\ l.plan.tail = IF l.plan.scored THEN l.target.behavior.hitTail
                                    ELSE l.target.behavior.nonhitTail
  /\ TailLeft(l) >= 0
  /\ l.natural = "hit_dwell" => l.streak >= l.target.dwell + DwellQuietWindow

Awaiting(e) == e.generator.targetActive /\ Proper(e, e.pending) /\ e.live = NoLive

Active(e) ==
  /\ e.generator.targetActive /\ e.pending = NoTarget /\ e.live \in Lives
  /\ Proper(e, e.live.target) /\ Unresolved(e.live)

Tailing(e) ==
  /\ ~e.generator.targetActive /\ e.pending = NoTarget /\ e.live \in Lives
  /\ Proper(e, e.live.target) /\ Resolved(e.live) /\ (e.live.plan.ends => e.left = 0)
  /\ Tickles(e.live.target) =>
       (e.generator.nextSmall <=> e.live.target.role = "tickle_reset" /\ e.live.plan.scored)

Completed(e) ==
  /\ e.index = Len(Plan) /\ Len(e.results) = e.index
  /\ ~e.generator.blockActive /\ ~e.generator.targetActive
  /\ e.pending = NoTarget /\ e.live = NoLive

Vacant == {"countdown", "inter_target_delay", "paused"}

StateInv(e) ==
  /\ e.state # "complete" => InPlan(e)
  /\ e.state \in Vacant => Between(e)
  /\ e.state = "awaiting_presentation" => Awaiting(e)
  /\ e.state = "event_active" => Active(e)
  /\ e.state = "event_tail" => Tailing(e)
  /\ e.state = "complete" => Completed(e)

\* An event earned what it was given.
EventEarned(v) ==
  LET tail == ResolutionPlan(v.target, IF v.scored THEN "hit" ELSE "timeout").tail
  IN /\ v.natural = "hit_dwell" => v.streak >= v.target.dwell + DwellQuietWindow
     /\ v.natural # "none" /\ v.technical = "none" =>
          /\ tail.minimum <= v.tail /\ v.tail <= tail.maximum
          /\ v.tail < tail.maximum => v.quiet >= tail.settle

\* The events of a block, those of them that scored and those that were cut short.
Of(e, block) == {n \in DOMAIN e.events : e.events[n].target.block = block}
Scored(e, block) == {n \in Of(e, block) : e.events[n].scored}
Cut(e, block) == {n \in Of(e, block) : e.events[n].technical # "none"}

OpenScore(e, i) ==
  IF i = Len(e.results) /\ e.live # NoLive /\ e.live.plan.scored THEN 1 ELSE 0

\* Result i is that of block i of the plan and of the events recorded for it.
Tallied(e, i) ==
  LET r == e.results[i]
  IN /\ r.block = Plan[i]
     /\ r.completed => r.consumed = BlockMs
     /\ r.score = Cardinality(Scored(e, r.block)) + OpenScore(e, i)
     /\ r.events = Cardinality(Of(e, r.block))
     /\ r.technical = Cardinality(Cut(e, r.block))

EventsInv(e) ==
  \A n \in DOMAIN e.events :
    LET v == e.events[n]
    IN /\ Drawn(v.target) /\ EventEarned(v) /\ Alternates(e, v.target, n - 1)
       /\ \E i \in DOMAIN e.results : v.target.block = Plan[i]

Recorded(e) ==
  /\ Len(e.results) <= Len(Plan)
  /\ EventsInv(e) /\ \A i \in DOMAIN e.results : Tallied(e, i)

\* Time of a block is consumed only once a target of it was presented.
FreshInv(e) ==
  /\ e.state # "complete" /\ Fresh(e) => e.left = BlockMs
  /\ e.state = "inter_target_delay" => ~Fresh(e)

RunInv(e) ==
  /\ e \in Engines /\ e.state # "idle" /\ ~e.refused
  /\ e.generator.endPending => e.left = 0
  /\ Recorded(e) /\ StateInv(e) /\ FreshInv(e)

EngineInv(e) == e = NewEngine \/ RunInv(e)
------------------------------------------------------------------------------
(***************************************************************************)
(* The protocol: what a drawn target is.                                   *)
(***************************************************************************)
PatternNames ==
  {"default_static", "chain_links", "tickle_fast", "accuracy", "precision_big",
   "precision_small", "dwell_control", "overshoot_recovery", "micro_adjustments",
   "fast_flicker"}

LEMMA BlockHasPattern == \A ordinal \in DOMAIN Pattern : Pattern[ordinal] \in PatternNames
<1>1. \A n \in DOMAIN ChallengeDefinitionsV1 : ChallengeDefinitionsV1[n][1] \in PatternNames
  BY DEF ChallengeDefinitionsV1, PatternNames
<1> HIDE DEF PatternNames
<1>2. ASSUME NEW ordinal \in DOMAIN Pattern
      PROVE  Pattern[ordinal] \in PatternNames
  <2> DEFINE Falls(n) == BlocksBefore(n - 1) <= ordinal /\ ordinal < BlocksBefore(n)
             i == CHOOSE n \in DOMAIN ChallengeDefinitionsV1 : Falls(n)
  <2>1. \E n \in DOMAIN ChallengeDefinitionsV1 : Falls(n)
    BY PatternAssumption
  <2>2. Pattern[ordinal] = ChallengeDefinitionsV1[i][1]
    BY DEF Pattern
  <2> HIDE DEF Falls
  <2>3. i \in DOMAIN ChallengeDefinitionsV1
    BY <2>1
  <2> QED BY <2>2, <2>3, <1>1
<1> QED BY <1>2

LEMMA OrdinalsAreNaturals == DOMAIN Pattern \subseteq Nat
BY DEF Pattern

\* A range of radii: two fractions.
Ranges == {<<f, h>> : f \in (Nat \X (Nat \ {0})), h \in (Nat \X (Nat \ {0}))}

SoundDraw(d) ==
  /\ d.role \in Roles /\ d.behavior \in Behaviors /\ d.attempts \in Nat
  /\ \A end \in {"low", "high"} : EndOf(end, d.timeouts) \in Nat
  /\ \A end \in {"low", "high"} : EndOf(end, d.dwells) \in Nat

\* The table of the patterns is well formed, whatever pattern and role is drawn.
LEMMA DrawFacts ==
  ASSUME NEW p \in PatternNames, NEW s \in BOOLEAN
  PROVE  /\ SoundDraw(DrawFor(p, s))
         /\ p = "tickle_fast" => (DrawFor(p, s).role = "tickle_small" <=> s)
<1> USE DEF Draw, General, Fading, EndOf, Always, Roles
<1>1. TailOf(160, 60, 350) \in Tails /\ TailOf(120, 60, 220) \in Tails /\ TailOf(180, 60, 400) \in Tails
  BY DEF Tails, TailOf, ValidTail
<1>2. DefaultBehavior \in Behaviors
  BY SMT, <1>1 DEF DefaultBehavior, Behaviors
<1> DEFINE more(b) == [b EXCEPT !.missClickEnds = TRUE]
           fading(b, n) == [b EXCEPT !.fade = n]
           hit(b, n) == [b EXCEPT !.hitDelay = n]
           miss(b, n) == [b EXCEPT !.missDelay = n]
           late(b, n) == [b EXCEPT !.timeoutDelay = n]
           tail(b, t) == [b EXCEPT !.hitTail = t]
<1>a. \A b \in Behaviors : more(b) \in Behaviors
  BY DEF Behaviors
<1>b. \A b \in Behaviors, n \in Nat : /\ fading(b, n) \in Behaviors /\ hit(b, n) \in Behaviors
                                      /\ miss(b, n) \in Behaviors /\ late(b, n) \in Behaviors
  BY DEF Behaviors
<1>c. \A b \in Behaviors, t \in Tails : tail(b, t) \in Behaviors
  BY DEF Behaviors
<1>3. TickleBehavior \in Behaviors
  <2>1. TickleBehavior = late(miss(hit(DefaultBehavior, 120), 500), 500)
    BY DEF TickleBehavior
  <2> HIDE DEF more, fading, hit, miss, late, tail
  <2> QED BY <2>1, <1>2, <1>b
<1>4. CASE p = "default_static"
  <2>1. DrawFor(p, s) = DefaultStatic /\ p # "tickle_fast"
    BY <1>4 DEF DrawFor
  <2>2. DefaultStatic.behavior \in Behaviors
    BY SMT, <1>2 DEF DefaultStatic
  <2>3. DefaultStatic.role \in Roles /\ DefaultStatic.attempts \in Nat
    BY SMT DEF DefaultStatic
  <2>4. \A end \in {"low", "high"} : EndOf(end, DefaultStatic.timeouts) \in Nat
    BY SMT DEF DefaultStatic, NoTargetTimeout, FadingGrace
  <2>5. \A end \in {"low", "high"} : EndOf(end, DefaultStatic.dwells) \in Nat
    BY SMT DEF DefaultStatic
  <2>6. SoundDraw(DefaultStatic)
    BY <2>2, <2>3, <2>4, <2>5 DEF SoundDraw
  <2> QED BY <2>1, <2>6
<1>5. CASE p = "chain_links"
  <2>1. DrawFor(p, s) = ChainLinks /\ p # "tickle_fast"
    BY <1>5 DEF DrawFor
  <2>2. ChainLinks.behavior \in Behaviors
    <3>1. ChainLinks.behavior = hit(DefaultBehavior, 150)
      BY DEF ChainLinks
    <3> HIDE DEF more, fading, hit, miss, late, tail
    <3>2. hit(DefaultBehavior, 150) \in Behaviors
      BY <1>2, <1>1, <1>a, <1>b, <1>c
    <3> QED BY <3>1, <3>2
  <2>3. ChainLinks.role \in Roles /\ ChainLinks.attempts \in Nat
    BY SMT DEF ChainLinks
  <2>4. \A end \in {"low", "high"} : EndOf(end, ChainLinks.timeouts) \in Nat
    BY SMT DEF ChainLinks, NoTargetTimeout, FadingGrace
  <2>5. \A end \in {"low", "high"} : EndOf(end, ChainLinks.dwells) \in Nat
    BY SMT DEF ChainLinks
  <2>6. SoundDraw(ChainLinks)
    BY <2>2, <2>3, <2>4, <2>5 DEF SoundDraw
  <2> QED BY <2>1, <2>6
<1>6. CASE p = "accuracy"
  <2>1. DrawFor(p, s) = Accuracy /\ p # "tickle_fast"
    BY <1>6 DEF DrawFor
  <2>2. Accuracy.behavior \in Behaviors
    <3>1. Accuracy.behavior = more(DefaultBehavior)
      BY DEF Accuracy
    <3> HIDE DEF more, fading, hit, miss, late, tail
    <3>2. more(DefaultBehavior) \in Behaviors
      BY <1>2, <1>1, <1>a, <1>b, <1>c
    <3> QED BY <3>1, <3>2
  <2>3. Accuracy.role \in Roles /\ Accuracy.attempts \in Nat
    BY SMT DEF Accuracy
  <2>4. \A end \in {"low", "high"} : EndOf(end, Accuracy.timeouts) \in Nat
    BY SMT DEF Accuracy, NoTargetTimeout, FadingGrace
  <2>5. \A end \in {"low", "high"} : EndOf(end, Accuracy.dwells) \in Nat
    BY SMT DEF Accuracy
  <2>6. SoundDraw(Accuracy)
    BY <2>2, <2>3, <2>4, <2>5 DEF SoundDraw
  <2> QED BY <2>1, <2>6
<1>7. CASE p = "precision_big"
  <2>1. DrawFor(p, s) = Precision(FALSE) /\ p # "tickle_fast"
    BY <1>7 DEF DrawFor
  <2>2. Precision(FALSE).behavior \in Behaviors
    <3>1. Precision(FALSE).behavior = fading(DefaultBehavior, 400 + FadingGrace)
      BY DEF Precision
    <3> HIDE DEF more, fading, hit, miss, late, tail
    <3>2. fading(DefaultBehavior, 400 + FadingGrace) \in Behaviors
      BY <1>2, <1>1, <1>a, <1>b, <1>c DEF FadingGrace
    <3> QED BY <3>1, <3>2
  <2>3. Precision(FALSE).role \in Roles /\ Precision(FALSE).attempts \in Nat
    BY SMT DEF Precision
  <2>4. \A end \in {"low", "high"} : EndOf(end, Precision(FALSE).timeouts) \in Nat
    BY SMT DEF Precision, NoTargetTimeout, FadingGrace
  <2>5. \A end \in {"low", "high"} : EndOf(end, Precision(FALSE).dwells) \in Nat
    BY SMT DEF Precision
  <2>6. SoundDraw(Precision(FALSE))
    BY <2>2, <2>3, <2>4, <2>5 DEF SoundDraw
  <2> QED BY <2>1, <2>6
<1>8. CASE p = "precision_small"
  <2>1. DrawFor(p, s) = Precision(TRUE) /\ p # "tickle_fast"
    BY <1>8 DEF DrawFor
  <2>2. Precision(TRUE).behavior \in Behaviors
    <3>1. Precision(TRUE).behavior = fading(DefaultBehavior, 450 + FadingGrace)
      BY DEF Precision
    <3> HIDE DEF more, fading, hit, miss, late, tail
    <3>2. fading(DefaultBehavior, 450 + FadingGrace) \in Behaviors
      BY <1>2, <1>1, <1>a, <1>b, <1>c DEF FadingGrace
    <3> QED BY <3>1, <3>2
  <2>3. Precision(TRUE).role \in Roles /\ Precision(TRUE).attempts \in Nat
    BY SMT DEF Precision
  <2>4. \A end \in {"low", "high"} : EndOf(end, Precision(TRUE).timeouts) \in Nat
    BY SMT DEF Precision, NoTargetTimeout, FadingGrace
  <2>5. \A end \in {"low", "high"} : EndOf(end, Precision(TRUE).dwells) \in Nat
    BY SMT DEF Precision
  <2>6. SoundDraw(Precision(TRUE))
    BY <2>2, <2>3, <2>4, <2>5 DEF SoundDraw
  <2> QED BY <2>1, <2>6
<1>9. CASE p = "dwell_control"
  <2>1. DrawFor(p, s) = DwellControl /\ p # "tickle_fast"
    BY <1>9 DEF DrawFor
  <2>2. DwellControl.behavior \in Behaviors
    <3>1. DwellControl.behavior = hit(DefaultBehavior, 250)
      BY DEF DwellControl
    <3> HIDE DEF more, fading, hit, miss, late, tail
    <3>2. hit(DefaultBehavior, 250) \in Behaviors
      BY <1>2, <1>1, <1>a, <1>b, <1>c
    <3> QED BY <3>1, <3>2
  <2>3. DwellControl.role \in Roles /\ DwellControl.attempts \in Nat
    BY SMT DEF DwellControl
  <2>4. \A end \in {"low", "high"} : EndOf(end, DwellControl.timeouts) \in Nat
    BY SMT DEF DwellControl, NoTargetTimeout, FadingGrace
  <2>5. \A end \in {"low", "high"} : EndOf(end, DwellControl.dwells) \in Nat
    BY SMT DEF DwellControl
  <2>6. SoundDraw(DwellControl)
    BY <2>2, <2>3, <2>4, <2>5 DEF SoundDraw
  <2> QED BY <2>1, <2>6
<1>10. CASE p = "overshoot_recovery"
  <2>1. DrawFor(p, s) = OvershootRecovery /\ p # "tickle_fast"
    BY <1>10 DEF DrawFor
  <2>2. OvershootRecovery.behavior \in Behaviors
    <3>1. OvershootRecovery.behavior = tail(late(miss(more(DefaultBehavior), 400), 400), TailOf(180, 60, 400))
      BY DEF OvershootRecovery
    <3> HIDE DEF more, fading, hit, miss, late, tail
    <3>3. late(miss(more(DefaultBehavior), 400), 400) \in Behaviors
      BY <1>2, <1>1, <1>a, <1>b, <1>c
    <3>2. tail(late(miss(more(DefaultBehavior), 400), 400), TailOf(180, 60, 400)) \in Behaviors
      BY <3>3, <1>2, <1>1, <1>a, <1>b, <1>c
    <3> QED BY <3>1, <3>2
  <2>3. OvershootRecovery.role \in Roles /\ OvershootRecovery.attempts \in Nat
    BY SMT DEF OvershootRecovery
  <2>4. \A end \in {"low", "high"} : EndOf(end, OvershootRecovery.timeouts) \in Nat
    BY SMT DEF OvershootRecovery, NoTargetTimeout, FadingGrace
  <2>5. \A end \in {"low", "high"} : EndOf(end, OvershootRecovery.dwells) \in Nat
    BY SMT DEF OvershootRecovery
  <2>6. SoundDraw(OvershootRecovery)
    BY <2>2, <2>3, <2>4, <2>5 DEF SoundDraw
  <2> QED BY <2>1, <2>6
<1>11. CASE p = "micro_adjustments"
  <2>1. DrawFor(p, s) = MicroAdjustments /\ p # "tickle_fast"
    BY <1>11 DEF DrawFor
  <2>2. MicroAdjustments.behavior \in Behaviors
    <3>1. MicroAdjustments.behavior = hit(DefaultBehavior, 200)
      BY DEF MicroAdjustments
    <3> HIDE DEF more, fading, hit, miss, late, tail
    <3>2. hit(DefaultBehavior, 200) \in Behaviors
      BY <1>2, <1>1, <1>a, <1>b, <1>c
    <3> QED BY <3>1, <3>2
  <2>3. MicroAdjustments.role \in Roles /\ MicroAdjustments.attempts \in Nat
    BY SMT DEF MicroAdjustments
  <2>4. \A end \in {"low", "high"} : EndOf(end, MicroAdjustments.timeouts) \in Nat
    BY SMT DEF MicroAdjustments, NoTargetTimeout, FadingGrace
  <2>5. \A end \in {"low", "high"} : EndOf(end, MicroAdjustments.dwells) \in Nat
    BY SMT DEF MicroAdjustments
  <2>6. SoundDraw(MicroAdjustments)
    BY <2>2, <2>3, <2>4, <2>5 DEF SoundDraw
  <2> QED BY <2>1, <2>6
<1>12. CASE p = "fast_flicker"
  <2>1. DrawFor(p, s) = FastFlicker /\ p # "tickle_fast"
    BY <1>12 DEF DrawFor
  <2>2. FastFlicker.behavior \in Behaviors
    <3>1. FastFlicker.behavior = fading(late(hit(DefaultBehavior, 275), 275), 450 + FadingGrace)
      BY DEF FastFlicker
    <3> HIDE DEF more, fading, hit, miss, late, tail
    <3>2. fading(late(hit(DefaultBehavior, 275), 275), 450 + FadingGrace) \in Behaviors
      BY <1>2, <1>1, <1>a, <1>b, <1>c DEF FadingGrace
    <3> QED BY <3>1, <3>2
  <2>3. FastFlicker.role \in Roles /\ FastFlicker.attempts \in Nat
    BY SMT DEF FastFlicker
  <2>4. \A end \in {"low", "high"} : EndOf(end, FastFlicker.timeouts) \in Nat
    BY SMT DEF FastFlicker, NoTargetTimeout, FadingGrace
  <2>5. \A end \in {"low", "high"} : EndOf(end, FastFlicker.dwells) \in Nat
    BY SMT DEF FastFlicker
  <2>6. SoundDraw(FastFlicker)
    BY <2>2, <2>3, <2>4, <2>5 DEF SoundDraw
  <2> QED BY <2>1, <2>6
<1>13. CASE p = "tickle_fast" /\ s
  <2>1. DrawFor(p, s) = TickleSmall
    BY <1>13 DEF DrawFor
  <2>2. TickleSmall.behavior \in Behaviors
    <3>1. TickleSmall.behavior = more(TickleBehavior)
      BY DEF TickleSmall
    <3> HIDE DEF more, fading, hit, miss, late, tail
    <3>2. more(TickleBehavior) \in Behaviors
      BY <1>3, <1>1, <1>a, <1>b, <1>c
    <3> QED BY <3>1, <3>2
  <2>3. TickleSmall.role = "tickle_small" /\ TickleSmall.attempts \in Nat
    BY SMT DEF TickleSmall
  <2>4. \A end \in {"low", "high"} : EndOf(end, TickleSmall.timeouts) \in Nat
    BY SMT DEF TickleSmall, NoTargetTimeout
  <2>5. \A end \in {"low", "high"} : EndOf(end, TickleSmall.dwells) \in Nat
    BY SMT DEF TickleSmall
  <2>6. SoundDraw(TickleSmall)
    BY <2>2, <2>3, <2>4, <2>5 DEF SoundDraw
  <2> QED BY <1>13, <2>1, <2>3, <2>6
<1>14. CASE p = "tickle_fast" /\ ~s
  <2>1. DrawFor(p, s) = TickleReset
    BY <1>14 DEF DrawFor
  <2>2. TickleReset.behavior \in Behaviors
    <3>1. TickleReset.behavior = fading(TickleBehavior, 270 + FadingGrace)
      BY DEF TickleReset
    <3> HIDE DEF more, fading, hit, miss, late, tail
    <3>2. fading(TickleBehavior, 270 + FadingGrace) \in Behaviors
      BY <1>3, <1>1, <1>a, <1>b, <1>c DEF FadingGrace
    <3> QED BY <3>1, <3>2
  <2>3. TickleReset.role = "tickle_reset" /\ TickleReset.attempts \in Nat
    BY SMT DEF TickleReset
  <2>4. \A end \in {"low", "high"} : EndOf(end, TickleReset.timeouts) \in Nat
    BY SMT DEF TickleReset, FadingGrace
  <2>5. \A end \in {"low", "high"} : EndOf(end, TickleReset.dwells) \in Nat
    BY SMT DEF TickleReset
  <2>6. SoundDraw(TickleReset)
    BY <2>2, <2>3, <2>4, <2>5 DEF SoundDraw
  <2> QED BY <1>14, <2>1, <2>3, <2>6
<1> QED BY <1>4, <1>5, <1>6, <1>7, <1>8, <1>9, <1>10, <1>11, <1>12, <1>13, <1>14 DEF PatternNames
\* Division rounds down.
LEMMA DivisionFacts ==
  ASSUME NEW x \in Int, NEW y \in Nat \ {0}
  PROVE  x \div y \in Int /\ y * (x \div y) <= x /\ x < y * (x \div y) + y
OBVIOUS

LEMMA Scaling ==
  ASSUME NEW k \in Nat, NEW x \in Int, NEW y \in Int
  PROVE  x <= y => k * x <= k * y
OBVIOUS

\* Quotients of fractions that are in order.
LEMMA QuotientBelow ==
  ASSUME NEW x \in Int, NEW y \in Nat \ {0}, NEW u \in Int, NEW k \in Nat \ {0}, NEW z,
         z = k * y, k * x <= u
  PROVE  x \div y <= u \div z
<1> DEFINE p == x \div y
           q == u \div z
<1>1. z \in Nat \ {0}
  OBVIOUS
<1>2. p \in Int /\ y * p <= x
  BY DivisionFacts
<1>3. q \in Int /\ u < z * q + z
  BY <1>1, DivisionFacts
<1>4. SUFFICES ASSUME q + 1 <= p PROVE FALSE
  BY <1>2, <1>3
<1> HIDE DEF p, q
<1>5. z * (q + 1) <= z * p
  BY <1>1, <1>2, <1>3, <1>4, Scaling
<1>6. z * (q + 1) = z * q + z
  BY <1>1, <1>3
<1>7. z * p = k * (y * p)
  BY <1>2
<1>8. k * (y * p) <= k * x
  BY <1>2, Scaling
<1> QED BY <1>1, <1>2, <1>3, <1>5, <1>6, <1>7, <1>8

LEMMA QuotientAbove ==
  ASSUME NEW x \in Int, NEW y \in Nat \ {0}, NEW u \in Int, NEW k \in Nat \ {0}, NEW z,
         z = k * y, u < k * (x + 1)
  PROVE  u \div z <= x \div y
<1> DEFINE p == x \div y
           q == u \div z
<1>1. z \in Nat \ {0}
  OBVIOUS
<1>2. p \in Int /\ x + 1 <= y * p + y
  BY DivisionFacts
<1>3. q \in Int /\ z * q <= u
  BY <1>1, DivisionFacts
<1>4. SUFFICES ASSUME p + 1 <= q PROVE FALSE
  BY <1>2, <1>3
<1> HIDE DEF p, q
<1>5. z * (p + 1) <= z * q
  BY <1>1, <1>2, <1>3, <1>4, Scaling
<1>6. z * (p + 1) = k * (y * p + y)
  BY <1>1, <1>2
<1>7. k * (x + 1) <= k * (y * p + y)
  BY <1>2, Scaling
<1> QED BY <1>1, <1>2, <1>3, <1>5, <1>6, <1>7

\* Bounds of a range of radii that are close enough to its ends.
Fits(range, low, high) ==
  /\ \A i \in {1, 2} : range[i][1] \in Nat /\ range[i][2] \in Nat \ {0}
  /\ low \in Nat /\ high \in Nat
  /\ 100 * (low * range[1][2] - range[1][1]) < 45 * range[1][2]
  /\ range[1][1] <= high * range[1][2] /\ low * range[2][2] <= range[2][1]
  /\ 100 * (range[2][1] - high * range[2][2]) < 45 * range[2][2]

\* The sensitivities below 0.45 at which both ends of a range still round into their bounds.
Middle == {32, 33, 35, 36, 37, 39, 40, 41, 42, 43, 44}

\* An end of a range, rounded or rounded below, is within the scaled bounds at k.
FitsAt(f, low, high, k) ==
  /\ (200 * low - k) \div (2 * k) <= (200 * f[1] + f[2] * k - 1) \div (2 * f[2] * k)
  /\ (200 * f[1] + f[2] * k) \div (2 * f[2] * k) <= (200 * high + 3 * k - 1) \div (2 * k)

FitsBetween(range, low, high) ==
  \A k \in Middle : FitsAt(range[1], low, high, k) /\ FitsAt(range[2], low, high, k)

LEMMA FloorIsInteger == \A n \in Nat : FloorScaled(n) \in Int
<1> SUFFICES ASSUME NEW n \in Nat PROVE FloorScaled(n) \in Int
  OBVIOUS
<1> DEFINE x == 200 * n - Sensitivity
           y == 2 * Sensitivity
<1>1. x \in Int /\ y \in Nat \ {0}
  BY SensitivityAssumption
<1>2. x \div y \in Int
  <2> HIDE DEF x, y
  <2> QED BY <1>1, DivisionFacts
<1> QED BY <1>2 DEF FloorScaled, AtLeastOne

LEMMA RoundedIsInteger ==
  ASSUME NEW f, f[1] \in Nat, f[2] \in Nat \ {0},
         NEW r, r = Rounded(f) \/ r = RoundedBelow(f)
  PROVE  r \in Int
<1> DEFINE z == 2 * f[2] * Sensitivity
<1>1. PICK u \in {200 * f[1] + f[2] * Sensitivity, 200 * f[1] + f[2] * Sensitivity - 1} :
         r = u \div z
  BY DEF Rounded, RoundedBelow
<1>2. u \in Int /\ z \in Nat \ {0}
  BY SensitivityAssumption
<1> QED BY <1>1, <1>2, DivisionFacts

LEMMA RoundedFits ==
  ASSUME NEW f, NEW a \in Nat, NEW b \in Nat \ {0}, f[1] = a, f[2] = b,
         NEW n \in Nat, Sensitivity >= 45,
         NEW r, r = Rounded(f) \/ r = RoundedBelow(f)
  PROVE  /\ r \in Int
         /\ 100 * (n * b - a) < 45 * b => AtLeastOne(r) >= FloorScaled(n)
         /\ 100 * (a - n * b) < 45 * b => AtLeastOne(r) <= CeilScaled(n)
<1> DEFINE m == b * Sensitivity
           nb == n * b
           y == 2 * Sensitivity
           z == 2 * b * Sensitivity
<1>1. PICK u \in {200 * a + b * Sensitivity, 200 * a + b * Sensitivity - 1} : r = u \div z
  BY DEF Rounded, RoundedBelow
<1>2. /\ Sensitivity \in Nat \ {0} /\ m \in Nat /\ nb \in Nat
      /\ y \in Nat \ {0} /\ z \in Nat \ {0} /\ z = b * y /\ z = 2 * m
  BY SensitivityAssumption
<1>3. 45 * b <= m
  BY SensitivityAssumption, Scaling
<1>4. u \in Int /\ 200 * a + m - 1 <= u /\ u <= 200 * a + m
  BY <1>1, <1>2
<1>5. r \in Int
  BY <1>1, <1>2, <1>4, DivisionFacts
<1>6. ASSUME 100 * (n * b - a) < 45 * b
      PROVE  AtLeastOne(r) >= FloorScaled(n)
  <2> DEFINE x == 200 * n - Sensitivity
  <2>1. b * x = 200 * nb - m
    BY SensitivityAssumption
  <2>2. b * x <= u
    <3> HIDE DEF m, nb, x
    <3> QED BY <1>2, <1>3, <1>4, <1>6, <2>1 DEF nb
  <2>3. x \in Int
    BY <1>2
  <2>4. x \div y <= u \div z
    <3> HIDE DEF x, y, z
    <3> QED BY <1>2, <1>4, <2>2, <2>3, QuotientBelow
  <2>5. FloorScaled(n) = AtLeastOne(x \div y) /\ x \div y \in Int
    <3>1. x \div y \in Int
      <4> HIDE DEF x, y
      <4> QED BY <1>2, <2>3, DivisionFacts
    <3> QED BY <3>1 DEF FloorScaled
  <2> HIDE DEF x, y, z
  <2> QED BY <1>1, <1>5, <2>4, <2>5 DEF AtLeastOne
<1>7. ASSUME 100 * (a - n * b) < 45 * b
      PROVE  AtLeastOne(r) <= CeilScaled(n)
  <2> DEFINE x == 200 * n + 3 * Sensitivity - 1
  <2>1. b * (x + 1) = 200 * nb + 3 * m
    BY SensitivityAssumption
  <2>2. u < b * (x + 1)
    <3> HIDE DEF m, nb, x
    <3> QED BY <1>2, <1>3, <1>4, <1>7, <2>1 DEF nb
  <2>3. x \in Int
    BY <1>2
  <2>4. u \div z <= x \div y
    <3> HIDE DEF x, y, z
    <3> QED BY <1>2, <1>4, <2>2, <2>3, QuotientAbove
  <2>5. CeilScaled(n) = AtLeastOne(x \div y) /\ x \div y \in Int
    <3>1. x \div y \in Int
      <4> HIDE DEF x, y
      <4> QED BY <1>2, <2>3, DivisionFacts
    <3> QED BY <3>1 DEF CeilScaled
  <2> HIDE DEF x, y, z
  <2> QED BY <1>1, <1>5, <2>4, <2>5 DEF AtLeastOne
<1> QED BY <1>5, <1>6, <1>7
LEMMA RadiusFits ==
  ASSUME NEW range, NEW low, NEW high, Fits(range, low, high), Sensitivity >= 45,
         NEW r, r = Rounded(range[1]) \/ r = RoundedBelow(range[2])
  PROVE  FloorScaled(low) <= AtLeastOne(r) /\ AtLeastOne(r) <= CeilScaled(high)
<1> DEFINE a == range[1][1]
           b == range[1][2]
           c == range[2][1]
           d == range[2][2]
<1>1. /\ a \in Nat /\ b \in Nat \ {0} /\ c \in Nat /\ d \in Nat \ {0}
      /\ low \in Nat /\ high \in Nat
  BY DEF Fits
<1>2. /\ 100 * (low * b - a) < 45 * b /\ a <= high * b
      /\ low * d <= c /\ 100 * (c - high * d) < 45 * d
  BY DEF Fits
<1>3. 100 * (a - high * b) < 45 * b /\ 100 * (low * d - c) < 45 * d
  <2>1. high * b \in Nat /\ low * d \in Nat
    BY <1>1
  <2> DEFINE hb == high * b
             ld == low * d
  <2> HIDE DEF a, b, c, d, hb, ld
  <2>2. a <= hb /\ ld <= c /\ hb \in Nat /\ ld \in Nat
    BY <1>2, <2>1 DEF hb, ld
  <2>3. 100 * (a - hb) < 45 * b /\ 100 * (ld - c) < 45 * d
    BY <1>1, <2>2
  <2> QED BY <2>3 DEF hb, ld
<1>4. CASE r = Rounded(range[1])
  <2>1. /\ AtLeastOne(r) >= FloorScaled(low) /\ AtLeastOne(r) <= CeilScaled(high)
    <3> HIDE DEF a, b, c, d
    <3>1. range[1][1] = a /\ range[1][2] = b
      BY DEF a, b
    <3> QED BY <1>1, <1>2, <1>3, <1>4, <3>1, RoundedFits
  <2>2. r \in Int /\ FloorScaled(low) \in Int
    BY <1>1, <1>4, RoundedIsInteger, FloorIsInteger
  <2> QED BY <2>1, <2>2 DEF AtLeastOne
<1>5. CASE r = RoundedBelow(range[2])
  <2>1. /\ AtLeastOne(r) >= FloorScaled(low) /\ AtLeastOne(r) <= CeilScaled(high)
    <3> HIDE DEF a, b, c, d
    <3>1. range[2][1] = c /\ range[2][2] = d
      BY DEF c, d
    <3> QED BY <1>1, <1>2, <1>3, <1>5, <3>1, RoundedFits
  <2>2. r \in Int /\ FloorScaled(low) \in Int
    BY <1>1, <1>5, RoundedIsInteger, FloorIsInteger
  <2> QED BY <2>1, <2>2 DEF AtLeastOne
<1> QED BY <1>4, <1>5
LEMMA RadiusFitsBetween ==
  ASSUME NEW range, NEW low, NEW high, Fits(range, low, high), FitsBetween(range, low, high),
         Sensitivity \in Middle,
         NEW r, r = Rounded(range[1]) \/ r = RoundedBelow(range[2])
  PROVE  FloorScaled(low) <= AtLeastOne(r) /\ AtLeastOne(r) <= CeilScaled(high)
<1> DEFINE y == 2 * Sensitivity
           least == (200 * low - Sensitivity) \div y
           most == (200 * high + 3 * Sensitivity - 1) \div y
<1>1. /\ Sensitivity \in Nat \ {0} /\ y \in Nat \ {0} /\ low \in Nat /\ high \in Nat
  BY SensitivityAssumption DEF Fits
<1>2. least \in Int /\ most \in Int
  <2>1. 200 * low - Sensitivity \in Int /\ 200 * high + 3 * Sensitivity - 1 \in Int
    BY <1>1
  <2> HIDE DEF y
  <2> QED BY <1>1, <2>1, DivisionFacts
<1>3. r \in Int
  <2>1. \A i \in {1, 2} : range[i][1] \in Nat /\ range[i][2] \in Nat \ {0}
    BY DEF Fits
  <2> QED BY <2>1, RoundedIsInteger
<1>4. FitsAt(range[1], low, high, Sensitivity) /\ FitsAt(range[2], low, high, Sensitivity)
  BY DEF FitsBetween
<1>5. ASSUME NEW f, f = range[1] \/ f = range[2]
      PROVE  RoundedBelow(f) <= Rounded(f) /\ RoundedBelow(f) \in Int /\ Rounded(f) \in Int
  <2>1. f[1] \in Nat /\ f[2] \in Nat \ {0}
    BY <1>5 DEF Fits
  <2>2. RoundedBelow(f) \in Int /\ Rounded(f) \in Int
    BY <2>1, RoundedIsInteger
  <2> DEFINE u == 200 * f[1] + f[2] * Sensitivity
             below == 200 * f[1] + f[2] * Sensitivity - 1
             z == 2 * f[2] * Sensitivity
  <2>3. z \in Nat \ {0} /\ u \in Int /\ z = 1 * z /\ 1 * below <= u /\ below \in Int
    BY <1>1, <2>1
  <2>4. below \div z <= u \div z
    <3> HIDE DEF u, below, z
    <3> QED BY <2>3, QuotientBelow
  <2>5. Rounded(f) = u \div z /\ RoundedBelow(f) = below \div z
    BY Zenon DEF Rounded, RoundedBelow
  <2> HIDE DEF u, below, z
  <2> QED BY <2>2, <2>4, <2>5
<1>6. least <= r /\ r <= most
  <2>1. ASSUME NEW f, FitsAt(f, low, high, Sensitivity)
        PROVE  least <= RoundedBelow(f) /\ Rounded(f) <= most
    BY <2>1 DEF FitsAt, Rounded, RoundedBelow
  <2>2. /\ least <= RoundedBelow(range[1]) /\ Rounded(range[1]) <= most
        /\ least <= RoundedBelow(range[2]) /\ Rounded(range[2]) <= most
    BY <1>4, <2>1
  <2> HIDE DEF least, most
  <2> QED BY <1>2, <1>3, <1>5, <2>2
<1> HIDE DEF least, most
<1>7. FloorScaled(low) = AtLeastOne(least) /\ CeilScaled(high) = AtLeastOne(most)
  BY DEF FloorScaled, CeilScaled, least, most
<1> QED BY <1>2, <1>3, <1>6, <1>7 DEF AtLeastOne

\* Draw and scenario, the table written twice, say the same.
Agree(d, c) ==
  /\ d.role = c.role /\ d.behavior = c.behavior /\ d.attempts <= c.attempts
  /\ \A end \in {"low", "high"} : EndOf(end, d.timeouts) \in c.timeouts
  /\ \A end \in {"low", "high"} : EndOf(end, d.timeouts) > 0
  /\ \A end \in {"low", "high"} : EndOf(end, d.dwells) \in c.dwells
  /\ Fits(d.radius, c.low, c.high) /\ FitsBetween(d.radius, c.low, c.high)

LEMMA DrawAgrees ==
  ASSUME NEW p \in PatternNames, NEW s \in BOOLEAN
  PROVE  Agree(DrawFor(p, s), ScenarioFor(p, DrawFor(p, s).role))
<1>0. TickleBehavior = [DefaultBehavior EXCEPT !.hitDelay = 120, !.timeoutDelay = 500]
  <2>1. \A b \in Behaviors : b.missDelay = 500 => [b EXCEPT !.missDelay = 500] = b
    BY DEF Behaviors
  <2> DEFINE b == [DefaultBehavior EXCEPT !.hitDelay = 120]
  <2>2. DefaultBehavior \in Behaviors /\ DefaultBehavior.missDelay = 500
    <3>1. TailOf(160, 60, 350) \in Tails /\ TailOf(120, 60, 220) \in Tails
      BY DEF Tails, TailOf, ValidTail
    <3> QED BY SMT, <3>1 DEF DefaultBehavior, Behaviors
  <2>3. b \in Behaviors /\ b.missDelay = 500
    BY <2>2 DEF Behaviors
  <2>4. [b EXCEPT !.missDelay = 500] = b
    <3> HIDE DEF b
    <3> QED BY <2>1, <2>3
  <2>5. TickleBehavior = [[b EXCEPT !.missDelay = 500] EXCEPT !.timeoutDelay = 500]
    BY DEF TickleBehavior
  <2> QED BY <2>4, <2>5
<1> USE DEF Draw, General, Fading, EndOf, Always
<1>1. CASE p = "default_static"
  <2> DEFINE scenario == Untimed(DefaultBehavior, 50, 94, 128)
  <2>1. DrawFor(p, s) = DefaultStatic
    BY <1>1 DEF DrawFor
  <2>2. DefaultStatic.role = "general"
    BY DEF DefaultStatic
  <2>3. ScenarioFor(p, "general") = scenario
    BY <1>1 DEF ScenarioFor
  <2>4. scenario.role = "general" /\ DefaultStatic.behavior = scenario.behavior
    BY DEF Scenario, Untimed, DefaultStatic, FadingGrace
  <2>5. DefaultStatic.attempts <= scenario.attempts
    BY DEF Scenario, Untimed, DefaultStatic
  <2>6. \A end \in {"low", "high"} : /\ EndOf(end, DefaultStatic.timeouts) \in scenario.timeouts
                                    /\ EndOf(end, DefaultStatic.timeouts) > 0
    BY DEF Scenario, Untimed, DefaultStatic, NoTargetTimeout, FadingGrace
  <2>7. \A end \in {"low", "high"} : EndOf(end, DefaultStatic.dwells) \in scenario.dwells
    BY DEF Scenario, Untimed, DefaultStatic
  <2>8. Fits(DefaultStatic.radius, scenario.low, scenario.high)
    BY DEF Scenario, Untimed, DefaultStatic, Fits
  <2>10. FitsBetween(DefaultStatic.radius, scenario.low, scenario.high)
    BY DEF Scenario, Untimed, DefaultStatic, FitsBetween, FitsAt, Middle
  <2> HIDE DEF scenario
  <2>9. Agree(DefaultStatic, scenario)
    BY <2>2, <2>4, <2>5, <2>6, <2>7, <2>8, <2>10 DEF Agree
  <2> QED BY <2>1, <2>2, <2>3, <2>9
<1>2. CASE p = "chain_links"
  <2> DEFINE scenario == Untimed([DefaultBehavior EXCEPT !.hitDelay = 150], 35, 90, 160)
  <2>1. DrawFor(p, s) = ChainLinks
    BY <1>2 DEF DrawFor
  <2>2. ChainLinks.role = "general"
    BY DEF ChainLinks
  <2>3. ScenarioFor(p, "general") = scenario
    BY <1>2 DEF ScenarioFor
  <2>4. scenario.role = "general" /\ ChainLinks.behavior = scenario.behavior
    BY DEF Scenario, Untimed, ChainLinks, FadingGrace
  <2>5. ChainLinks.attempts <= scenario.attempts
    BY DEF Scenario, Untimed, ChainLinks
  <2>6. \A end \in {"low", "high"} : /\ EndOf(end, ChainLinks.timeouts) \in scenario.timeouts
                                    /\ EndOf(end, ChainLinks.timeouts) > 0
    BY DEF Scenario, Untimed, ChainLinks, NoTargetTimeout, FadingGrace
  <2>7. \A end \in {"low", "high"} : EndOf(end, ChainLinks.dwells) \in scenario.dwells
    BY DEF Scenario, Untimed, ChainLinks
  <2>8. Fits(ChainLinks.radius, scenario.low, scenario.high)
    BY DEF Scenario, Untimed, ChainLinks, Fits
  <2>10. FitsBetween(ChainLinks.radius, scenario.low, scenario.high)
    BY DEF Scenario, Untimed, ChainLinks, FitsBetween, FitsAt, Middle
  <2> HIDE DEF scenario
  <2>9. Agree(ChainLinks, scenario)
    BY <2>2, <2>4, <2>5, <2>6, <2>7, <2>8, <2>10 DEF Agree
  <2> QED BY <2>1, <2>2, <2>3, <2>9
<1>3. CASE p = "accuracy"
  <2> DEFINE scenario == Untimed([DefaultBehavior EXCEPT !.missClickEnds = TRUE],
                              28, 83, 128)
  <2>1. DrawFor(p, s) = Accuracy
    BY <1>3 DEF DrawFor
  <2>2. Accuracy.role = "general"
    BY DEF Accuracy
  <2>3. ScenarioFor(p, "general") = scenario
    BY <1>3 DEF ScenarioFor
  <2>4. scenario.role = "general" /\ Accuracy.behavior = scenario.behavior
    BY DEF Scenario, Untimed, Accuracy, FadingGrace
  <2>5. Accuracy.attempts <= scenario.attempts
    BY DEF Scenario, Untimed, Accuracy
  <2>6. \A end \in {"low", "high"} : /\ EndOf(end, Accuracy.timeouts) \in scenario.timeouts
                                    /\ EndOf(end, Accuracy.timeouts) > 0
    BY DEF Scenario, Untimed, Accuracy, NoTargetTimeout, FadingGrace
  <2>7. \A end \in {"low", "high"} : EndOf(end, Accuracy.dwells) \in scenario.dwells
    BY DEF Scenario, Untimed, Accuracy
  <2>8. Fits(Accuracy.radius, scenario.low, scenario.high)
    BY DEF Scenario, Untimed, Accuracy, Fits
  <2>10. FitsBetween(Accuracy.radius, scenario.low, scenario.high)
    BY DEF Scenario, Untimed, Accuracy, FitsBetween, FitsAt, Middle
  <2> HIDE DEF scenario
  <2>9. Agree(Accuracy, scenario)
    BY <2>2, <2>4, <2>5, <2>6, <2>7, <2>8, <2>10 DEF Agree
  <2> QED BY <2>1, <2>2, <2>3, <2>9
<1>4. CASE p = "precision_big"
  <2> DEFINE scenario == Scenario("general", [DefaultBehavior EXCEPT !.fade = 460],
                              60, 110, {460}, {0}, 128)
  <2>1. DrawFor(p, s) = Precision(FALSE)
    BY <1>4 DEF DrawFor
  <2>2. Precision(FALSE).role = "general"
    BY DEF Precision
  <2>3. ScenarioFor(p, "general") = scenario
    BY <1>4 DEF ScenarioFor
  <2>4. scenario.role = "general" /\ Precision(FALSE).behavior = scenario.behavior
    BY DEF Scenario, Untimed, Precision, FadingGrace
  <2>5. Precision(FALSE).attempts <= scenario.attempts
    BY DEF Scenario, Untimed, Precision
  <2>6. \A end \in {"low", "high"} : /\ EndOf(end, Precision(FALSE).timeouts) \in scenario.timeouts
                                    /\ EndOf(end, Precision(FALSE).timeouts) > 0
    BY DEF Scenario, Untimed, Precision, NoTargetTimeout, FadingGrace
  <2>7. \A end \in {"low", "high"} : EndOf(end, Precision(FALSE).dwells) \in scenario.dwells
    BY DEF Scenario, Untimed, Precision
  <2>8. Fits(Precision(FALSE).radius, scenario.low, scenario.high)
    BY DEF Scenario, Untimed, Precision, Fits
  <2>10. FitsBetween(Precision(FALSE).radius, scenario.low, scenario.high)
    BY DEF Scenario, Untimed, Precision, FitsBetween, FitsAt, Middle
  <2> HIDE DEF scenario
  <2>9. Agree(Precision(FALSE), scenario)
    BY <2>2, <2>4, <2>5, <2>6, <2>7, <2>8, <2>10 DEF Agree
  <2> QED BY <2>1, <2>2, <2>3, <2>9
<1>5. CASE p = "precision_small"
  <2> DEFINE scenario == Scenario("general", [DefaultBehavior EXCEPT !.fade = 510],
                              25, 70, {510}, {0}, 128)
  <2>1. DrawFor(p, s) = Precision(TRUE)
    BY <1>5 DEF DrawFor
  <2>2. Precision(TRUE).role = "general"
    BY DEF Precision
  <2>3. ScenarioFor(p, "general") = scenario
    BY <1>5 DEF ScenarioFor
  <2>4. scenario.role = "general" /\ Precision(TRUE).behavior = scenario.behavior
    BY DEF Scenario, Untimed, Precision, FadingGrace
  <2>5. Precision(TRUE).attempts <= scenario.attempts
    BY DEF Scenario, Untimed, Precision
  <2>6. \A end \in {"low", "high"} : /\ EndOf(end, Precision(TRUE).timeouts) \in scenario.timeouts
                                    /\ EndOf(end, Precision(TRUE).timeouts) > 0
    BY DEF Scenario, Untimed, Precision, NoTargetTimeout, FadingGrace
  <2>7. \A end \in {"low", "high"} : EndOf(end, Precision(TRUE).dwells) \in scenario.dwells
    BY DEF Scenario, Untimed, Precision
  <2>8. Fits(Precision(TRUE).radius, scenario.low, scenario.high)
    BY DEF Scenario, Untimed, Precision, Fits
  <2>10. FitsBetween(Precision(TRUE).radius, scenario.low, scenario.high)
    BY DEF Scenario, Untimed, Precision, FitsBetween, FitsAt, Middle
  <2> HIDE DEF scenario
  <2>9. Agree(Precision(TRUE), scenario)
    BY <2>2, <2>4, <2>5, <2>6, <2>7, <2>8, <2>10 DEF Agree
  <2> QED BY <2>1, <2>2, <2>3, <2>9
<1>6. CASE p = "dwell_control"
  <2> DEFINE scenario == Scenario("general", [DefaultBehavior EXCEPT !.hitDelay = 250],
                              17, 73, {NoTargetTimeout}, 90..130, 128)
  <2>1. DrawFor(p, s) = DwellControl
    BY <1>6 DEF DrawFor
  <2>2. DwellControl.role = "general"
    BY DEF DwellControl
  <2>3. ScenarioFor(p, "general") = scenario
    BY <1>6 DEF ScenarioFor
  <2>4. scenario.role = "general" /\ DwellControl.behavior = scenario.behavior
    BY DEF Scenario, Untimed, DwellControl, FadingGrace
  <2>5. DwellControl.attempts <= scenario.attempts
    BY DEF Scenario, Untimed, DwellControl
  <2>6. \A end \in {"low", "high"} : /\ EndOf(end, DwellControl.timeouts) \in scenario.timeouts
                                    /\ EndOf(end, DwellControl.timeouts) > 0
    BY DEF Scenario, Untimed, DwellControl, NoTargetTimeout, FadingGrace
  <2>7. \A end \in {"low", "high"} : EndOf(end, DwellControl.dwells) \in scenario.dwells
    BY DEF Scenario, Untimed, DwellControl
  <2>8. Fits(DwellControl.radius, scenario.low, scenario.high)
    BY DEF Scenario, Untimed, DwellControl, Fits
  <2>10. FitsBetween(DwellControl.radius, scenario.low, scenario.high)
    BY DEF Scenario, Untimed, DwellControl, FitsBetween, FitsAt, Middle
  <2> HIDE DEF scenario
  <2>9. Agree(DwellControl, scenario)
    BY <2>2, <2>4, <2>5, <2>6, <2>7, <2>8, <2>10 DEF Agree
  <2> QED BY <2>1, <2>2, <2>3, <2>9
<1>7. CASE p = "overshoot_recovery"
  <2> DEFINE scenario == Scenario("general", [DefaultBehavior EXCEPT !.missClickEnds = TRUE, 
                                 !.missDelay = 400, !.timeoutDelay = 400, !.hitTail = TailOf(180, 60, 400)],
                              25, 92, 1200..1600, {0}, 160)
  <2>1. DrawFor(p, s) = OvershootRecovery
    BY <1>7 DEF DrawFor
  <2>2. OvershootRecovery.role = "general"
    BY DEF OvershootRecovery
  <2>3. ScenarioFor(p, "general") = scenario
    BY <1>7 DEF ScenarioFor
  <2>4. scenario.role = "general" /\ OvershootRecovery.behavior = scenario.behavior
    BY DEF Scenario, Untimed, OvershootRecovery, FadingGrace
  <2>5. OvershootRecovery.attempts <= scenario.attempts
    BY DEF Scenario, Untimed, OvershootRecovery
  <2>6. \A end \in {"low", "high"} : /\ EndOf(end, OvershootRecovery.timeouts) \in scenario.timeouts
                                    /\ EndOf(end, OvershootRecovery.timeouts) > 0
    BY DEF Scenario, Untimed, OvershootRecovery, NoTargetTimeout, FadingGrace
  <2>7. \A end \in {"low", "high"} : EndOf(end, OvershootRecovery.dwells) \in scenario.dwells
    BY DEF Scenario, Untimed, OvershootRecovery
  <2>8. Fits(OvershootRecovery.radius, scenario.low, scenario.high)
    BY DEF Scenario, Untimed, OvershootRecovery, Fits
  <2>10. FitsBetween(OvershootRecovery.radius, scenario.low, scenario.high)
    BY DEF Scenario, Untimed, OvershootRecovery, FitsBetween, FitsAt, Middle
  <2> HIDE DEF scenario
  <2>9. Agree(OvershootRecovery, scenario)
    BY <2>2, <2>4, <2>5, <2>6, <2>7, <2>8, <2>10 DEF Agree
  <2> QED BY <2>1, <2>2, <2>3, <2>9
<1>8. CASE p = "micro_adjustments"
  <2> DEFINE scenario == Untimed([DefaultBehavior EXCEPT !.hitDelay = 200], 15, 70, 160)
  <2>1. DrawFor(p, s) = MicroAdjustments
    BY <1>8 DEF DrawFor
  <2>2. MicroAdjustments.role = "general"
    BY DEF MicroAdjustments
  <2>3. ScenarioFor(p, "general") = scenario
    BY <1>8 DEF ScenarioFor
  <2>4. scenario.role = "general" /\ MicroAdjustments.behavior = scenario.behavior
    BY DEF Scenario, Untimed, MicroAdjustments, FadingGrace
  <2>5. MicroAdjustments.attempts <= scenario.attempts
    BY DEF Scenario, Untimed, MicroAdjustments
  <2>6. \A end \in {"low", "high"} : /\ EndOf(end, MicroAdjustments.timeouts) \in scenario.timeouts
                                    /\ EndOf(end, MicroAdjustments.timeouts) > 0
    BY DEF Scenario, Untimed, MicroAdjustments, NoTargetTimeout, FadingGrace
  <2>7. \A end \in {"low", "high"} : EndOf(end, MicroAdjustments.dwells) \in scenario.dwells
    BY DEF Scenario, Untimed, MicroAdjustments
  <2>8. Fits(MicroAdjustments.radius, scenario.low, scenario.high)
    BY DEF Scenario, Untimed, MicroAdjustments, Fits
  <2>10. FitsBetween(MicroAdjustments.radius, scenario.low, scenario.high)
    BY DEF Scenario, Untimed, MicroAdjustments, FitsBetween, FitsAt, Middle
  <2> HIDE DEF scenario
  <2>9. Agree(MicroAdjustments, scenario)
    BY <2>2, <2>4, <2>5, <2>6, <2>7, <2>8, <2>10 DEF Agree
  <2> QED BY <2>1, <2>2, <2>3, <2>9
<1>9. CASE p = "fast_flicker"
  <2> DEFINE scenario == Scenario("general", [[DefaultBehavior EXCEPT !.hitDelay = 275, !.timeoutDelay = 275] EXCEPT !.fade = 510],
                              50, 117, {510}, {0}, 160)
  <2>1. DrawFor(p, s) = FastFlicker
    BY <1>9 DEF DrawFor
  <2>2. FastFlicker.role = "general"
    BY DEF FastFlicker
  <2>3. ScenarioFor(p, "general") = scenario
    BY <1>9 DEF ScenarioFor
  <2>4. scenario.role = "general" /\ FastFlicker.behavior = scenario.behavior
    BY DEF Scenario, Untimed, FastFlicker, FadingGrace
  <2>5. FastFlicker.attempts <= scenario.attempts
    BY DEF Scenario, Untimed, FastFlicker
  <2>6. \A end \in {"low", "high"} : /\ EndOf(end, FastFlicker.timeouts) \in scenario.timeouts
                                    /\ EndOf(end, FastFlicker.timeouts) > 0
    BY DEF Scenario, Untimed, FastFlicker, NoTargetTimeout, FadingGrace
  <2>7. \A end \in {"low", "high"} : EndOf(end, FastFlicker.dwells) \in scenario.dwells
    BY DEF Scenario, Untimed, FastFlicker
  <2>8. Fits(FastFlicker.radius, scenario.low, scenario.high)
    BY DEF Scenario, Untimed, FastFlicker, Fits
  <2>10. FitsBetween(FastFlicker.radius, scenario.low, scenario.high)
    BY DEF Scenario, Untimed, FastFlicker, FitsBetween, FitsAt, Middle
  <2> HIDE DEF scenario
  <2>9. Agree(FastFlicker, scenario)
    BY <2>2, <2>4, <2>5, <2>6, <2>7, <2>8, <2>10 DEF Agree
  <2> QED BY <2>1, <2>2, <2>3, <2>9
<1>10. CASE p = "tickle_fast" /\ s
  <2> DEFINE scenario == Scenario("tickle_small", [[DefaultBehavior EXCEPT !.hitDelay = 120, !.timeoutDelay = 500] EXCEPT !.missClickEnds = TRUE],
                              19, 54, {NoTargetTimeout}, {0}, 128)
  <2>1. DrawFor(p, s) = TickleSmall
    BY <1>10 DEF DrawFor
  <2>2. TickleSmall.role = "tickle_small"
    BY DEF TickleSmall
  <2>3. ScenarioFor(p, "tickle_small") = scenario
    BY <1>10 DEF ScenarioFor
  <2>4. scenario.role = "tickle_small" /\ TickleSmall.behavior = scenario.behavior
    BY <1>0 DEF Scenario, Untimed, TickleSmall, FadingGrace
  <2>5. TickleSmall.attempts <= scenario.attempts
    BY DEF Scenario, Untimed, TickleSmall
  <2>6. \A end \in {"low", "high"} : /\ EndOf(end, TickleSmall.timeouts) \in scenario.timeouts
                                    /\ EndOf(end, TickleSmall.timeouts) > 0
    BY DEF Scenario, Untimed, TickleSmall, NoTargetTimeout, FadingGrace
  <2>7. \A end \in {"low", "high"} : EndOf(end, TickleSmall.dwells) \in scenario.dwells
    BY DEF Scenario, Untimed, TickleSmall
  <2>8. Fits(TickleSmall.radius, scenario.low, scenario.high)
    BY DEF Scenario, Untimed, TickleSmall, Fits
  <2>10. FitsBetween(TickleSmall.radius, scenario.low, scenario.high)
    BY DEF Scenario, Untimed, TickleSmall, FitsBetween, FitsAt, Middle
  <2> HIDE DEF scenario
  <2>9. Agree(TickleSmall, scenario)
    BY <2>2, <2>4, <2>5, <2>6, <2>7, <2>8, <2>10 DEF Agree
  <2> QED BY <2>1, <2>2, <2>3, <2>9
<1>11. CASE p = "tickle_fast" /\ ~s
  <2> DEFINE scenario == Scenario("tickle_reset", [[DefaultBehavior EXCEPT !.hitDelay = 120, !.timeoutDelay = 500] EXCEPT !.fade = 330],
                              78, 163, {330}, {0}, 128)
  <2>1. DrawFor(p, s) = TickleReset
    BY <1>11 DEF DrawFor
  <2>2. TickleReset.role = "tickle_reset"
    BY DEF TickleReset
  <2>3. ScenarioFor(p, "tickle_reset") = scenario
    BY <1>11 DEF ScenarioFor
  <2>4. scenario.role = "tickle_reset" /\ TickleReset.behavior = scenario.behavior
    BY <1>0 DEF Scenario, Untimed, TickleReset, FadingGrace
  <2>5. TickleReset.attempts <= scenario.attempts
    BY DEF Scenario, Untimed, TickleReset
  <2>6. \A end \in {"low", "high"} : /\ EndOf(end, TickleReset.timeouts) \in scenario.timeouts
                                    /\ EndOf(end, TickleReset.timeouts) > 0
    BY DEF Scenario, Untimed, TickleReset, NoTargetTimeout, FadingGrace
  <2>7. \A end \in {"low", "high"} : EndOf(end, TickleReset.dwells) \in scenario.dwells
    BY DEF Scenario, Untimed, TickleReset
  <2>8. Fits(TickleReset.radius, scenario.low, scenario.high)
    BY DEF Scenario, Untimed, TickleReset, Fits
  <2>10. FitsBetween(TickleReset.radius, scenario.low, scenario.high)
    BY DEF Scenario, Untimed, TickleReset, FitsBetween, FitsAt, Middle
  <2> HIDE DEF scenario
  <2>9. Agree(TickleReset, scenario)
    BY <2>2, <2>4, <2>5, <2>6, <2>7, <2>8, <2>10 DEF Agree
  <2> QED BY <2>1, <2>2, <2>3, <2>9
<1> QED BY <1>1, <1>2, <1>3, <1>4, <1>5, <1>6, <1>7, <1>8, <1>9, <1>10, <1>11 DEF PatternNames

LEMMA TargetIsDrawn ==
  ASSUME NEW o \in DOMAIN Pattern, NEW i \in Nat, NEW s \in BOOLEAN, NEW n \in Nat,
         NEW end \in Draws, NEW t, t = Target(o, i, s, n, end)
  PROVE  /\ Drawn(t) /\ t.block = o /\ t.event = n
         /\ Pattern[o] = "tickle_fast" => (IsSmall(t) <=> s)
<1> DEFINE d == DrawFor(Pattern[o], s)
           r == IF end = "low" THEN Rounded(d.radius[1]) ELSE RoundedBelow(d.radius[2])
<1>1. end \in {"low", "high"}
  BY TimelineAssumption
<1>2. Pattern[o] \in PatternNames
  BY BlockHasPattern
<1>3. SoundDraw(d) /\ (Pattern[o] = "tickle_fast" => (d.role = "tickle_small" <=> s))
  BY <1>2, DrawFacts
<1>4. AtLeastOne(r) \in Int
  <2>1. Fits(d.radius, ScenarioFor(Pattern[o], d.role).low, ScenarioFor(Pattern[o], d.role).high)
    BY <1>2, DrawAgrees DEF Agree
  <2> HIDE DEF d
  <2>2. r \in Int
    BY <2>1, RoundedIsInteger DEF Fits
  <2> QED BY <2>2 DEF AtLeastOne
<1>5. t = [event |-> n, block |-> o, index |-> i, role |-> d.role, behavior |-> d.behavior,
           attempts |-> d.attempts, radius |-> AtLeastOne(r),
           timeout |-> EndOf(end, d.timeouts), dwell |-> EndOf(end, d.dwells)]
  BY DEF Target
<1> HIDE DEF d, r
<1>6. t \in Targets
  BY <1>1, <1>3, <1>4, <1>5 DEF Targets, SoundDraw
<1>7. t.block = o /\ t.index = i /\ t.event = n /\ t.role = d.role
  BY <1>5
<1>8. Drawn(t)
  BY <1>6, <1>7 DEF Drawn
<1> QED BY <1>3, <1>7, <1>8 DEF IsSmall

\* The journal accepts whatever is drawn, at every sensitivity that is not coarse.
LEMMA DrawnIsAccepted ==
  ASSUME NEW t, Drawn(t), Sensitivity \notin CoarseSensitivities
  PROVE  RealizedTargetAccepted(t)
<1>1. PICK s \in BOOLEAN, end \in Draws : t = Target(t.block, t.index, s, t.event, end)
  BY DEF Drawn
<1> DEFINE p == Pattern[t.block]
           d == DrawFor(p, s)
           c == ScenarioFor(p, d.role)
           r == IF end = "low" THEN Rounded(d.radius[1]) ELSE RoundedBelow(d.radius[2])
<1>2. end \in {"low", "high"} /\ t \in Targets /\ t.block \in DOMAIN Pattern
  BY TimelineAssumption DEF Drawn, Targets
<1>3. p \in PatternNames
  BY <1>2, BlockHasPattern
<1>4. Agree(d, c) /\ SoundDraw(d)
  BY <1>3, DrawAgrees, DrawFacts
<1>5. /\ t.role = d.role /\ t.behavior = d.behavior /\ t.attempts = d.attempts
      /\ t.radius = AtLeastOne(r) /\ t.timeout = EndOf(end, d.timeouts)
      /\ t.dwell = EndOf(end, d.dwells)
  <2>1. t = [event |-> t.event, block |-> t.block, index |-> t.index, role |-> d.role,
             behavior |-> d.behavior, attempts |-> d.attempts, radius |-> AtLeastOne(r),
             timeout |-> EndOf(end, d.timeouts), dwell |-> EndOf(end, d.dwells)]
    BY <1>1 DEF Target
  <2> HIDE DEF d, r
  <2> QED BY <2>1
<1>6. FloorScaled(c.low) <= t.radius /\ t.radius <= CeilScaled(c.high) /\ t.radius >= 1
  <2>1. Fits(d.radius, c.low, c.high) /\ FitsBetween(d.radius, c.low, c.high)
    BY <1>4 DEF Agree
  <2>5. Sensitivity >= 45 \/ Sensitivity \in Middle
    BY SensitivityAssumption DEF CoarseSensitivities, Middle
  <2> HIDE DEF d, c
  <2>2. FloorScaled(c.low) <= AtLeastOne(r) /\ AtLeastOne(r) <= CeilScaled(c.high)
    BY <1>2, <2>1, <2>5, RadiusFits, RadiusFitsBetween
  <2>3. r \in Int
    BY <2>1, RoundedIsInteger DEF Fits
  <2>4. AtLeastOne(r) >= 1
    BY <2>3 DEF AtLeastOne
  <2> QED BY <1>5, <2>2, <2>4
<1>7. SpawnMargin >= 1
  <2> DEFINE x == 200 * 5 + 1 * Sensitivity
             y == 2 * 1 * Sensitivity
  <2>1. SpawnMargin = x \div y
    BY DEF SpawnMargin, Rounded
  <2>2. x \in Int /\ y \in Nat \ {0} /\ y <= x
    BY SensitivityAssumption
  <2>3. x \div y \in Int /\ x < y * (x \div y) + y
    <3> HIDE DEF x, y
    <3> QED BY <2>2, DivisionFacts
  <2>4. ASSUME x \div y < 1 PROVE FALSE
    <3> HIDE DEF x, y
    <3>1. y * (x \div y) <= y * 0
      BY <2>2, <2>3, <2>4, Scaling
    <3> QED BY <2>2, <2>3, <3>1
  <2> HIDE DEF x, y
  <2> QED BY <2>1, <2>3, <2>4
<1> HIDE DEF d, c, r, p
<1>8. ValidateRealizedScenario(t)
  <2>1. t.timeout \in c.timeouts /\ t.dwell \in c.dwells
    BY <1>2, <1>4, <1>5 DEF Agree
  <2> QED BY <1>4, <1>5, <1>6, <2>1 DEF ValidateRealizedScenario, Agree, c, p
<1>9. t.timeout > 0 /\ t.dwell >= 0 /\ t.event >= 0
  BY <1>2, <1>4, <1>5 DEF Agree, Targets
<1>10. ValidateBehavior(t.behavior)
  BY <1>2 DEF Targets, Behaviors, Tails, ValidateBehavior
<1> QED BY <1>2, <1>6, <1>7, <1>8, <1>9, <1>10 DEF RealizedTargetAccepted
------------------------------------------------------------------------------
(***************************************************************************)
(* The dwell window.                                                       *)
(***************************************************************************)
\* The smallest of some numbers.
LEMMA HasLeast ==
  ASSUME NEW Some, Some \subseteq Nat, Some # {}
  PROVE  \E n \in Some : \A m \in Some : n <= m
<1> DEFINE Less == {p \in Nat \X Nat : p[1] < p[2]}
<1>1. IsWellFoundedOn(Less, Nat)
  BY NatLessThanWellFounded, SMT DEF OpToRel
<1>2. \E x \in Some : \A y \in Some : <<y, x>> \notin Less
  <2> HIDE DEF Less
  <2> QED BY <1>1, WFMin
<1>3. ASSUME NEW x \in Some, NEW y \in Some, <<y, x>> \notin Less
      PROVE  x <= y
  BY <1>3
<1> QED
  <2> HIDE DEF Less
  <2> QED BY <1>2, <1>3

\* What a rule gives step by step, for as many steps as there are.
Iterates(N, V, v, step) ==
  \E f \in [0..N -> V] : f[0] = v /\ \A n \in 1..N : f[n] = step[<<n, f[n - 1]>>]

LEMMA StepByStep ==
  ASSUME NEW N \in Nat, NEW V, NEW v \in V, NEW step \in [(1..N) \X V -> V]
  PROVE  Iterates(N, V, v, step)
<1> DEFINE Goes(f, k) == f[0] = v /\ \A n \in 1..k : f[n] = step[<<n, f[n - 1]>>]
           Gone(k) == \E f \in [0..k -> V] : Goes(f, k)
           Wrong == {k \in 0..N : ~Gone(k)}
<1>1. Gone(0)
  <2>1. [k \in 0..0 |-> v] \in [0..0 -> V] /\ Goes([k \in 0..0 |-> v], 0)
    OBVIOUS
  <2> QED BY <2>1
<1>2. ASSUME NEW k \in 0..N, k # 0, Gone(k - 1) PROVE Gone(k)
  <2>1. PICK f \in [0..(k - 1) -> V] : Goes(f, k - 1)
    BY <1>2
  <2> DEFINE g == [n \in 0..k |-> IF n = k THEN step[<<k, f[k - 1]>>] ELSE f[n]]
  <2>2. k \in 1..N /\ k - 1 \in 0..(k - 1) /\ f[k - 1] \in V
    BY <1>2, <2>1
  <2>3. step[<<k, f[k - 1]>>] \in V
    BY <2>2
  <2>4. g \in [0..k -> V]
    BY <2>1, <2>3
  <2>5. g[0] = v
    BY <1>2, <2>1
  <2>6. ASSUME NEW n \in 1..k PROVE g[n] = step[<<n, g[n - 1]>>]
    <3>1. n - 1 \in 0..k /\ n - 1 # k /\ g[n - 1] = f[n - 1]
      BY <2>2
    <3>2. CASE n = k
      BY <3>1, <3>2
    <3>3. CASE n # k
      <4>1. n \in 1..(k - 1) /\ g[n] = f[n]
        BY <3>3, <2>2
      <4> QED BY <3>1, <4>1, <2>1
    <3> QED BY <3>2, <3>3
  <2> HIDE DEF g
  <2> QED BY <2>4, <2>5, <2>6
<1>3. Wrong = {}
  <2>1. SUFFICES ASSUME Wrong # {} PROVE FALSE
    OBVIOUS
  <2>2. PICK k \in Wrong : \A m \in Wrong : k <= m
    <3>1. Wrong \subseteq Nat
      OBVIOUS
    <3> HIDE DEF Wrong
    <3> QED BY <2>1, <3>1, HasLeast
  <2> HIDE DEF Gone
  <2>3. k \in 0..N /\ k # 0 /\ ~Gone(k)
    BY <2>2, <1>1
  <2>4. k - 1 \in 0..N /\ k - 1 \notin Wrong
    <3> HIDE DEF Wrong
    <3>1. k - 1 \in 0..N /\ ~(k <= k - 1)
      BY <2>3
    <3> QED BY <3>1, <2>2
  <2> QED BY <2>3, <2>4, <1>2
<1>4. Gone(N)
  <2> HIDE DEF Gone
  <2> QED BY <1>3
<1> QED BY <1>4 DEF Iterates

LEMMA MoveFacts ==
  ASSUME NEW l \in Lives
  PROVE  /\ Len(l.moves) \in Nat /\ DOMAIN l.moves = 1..Len(l.moves)
         /\ \A n \in 1..Len(l.moves) : l.moves[n].size \in Nat /\ l.moves[n].age \in Nat
<1>1. l.moves \in Seq(Moves)
  BY DEF Lives
<1> DEFINE m == l.moves
<1> HIDE DEF m
<1>2. m \in Seq(Moves)
  BY <1>1 DEF m
<1>3. Len(m) \in Nat /\ DOMAIN m = 1..Len(m) /\ \A n \in 1..Len(m) : m[n] \in Moves
  BY <1>2
<1>4. \A x \in Moves : x.size \in Nat /\ x.age \in Nat
  BY DEF Moves
<1> QED BY <1>3, <1>4 DEF m

\* The sum of a window, movement by movement.
Adds(l, window, f) ==
  /\ f \in [0..Len(l.moves) -> Nat] /\ f[0] = 0
  /\ \A n \in 1..Len(l.moves) :
        f[n] = IF n \in window THEN f[n - 1] + l.moves[n].size ELSE f[n - 1]

LEMMA SumFacts ==
  ASSUME NEW l \in Lives, NEW window
  PROVE  \E f : Adds(l, window, f) /\ SumOfMoves(l, window) = f[Len(l.moves)]
<1> DEFINE N == Len(l.moves)
           Body(h, n) == IF n = 0 THEN 0
                         ELSE IF n \in window THEN h[n - 1] + l.moves[n].size ELSE h[n - 1]
           sum == CHOOSE h : h = [n \in 0..N |-> Body(h, n)]
           step == [p \in (1..N) \X Nat |->
                      IF p[1] \in window THEN p[2] + l.moves[p[1]].size ELSE p[2]]
<1>1. l.moves \in Seq(Moves) /\ N \in Nat
  BY DEF Lives
<1>2. \A n \in 1..N : l.moves[n].size \in Nat
  BY MoveFacts
<1>3. step \in [(1..N) \X Nat -> Nat]
  <2>1. ASSUME NEW p \in (1..N) \X Nat
        PROVE  (IF p[1] \in window THEN p[2] + l.moves[p[1]].size ELSE p[2]) \in Nat
    <3>1. p[1] \in 1..N /\ p[2] \in Nat
      OBVIOUS
    <3>2. l.moves[p[1]].size \in Nat
      BY <3>1, <1>2
    <3> QED BY <3>1, <3>2
  <2> QED BY <2>1
<1>4. PICK f \in [0..N -> Nat] : f[0] = 0 /\ \A n \in 1..N : f[n] = step[<<n, f[n - 1]>>]
  <2> HIDE DEF step, N
  <2>1. 0 \in Nat /\ N \in Nat
    BY <1>1
  <2>2. Iterates(N, Nat, 0, step)
    BY <2>1, <1>3, StepByStep
  <2> QED BY <2>2 DEF Iterates
<1>5. \A n \in 1..N : f[n] = IF n \in window THEN f[n - 1] + l.moves[n].size ELSE f[n - 1]
  <2> HIDE DEF N
  <2>1. SUFFICES ASSUME NEW n \in 1..N
                 PROVE  f[n] = IF n \in window THEN f[n - 1] + l.moves[n].size ELSE f[n - 1]
    OBVIOUS
  <2>2. f[n - 1] \in Nat
    BY <1>4, <1>1
  <2>3. <<n, f[n - 1]>> \in (1..N) \X Nat
    BY <2>2
  <2> QED BY <2>3, <1>4
<1>6. f = [n \in 0..N |-> Body(f, n)]
  <2> HIDE DEF N
  <2>1. ASSUME NEW n \in 0..N PROVE f[n] = Body(f, n)
    BY <1>1, <1>4, <1>5
  <2> HIDE DEF Body
  <2> QED BY <2>1
<1>7. sum = [n \in 0..N |-> Body(sum, n)]
  <2> HIDE DEF Body, N
  <2> QED BY <1>6
<1> DEFINE Wrong == {n \in 0..N : sum[n] # f[n]}
<1>8. Wrong = {}
  <2>1. SUFFICES ASSUME Wrong # {} PROVE FALSE
    OBVIOUS
  <2> HIDE DEF sum, N
  <2>2. PICK k \in Wrong : \A m \in Wrong : k <= m
    <3>1. Wrong \subseteq Nat
      BY <1>1
    <3> HIDE DEF Wrong
    <3> QED BY <2>1, <3>1, HasLeast
  <2>3. k \in 0..N /\ sum[k] # f[k]
    BY <2>2
  <2>4. sum[k] = Body(sum, k) /\ f[k] = Body(f, k)
    <3> HIDE DEF Body
    <3> QED BY <1>6, <1>7, <2>3
  <2>5. k # 0
    BY <2>3, <2>4
  <2>6. sum[k - 1] = f[k - 1]
    <3>1. k - 1 \in 0..N /\ ~(k <= k - 1)
      BY <1>1, <2>3, <2>5
    <3>2. k - 1 \notin Wrong
      <4> HIDE DEF Wrong
      <4> QED BY <3>1, <2>2
    <3> QED BY <3>1, <3>2
  <2> QED BY <2>3, <2>4, <2>5, <2>6
<1>9. SumOfMoves(l, window) = sum[N]
  BY DEF SumOfMoves
<1>10. sum[N] = f[N]
  <2>1. N \in 0..N
    BY <1>1
  <2> HIDE DEF sum, N
  <2> QED BY <1>8, <2>1
<1>11. Adds(l, window, f)
  BY <1>4, <1>5 DEF Adds
<1> HIDE DEF sum
<1> QED BY <1>9, <1>10, <1>11

LEMMA SumOfNothing ==
  ASSUME NEW l \in Lives, NEW window, window \cap (1..Len(l.moves)) = {}
  PROVE  SumOfMoves(l, window) = 0
<1>1. PICK f : Adds(l, window, f) /\ SumOfMoves(l, window) = f[Len(l.moves)]
  BY SumFacts
<1> DEFINE N == Len(l.moves)
           Wrong == {n \in 0..N : f[n] # 0}
<1>2. N \in Nat
  BY DEF Lives
<1>3. Wrong = {}
  <2>1. SUFFICES ASSUME Wrong # {} PROVE FALSE
    OBVIOUS
  <2> HIDE DEF N
  <2>2. PICK k \in Wrong : \A m \in Wrong : k <= m
    <3>1. Wrong \subseteq Nat
      BY <1>2
    <3> HIDE DEF Wrong
    <3> QED BY <2>1, <3>1, HasLeast
  <2>3. k \in 1..N
    BY <2>2, <1>1, <1>2 DEF Adds
  <2>4. f[k - 1] = 0
    <3>1. k - 1 \in 0..N /\ ~(k <= k - 1)
      BY <1>2, <2>3
    <3>2. k - 1 \notin Wrong
      <4> HIDE DEF Wrong
      <4> QED BY <3>1, <2>2
    <3> QED BY <3>1, <3>2
  <2>5. k \notin window
    BY <2>3 DEF N
  <2>6. f[k] = f[k - 1]
    BY <2>3, <2>5, <1>1 DEF Adds, N
  <2> QED BY <2>2, <2>4, <2>6
<1> QED BY <1>1, <1>2, <1>3

LEMMA SumGrows ==
  ASSUME NEW l \in Lives, NEW v, NEW w, v \subseteq w
  PROVE  /\ SumOfMoves(l, v) \in Nat /\ SumOfMoves(l, w) \in Nat
         /\ SumOfMoves(l, v) <= SumOfMoves(l, w)
<1> DEFINE N == Len(l.moves)
<1>1. PICK f : Adds(l, v, f) /\ SumOfMoves(l, v) = f[N]
  BY SumFacts
<1>2. PICK g : Adds(l, w, g) /\ SumOfMoves(l, w) = g[N]
  BY SumFacts
<1>3. N \in Nat /\ f \in [0..N -> Nat] /\ g \in [0..N -> Nat]
  BY <1>1, <1>2 DEF Lives, Adds
<1> DEFINE Wrong == {n \in 0..N : ~(f[n] <= g[n])}
<1>4. Wrong = {}
  <2>1. SUFFICES ASSUME Wrong # {} PROVE FALSE
    OBVIOUS
  <2>2. \A n \in 1..N : l.moves[n].size \in Nat
    BY MoveFacts
  <2>3. /\ f[0] = 0 /\ g[0] = 0
        /\ \A n \in 1..N : f[n] = IF n \in v THEN f[n - 1] + l.moves[n].size ELSE f[n - 1]
        /\ \A n \in 1..N : g[n] = IF n \in w THEN g[n - 1] + l.moves[n].size ELSE g[n - 1]
    BY <1>1, <1>2 DEF Adds
  <2> HIDE DEF N
  <2>4. PICK k \in Wrong : \A m \in Wrong : k <= m
    <3>1. Wrong \subseteq Nat
      BY <1>3
    <3> HIDE DEF Wrong
    <3> QED BY <2>1, <3>1, HasLeast
  <2>5. k \in 1..N
    BY <2>3, <2>4, <1>3
  <2>6. f[k - 1] <= g[k - 1]
    <3>1. k - 1 \in 0..N /\ ~(k <= k - 1)
      BY <1>3, <2>5
    <3>2. k - 1 \notin Wrong
      <4> HIDE DEF Wrong
      <4> QED BY <3>1, <2>4
    <3> QED BY <3>1, <3>2
  <2>7. k - 1 \in 0..N /\ f[k - 1] \in Nat /\ g[k - 1] \in Nat /\ l.moves[k].size \in Nat
    BY <1>3, <2>2, <2>5
  <2>8. f[k] <= g[k]
    BY <2>3, <2>5, <2>6, <2>7
  <2> QED BY <2>4, <2>8
<1>5. N \in 0..N
  BY <1>3
<1> HIDE DEF N
<1> QED BY <1>1, <1>2, <1>3, <1>4, <1>5

\* A live event whose dwell counts.
DwellingLive(l) == l \in Lives /\ l.inside \in Nat /\ InOrder(l.moves)

LEMMA WindowFacts ==
  ASSUME NEW l, DwellingLive(l), NEW m \in Int
  PROVE  /\ InWindow(l, m) \subseteq 1..Len(l.moves)
         /\ \A i \in 1..Len(l.moves) :
              i \in InWindow(l, m) <=>
                /\ -l.moves[i].age > l.target.dwell - l.inside
                /\ -l.moves[i].age > m - DwellQuietWindow /\ -l.moves[i].age <= m
<1>1. DOMAIN l.moves = 1..Len(l.moves)
  BY MoveFacts DEF DwellingLive
<1> QED BY <1>1 DEF InWindow

LEMMA LoudestFacts ==
  ASSUME NEW l \in Lives, NEW w \in SUBSET (1..Len(l.moves)), ~Quiet(l, w)
  PROVE  /\ LastLoud(l, w) \in w
         /\ ~Quiet(l, {j \in w : j >= LastLoud(l, w)})
<1> DEFINE N == Len(l.moves)
           After(n) == {j \in w : j > n}
           Some == {n \in Nat : Quiet(l, After(n))}
           Loud(k) == k \in w /\ Quiet(l, After(k)) /\ \A i \in w : i < k => ~Quiet(l, After(i))
<1>1. N \in Nat /\ w \subseteq Nat /\ \A j \in w : j \in Nat /\ j > 0
  BY MoveFacts
<1>2. N \in Some
  <2>1. After(N) \cap (1..N) = {}
    BY <1>1
  <2>2. SumOfMoves(l, After(N)) = 0
    <3> HIDE DEF After
    <3> QED BY <2>1, SumOfNothing
  <2>3. Quiet(l, After(N))
    BY <2>2 DEF Quiet, DwellQuietSum
  <2> QED BY <1>1, <2>3
<1>3. PICK n \in Some : \A m \in Some : n <= m
  <2>1. Some \subseteq Nat /\ Some # {}
    BY <1>2
  <2> HIDE DEF Some
  <2> QED BY <2>1, HasLeast
<1>4. n \in Nat /\ Quiet(l, After(n))
  BY <1>3
<1>5. \A i \in Nat : i < n => ~Quiet(l, After(i))
  <2> HIDE DEF After
  <2> QED BY <1>3, <1>4
<1>6. n \in w
  <2>1. n # 0
    <3>1. After(0) = w
      BY <1>1
    <3> QED BY <3>1, <1>4
  <2>2. n - 1 \in Nat /\ n - 1 < n
    BY <1>4, <2>1
  <2>3. ASSUME n \notin w PROVE FALSE
    <3>1. After(n - 1) = After(n)
      <4>1. \A j \in w : j > n - 1 <=> j > n
        BY <1>1, <1>4, <2>3
      <4> QED BY <4>1
    <3> QED BY <3>1, <1>4, <1>5, <2>2
  <2> QED BY <2>3
<1>7. Loud(n)
  <2> HIDE DEF After
  <2> QED BY <1>1, <1>4, <1>5, <1>6
<1>8. LastLoud(l, w) = CHOOSE k \in w : Quiet(l, After(k)) /\ \A i \in w : i < k => ~Quiet(l, After(i))
  BY DEF LastLoud
<1>9. Loud(LastLoud(l, w))
  <2> HIDE DEF After
  <2> QED BY <1>7, <1>8
<1> DEFINE k == LastLoud(l, w)
<1> HIDE DEF k
<1>10. Loud(k)
  BY <1>9 DEF k
<1>11. k = n
  <2> HIDE DEF After
  <2>1. k \in Nat /\ n \in Nat
    BY <1>1, <1>4, <1>10
  <2>2. ~(k < n)
    BY <1>5, <1>10, <2>1
  <2>3. ~(n < k)
    BY <1>4, <1>6, <1>10
  <2> QED BY <2>1, <2>2, <2>3
<1>12. ~Quiet(l, {j \in w : j >= n})
  <2>1. n # 0
    <3>1. After(0) = w
      BY <1>1
    <3> QED BY <3>1, <1>4
  <2>2. {j \in w : j >= n} = After(n - 1)
    <3>1. \A j \in w : j >= n <=> j > n - 1
      BY <1>1, <1>4
    <3> QED BY <3>1
  <2>3. n - 1 \in Nat /\ n - 1 < n
    BY <1>4, <2>1
  <2> HIDE DEF After
  <2> QED BY <2>2, <2>3, <1>5
<1> QED BY <1>6, <1>11, <1>12 DEF k

\* A window within another is no louder.
LEMMA QuietWithin ==
  ASSUME NEW l \in Lives, NEW v, NEW w, v \subseteq w, Quiet(l, w)
  PROVE  Quiet(l, v)
BY SumGrows DEF Quiet, DwellQuietSum

\* One round of the loop.
LEMMA LaterFacts ==
  ASSUME NEW l, DwellingLive(l), NEW c \in Int
  PROVE  /\ Later(l, c) \in Int /\ Later(l, c) >= c
         /\ Quiet(l, InWindow(l, c)) => Later(l, c) = c
         /\ \A m \in c..(Later(l, c) - 1) : ~Quiet(l, InWindow(l, m))
         /\ ~Quiet(l, InWindow(l, c)) =>
              \E k \in InWindow(l, c) : \A i \in InWindow(l, Later(l, c)) : i > k
<1> DEFINE w == InWindow(l, c)
           k == LastLoud(l, w)
           expiry == DwellQuietWindow - l.moves[k].age
<1>1. Later(l, c) = IF Quiet(l, w) \/ expiry <= c THEN c ELSE expiry
  BY DEF Later
<1>2. CASE Quiet(l, w)
  <2>1. Later(l, c) = c
    BY <1>1, <1>2
  <2> QED BY <2>1, <1>2
<1>3. CASE ~Quiet(l, w)
  <2> DEFINE at(i) == -l.moves[i].age
             N == Len(l.moves)
  <2>1. w \subseteq 1..N /\ l \in Lives
    BY WindowFacts DEF DwellingLive
  <2>2. k \in w /\ ~Quiet(l, {j \in w : j >= k})
    <3> HIDE DEF w, k
    <3> QED BY <1>3, <2>1, LoudestFacts DEF k
  <2>3. /\ N \in Nat /\ \A i \in 1..N : at(i) \in Int
        /\ l.target.dwell - l.inside \in Int
    BY SMTT(30), <2>1, MoveFacts DEF DwellingLive, Lives, Targets
  <2>4. \A i, j \in 1..N : i <= j => at(i) <= at(j)
    <3>1. \A i, j \in 1..N : i < j => l.moves[j].age <= l.moves[i].age
      BY <2>1, MoveFacts DEF DwellingLive, InOrder
    <3> QED BY <2>1, <3>1, MoveFacts
  <2>5. \A m \in Int : \A i \in 1..N :
          i \in InWindow(l, m) <=> /\ at(i) > l.target.dwell - l.inside
                                   /\ at(i) > m - DwellQuietWindow /\ at(i) <= m
    BY WindowFacts
  <2>6. expiry = at(k) + DwellQuietWindow /\ k \in 1..N
    <3>1. k \in 1..N
      BY <2>1, <2>2
    <3>2. l.moves[k].age \in Nat
      BY <2>1, <3>1, MoveFacts
    <3> HIDE DEF k
    <3> QED BY <3>1, <3>2 DEF DwellQuietWindow
  <2>w. DwellQuietWindow \in Nat /\ DwellQuietWindow > 0
    BY DEF DwellQuietWindow
  <2> HIDE DEF at, N, k, expiry
  <2>7. at(k) > c - DwellQuietWindow /\ at(k) > l.target.dwell - l.inside /\ at(k) <= c
    BY <2>2, <2>5, <2>6
  <2>8. expiry \in Int /\ expiry > c
    BY <2>3, <2>6, <2>7, <2>w
  <2>9. Later(l, c) = expiry
    BY <1>1, <1>3, <2>8
  <2>10. ASSUME NEW m \in c..(expiry - 1)
         PROVE  ~Quiet(l, InWindow(l, m))
    <3>0. m \in Int /\ c <= m /\ m < expiry
      BY <2>8
    <3>1. ASSUME NEW j \in w, j >= k PROVE j \in InWindow(l, m)
      <4>1. j \in 1..N
        BY <2>1 DEF N
      <4>2. at(j) > l.target.dwell - l.inside /\ at(j) <= c
        BY <2>5, <4>1
      <4>3. at(k) <= at(j)
        BY <2>4, <2>6, <3>1, <4>1
      <4>4. at(j) > m - DwellQuietWindow /\ at(j) <= m
        BY <2>3, <2>6, <2>w, <3>0, <4>1, <4>2, <4>3
      <4> QED BY <2>5, <3>0, <4>1, <4>2, <4>4
    <3>2. {j \in w : j >= k} \subseteq InWindow(l, m)
      BY <3>1
    <3> HIDE DEF w
    <3> QED BY <2>1, <2>2, <3>2, QuietWithin
  <2>11. \A i \in InWindow(l, expiry) : i > k
    <3>1. SUFFICES ASSUME NEW i \in InWindow(l, expiry), ~(i > k) PROVE FALSE
      OBVIOUS
    <3>2. i \in 1..N
      BY <2>8, WindowFacts DEF N
    <3>3. at(i) > expiry - DwellQuietWindow
      BY <2>5, <2>8, <3>2
    <3>4. at(i) <= at(k)
      BY <2>3, <2>4, <2>6, <3>1, <3>2
    <3> QED BY <2>3, <2>6, <2>w, <3>2, <3>3, <3>4
  <2> HIDE DEF w
  <2> QED BY <1>3, <2>2, <2>8, <2>9, <2>10, <2>11 DEF w
<1> QED BY <1>2, <1>3

LEMMA QuietFromFacts ==
  ASSUME NEW l, DwellingLive(l), NEW earliest \in Int
  PROVE  LET found == QuietFrom(l, earliest)
         IN /\ found \in Int /\ found >= earliest /\ Quiet(l, InWindow(l, found))
            /\ \A m \in earliest..(found - 1) : ~Quiet(l, InWindow(l, m))
<1> DEFINE N == Len(l.moves)
           R == Len(l.moves) + 1
           Body(h, n) == IF n = 0 THEN earliest ELSE Later(l, h[n - 1])
           candidate == CHOOSE h : h = [n \in 0..R |-> Body(h, n)]
           step == [p \in (1..R) \X Int |-> Later(l, p[2])]
<1>1. l \in Lives /\ N \in Nat /\ R \in Nat /\ R = N + 1
  BY MoveFacts DEF DwellingLive
<1>2. step \in [(1..R) \X Int -> Int]
  <2>1. ASSUME NEW p \in (1..R) \X Int PROVE Later(l, p[2]) \in Int
    <3>1. p[2] \in Int
      OBVIOUS
    <3> QED BY <3>1, LaterFacts
  <2> QED BY <2>1
<1>3. PICK f \in [0..R -> Int] : f[0] = earliest /\ \A n \in 1..R : f[n] = step[<<n, f[n - 1]>>]
  <2> HIDE DEF step, R
  <2>1. Iterates(R, Int, earliest, step)
    BY <1>1, <1>2, StepByStep
  <2> QED BY <2>1 DEF Iterates
<1>4. \A n \in 1..R : f[n] = Later(l, f[n - 1])
  <2> HIDE DEF R
  <2>1. SUFFICES ASSUME NEW n \in 1..R PROVE f[n] = Later(l, f[n - 1])
    OBVIOUS
  <2>2. f[n - 1] \in Int
    BY <1>1, <1>3
  <2>3. <<n, f[n - 1]>> \in (1..R) \X Int
    BY <2>2
  <2> QED BY <2>3, <1>3
<1>5. f = [n \in 0..R |-> Body(f, n)]
  <2> HIDE DEF R
  <2>1. ASSUME NEW n \in 0..R PROVE f[n] = Body(f, n)
    BY <1>1, <1>3, <1>4
  <2> HIDE DEF Body
  <2> QED BY <2>1, <1>3
<1>6. candidate = [n \in 0..R |-> Body(candidate, n)]
  <2> HIDE DEF Body, R
  <2> QED BY <1>5
<1>7. QuietFrom(l, earliest) = candidate[R]
  BY DEF QuietFrom
<1> HIDE DEF candidate, N, R
<1> DEFINE InvAt(n) ==
             LET c == candidate[n]
             IN /\ c \in Int /\ c >= earliest
                /\ \A m \in earliest..(c - 1) : ~Quiet(l, InWindow(l, m))
                /\ Quiet(l, InWindow(l, c)) \/ \A i \in InWindow(l, c) : i > n
           Wrong == {n \in 0..R : ~InvAt(n)}
<1>8. InvAt(0)
  <2>1. candidate[0] = earliest
    BY <1>1, <1>6
  <2>2. \A i \in InWindow(l, earliest) : i > 0
    BY <1>1, WindowFacts DEF N
  <2> QED BY <2>1, <2>2
<1>9. ASSUME NEW n \in 1..R, InvAt(n - 1) PROVE InvAt(n)
  <2> DEFINE c == candidate[n - 1]
  <2>1. candidate[n] = Later(l, c)
    BY <1>1, <1>6
  <2>2. /\ c \in Int /\ c >= earliest
        /\ \A m \in earliest..(c - 1) : ~Quiet(l, InWindow(l, m))
        /\ Quiet(l, InWindow(l, c)) \/ \A i \in InWindow(l, c) : i > n - 1
    BY <1>9
  <2> HIDE DEF c
  <2>3. /\ Later(l, c) \in Int /\ Later(l, c) >= c
        /\ Quiet(l, InWindow(l, c)) => Later(l, c) = c
        /\ \A m \in c..(Later(l, c) - 1) : ~Quiet(l, InWindow(l, m))
        /\ ~Quiet(l, InWindow(l, c)) =>
              \E k \in InWindow(l, c) : \A i \in InWindow(l, Later(l, c)) : i > k
    BY <2>2, LaterFacts
  <2>4. \A m \in earliest..(Later(l, c) - 1) : ~Quiet(l, InWindow(l, m))
    <3>1. \A m \in earliest..(Later(l, c) - 1) : m \in earliest..(c - 1) \/ m \in c..(Later(l, c) - 1)
      BY <2>2, <2>3
    <3> QED BY <2>2, <2>3, <3>1
  <2>5. Quiet(l, InWindow(l, Later(l, c))) \/ \A i \in InWindow(l, Later(l, c)) : i > n
    <3>1. CASE Quiet(l, InWindow(l, c))
      BY <2>3, <3>1
    <3>2. CASE ~Quiet(l, InWindow(l, c))
      <4>1. PICK k \in InWindow(l, c) : \A i \in InWindow(l, Later(l, c)) : i > k
        BY <2>3, <3>2
      <4>2. k > n - 1 /\ k \in Nat /\ n \in Nat
        BY <1>1, <2>2, <3>2, <4>1, WindowFacts
      <4>3. \A i \in InWindow(l, Later(l, c)) : i \in Nat
        BY <1>1, <2>3, WindowFacts
      <4> QED BY <4>1, <4>2, <4>3
    <3> QED BY <3>1, <3>2
  <2>6. Later(l, c) >= earliest
    BY <2>2, <2>3
  <2> QED BY <2>1, <2>3, <2>4, <2>5, <2>6
<1>10. Wrong = {}
  <2>1. SUFFICES ASSUME Wrong # {} PROVE FALSE
    OBVIOUS
  <2>2. PICK k \in Wrong : \A m \in Wrong : k <= m
    <3>1. Wrong \subseteq Nat
      BY <1>1
    <3> HIDE DEF Wrong
    <3> QED BY <2>1, <3>1, HasLeast
  <2> HIDE DEF InvAt
  <2>3. k \in 0..R /\ ~InvAt(k)
    BY <2>2
  <2>4. k \in 1..R
    BY <1>1, <1>8, <2>3
  <2>5. k - 1 \in 0..R /\ k - 1 \notin Wrong
    <3>1. k - 1 \in 0..R /\ ~(k <= k - 1)
      BY <1>1, <2>4
    <3> HIDE DEF Wrong
    <3> QED BY <3>1, <2>2
  <2> QED BY <1>9, <2>3, <2>4, <2>5
<1>11. InvAt(R)
  <2>1. R \in 0..R
    BY <1>1
  <2> HIDE DEF InvAt
  <2> QED BY <1>10, <2>1
<1>12. Quiet(l, InWindow(l, candidate[R]))
  <2>1. CASE \A i \in InWindow(l, candidate[R]) : i > R
    <3>1. InWindow(l, candidate[R]) \subseteq 1..N
      BY <1>11, WindowFacts DEF N
    <3>2. InWindow(l, candidate[R]) \cap (1..N) = {}
      <4>1. \A i \in 1..N : ~(i > R)
        BY <1>1
      <4> QED BY <2>1, <4>1
    <3>3. SumOfMoves(l, InWindow(l, candidate[R])) = 0
      BY <1>1, <3>2, SumOfNothing DEF N
    <3> QED BY <3>3 DEF Quiet, DwellQuietSum
  <2> QED BY <1>11, <2>1
<1> DEFINE c == candidate[R]
<1>13. c \in Int /\ c >= earliest /\ Quiet(l, InWindow(l, c))
       /\ \A m \in earliest..(c - 1) : ~Quiet(l, InWindow(l, m))
  BY <1>11, <1>12
<1> HIDE DEF c, InvAt
<1>14. QuietFrom(l, earliest) = c
  BY <1>7 DEF c
<1> QED BY <1>13, <1>14

\* A dwell is held for its time and the quiet window, and ends at once after that.
LEMMA CompletionFacts ==
  ASSUME NEW l, DwellingLive(l)
  PROVE  LET found == NextDwellCompletion(l)
             earliest == l.target.dwell - l.inside + DwellQuietWindow
         IN /\ found \in Int /\ found >= earliest /\ Quiet(l, InWindow(l, found))
            /\ \A m \in earliest..(found - 1) : ~Quiet(l, InWindow(l, m))
<1> DEFINE earliest == l.target.dwell - l.inside + DwellQuietWindow
<1>1. earliest \in Int
  BY DEF DwellingLive, Lives, Targets, DwellQuietWindow
<1>2. NextDwellCompletion(l) = QuietFrom(l, earliest)
  BY DEF NextDwellCompletion
<1> HIDE DEF earliest
<1>3. LET found == NextDwellCompletion(l)
      IN /\ found \in Int /\ found >= earliest /\ Quiet(l, InWindow(l, found))
         /\ \A m \in earliest..(found - 1) : ~Quiet(l, InWindow(l, m))
  BY <1>1, <1>2, QuietFromFacts
<1> QED BY <1>3 DEF earliest
------------------------------------------------------------------------------
(***************************************************************************)
(* The engine's records.                                                   *)
(***************************************************************************)
LEMMA NoneIsNone == NoTarget \notin Targets /\ NoLive \notin Lives
<1>1. NoTarget \notin Targets
  BY DEF NoTarget, Targets, Never
<1>2. NoLive \notin Lives
  <2>1. \A l \in Lives : l.target \in Targets
    BY DEF Lives
  <2>2. NoLive.target = NoTarget
    BY DEF NoLive
  <2> QED BY <1>1, <2>1, <2>2
<1> QED BY <1>1, <1>2

LEMMA SequenceFacts ==
  ASSUME NEW S, NEW s \in Seq(S)
  PROVE  Len(s) \in Nat /\ DOMAIN s = 1..Len(s) /\ \A i \in 1..Len(s) : s[i] \in S
BY LenProperties, ElementOfSeq

LEMMA PlanFacts ==
  /\ Len(Plan) \in Nat \ {0} /\ DOMAIN Plan = 1..Len(Plan)
  /\ \A i \in 1..Len(Plan) : Plan[i] \in DOMAIN Pattern /\ Plan[i] \in Nat
  /\ \A i, j \in 1..Len(Plan) : i < j => Plan[i] < Plan[j]
  /\ \A i, j \in 1..Len(Plan) : i # j => Plan[i] # Plan[j]
<1>1. Plan \in Seq(DOMAIN Pattern) /\ Plan # <<>>
      /\ \A i, j \in DOMAIN Plan : i < j => Plan[i] < Plan[j]
  BY TimelineAssumption
<1>2. Len(Plan) \in Nat \ {0}
  <2> HIDE DEF Pattern
  <2> QED BY <1>1, EmptySeq
<1>3. DOMAIN Plan = 1..Len(Plan) /\ \A i \in 1..Len(Plan) : Plan[i] \in DOMAIN Pattern
  BY <1>1, SequenceFacts
<1>4. \A i \in 1..Len(Plan) : Plan[i] \in Nat
  BY <1>3, OrdinalsAreNaturals
<1>5. \A i, j \in 1..Len(Plan) : i < j => Plan[i] < Plan[j]
  BY <1>1, <1>3
<1>6. \A i, j \in 1..Len(Plan) : i # j => Plan[i] # Plan[j]
  <2> SUFFICES ASSUME NEW i \in 1..Len(Plan), NEW j \in 1..Len(Plan), i # j
               PROVE  Plan[i] # Plan[j]
    OBVIOUS
  <2>1. i \in Int /\ j \in Int /\ Plan[i] \in Int /\ Plan[j] \in Int
    BY <1>2, <1>4
  <2>2. i < j \/ j < i
    BY <2>1
  <2>3. Plan[i] < Plan[j] \/ Plan[j] < Plan[i]
    BY <2>2, <1>5
  <2> QED BY <2>1, <2>3
<1> QED BY <1>2, <1>3, <1>4, <1>5, <1>6

\* The fields of an engine.
LEMMA EngineFields ==
  ASSUME NEW e \in Engines
  PROVE  /\ e.state \in States /\ e.reason \in Technical \cup {"none"} /\ e.focused \in BOOLEAN
         /\ e.countdown \in Nat /\ e.left \in 0..BlockMs /\ e.delay \in Nat
         /\ e.index \in 0..Len(Plan) /\ e.over \in BOOLEAN /\ e.refused \in BOOLEAN
         /\ e.pending \in Targets \cup {NoTarget} /\ e.live \in Lives \cup {NoLive}
         /\ e.generator \in Generators
         /\ e.events \in Seq(Events) /\ e.results \in Seq(Results)
BY DEF Engines

LEMMA BlockTime == BlockMs \in Nat /\ 250 <= BlockMs /\ BlockMs <= 60000
<1>1. BlockMs \in MinimumUsefulSpawn..BlockDuration
  BY TimelineAssumption
<1>2. MinimumUsefulSpawn = 250 /\ BlockDuration = 60000
  BY DEF MinimumUsefulSpawn, BlockDuration
<1> QED BY <1>1, <1>2

LEMMA OlderFacts ==
  ASSUME NEW l \in Lives, NEW d \in Nat
  PROVE  LET o == Older(l, d)
         IN /\ o \in Lives
            /\ o.target = l.target /\ o.natural = l.natural /\ o.plan = l.plan
            /\ o.streak = l.streak /\ o.resolved = Aged(l.resolved, d)
            /\ o.quiet = l.quiet + d /\ o.age = l.age + d /\ o.inside = Aged(l.inside, d)
            /\ InOrder(l.moves) => InOrder(o.moves)
<1> DEFINE o == Older(l, d)
           aged == OlderMoves(l.moves, d)
<1>1. /\ l.target \in Targets /\ l.age \in Nat /\ l.inside \in Nat \cup {Never}
      /\ l.streak \in Nat /\ l.natural \in Naturals0 \cup {"none"}
      /\ l.resolved \in Nat \cup {Never} /\ l.quiet \in Nat /\ l.plan \in Plans
      /\ l.moves \in Seq(Moves)
      /\ l = [target |-> l.target, age |-> l.age, inside |-> l.inside, streak |-> l.streak,
              moves |-> l.moves, natural |-> l.natural, resolved |-> l.resolved,
              quiet |-> l.quiet, plan |-> l.plan]
  BY DEF Lives
<1>2. /\ DOMAIN l.moves = 1..Len(l.moves) /\ Len(l.moves) \in Nat
      /\ \A n \in 1..Len(l.moves) : l.moves[n] \in Moves
  BY <1>1, SequenceFacts
<1>3. \A n \in 1..Len(l.moves) : aged[n] \in Moves /\ aged[n].age = l.moves[n].age + d
  BY SMTT(30), <1>2 DEF Moves, OlderMoves
<1>4. aged \in Seq(Moves) /\ DOMAIN aged = 1..Len(l.moves)
  <2>1. aged \in [1..Len(l.moves) -> Moves]
    BY <1>2, <1>3 DEF OlderMoves
  <2> HIDE DEF aged
  <2>2. DOMAIN aged = 1..Len(l.moves)
    BY <2>1
  <2> QED BY <1>2, <2>1, <2>2, SeqDef
<1>5. InOrder(l.moves) => InOrder(aged)
  <2>1. \A n \in 1..Len(l.moves) : l.moves[n].age \in Int /\ aged[n].age = l.moves[n].age + d
    BY <1>2, <1>3 DEF Moves
  <2> HIDE DEF aged
  <2> QED BY SMTT(30), <2>1, <1>2, <1>4 DEF InOrder
<1>6. Aged(l.inside, d) \in Nat \cup {Never} /\ Aged(l.resolved, d) \in Nat \cup {Never}
  BY <1>1 DEF Aged
<1>7. o = [target |-> l.target, age |-> l.age + d, inside |-> Aged(l.inside, d),
           streak |-> l.streak, moves |-> aged, natural |-> l.natural,
           resolved |-> Aged(l.resolved, d), quiet |-> l.quiet + d, plan |-> l.plan]
  <2> HIDE DEF aged
  <2>1. o = [l EXCEPT !.age = l.age + d, !.inside = Aged(l.inside, d), !.moves = aged,
                      !.resolved = Aged(l.resolved, d), !.quiet = l.quiet + d]
    BY NoneIsNone DEF Older, aged
  <2> HIDE DEF o
  <2> QED BY <2>1, <1>1
<1> HIDE DEF o, aged
<1>8. o \in Lives
  BY <1>1, <1>4, <1>6, <1>7 DEF Lives
<1>9. /\ o.target = l.target /\ o.natural = l.natural /\ o.plan = l.plan
      /\ o.streak = l.streak /\ o.resolved = Aged(l.resolved, d)
      /\ o.quiet = l.quiet + d /\ o.age = l.age + d /\ o.inside = Aged(l.inside, d)
      /\ o.moves = aged
  BY <1>7
<1> QED BY <1>5, <1>8, <1>9 DEF o

\* What is recorded does not depend on the rest of the engine.
LEMMA RecordedSame ==
  ASSUME NEW e, NEW f, Recorded(e), f.events = e.events, f.results = e.results,
         \A i \in DOMAIN e.results : OpenScore(f, i) = OpenScore(e, i)
  PROVE  Recorded(f)
<1>1. EventsInv(f)
  <2>1. EventsInv(e)
    BY DEF Recorded
  <2>2. \A t, n : Alternates(f, t, n) <=> Alternates(e, t, n)
    BY DEF Alternates, ResetHit
  <2> QED BY <2>1, <2>2 DEF EventsInv
<1>2. ASSUME NEW i \in DOMAIN f.results PROVE Tallied(f, i)
  <2>1. Tallied(e, i) /\ OpenScore(f, i) = OpenScore(e, i)
    BY DEF Recorded
  <2>2. \A b : Of(f, b) = Of(e, b)
    BY DEF Of
  <2>3. \A b : Scored(f, b) = Scored(e, b) /\ Cut(f, b) = Cut(e, b)
    BY <2>2 DEF Scored, Cut
  <2> QED BY <2>1, <2>2, <2>3 DEF Tallied
<1> QED BY <1>1, <1>2 DEF Recorded

\* The moves of the clock.
LEMMA MovedShape ==
  ASSUME NEW e \in Engines, NEW d \in Nat, NEW f, f = MoveClockTo(e, d)
  PROVE  /\ f \in Engines
         /\ f.state = e.state /\ f.reason = e.reason /\ f.focused = e.focused
         /\ f.index = e.index /\ f.over = e.over /\ f.refused = e.refused
         /\ f.pending = e.pending /\ f.generator = e.generator
         /\ f.events = e.events /\ f.results = e.results
         /\ f.left = (IF Consumes(e) THEN NotBelowZero(e.left - d) ELSE e.left)
         /\ f.countdown = NotBelowZero(e.countdown - d)
         /\ f.delay = NotBelowZero(e.delay - d) /\ f.live = Older(e.live, d)
<1> DEFINE left == IF Consumes(e) THEN NotBelowZero(e.left - d) ELSE e.left
<1>1. /\ left \in 0..BlockMs /\ NotBelowZero(e.countdown - d) \in Nat
      /\ NotBelowZero(e.delay - d) \in Nat
  BY EngineFields, BlockTime DEF NotBelowZero
<1>2. Older(e.live, d) \in Lives \cup {NoLive}
  <2>1. CASE e.live = NoLive
    BY <2>1 DEF Older
  <2>2. CASE e.live # NoLive
    BY <2>2, EngineFields, OlderFacts
  <2> QED BY <2>1, <2>2
<1>3. f = [e EXCEPT !.left = left, !.countdown = NotBelowZero(e.countdown - d),
                    !.delay = NotBelowZero(e.delay - d), !.live = Older(e.live, d)]
  BY DEF MoveClockTo
<1> HIDE DEF left
<1>4. f \in Engines
  BY <1>1, <1>2, <1>3 DEF Engines
<1>5. /\ f.state = e.state /\ f.reason = e.reason /\ f.focused = e.focused
      /\ f.index = e.index /\ f.over = e.over /\ f.refused = e.refused
      /\ f.pending = e.pending /\ f.generator = e.generator
      /\ f.events = e.events /\ f.results = e.results
      /\ f.left = left /\ f.countdown = NotBelowZero(e.countdown - d)
      /\ f.delay = NotBelowZero(e.delay - d) /\ f.live = Older(e.live, d)
  BY <1>3 DEF Engines
<1> QED BY <1>4, <1>5 DEF left

\* Which states a live event and a target to come go with.
LEMMA WhatIsOut ==
  ASSUME NEW e, RunInv(e)
  PROVE  /\ e.live # NoLive => e.live \in Lives /\ e.state \in {"event_active", "event_tail"}
         /\ e.state \in {"event_active", "event_tail"} => e.live \in Lives /\ e.live # NoLive
         /\ e.pending # NoTarget => e.pending \in Targets /\ e.state = "awaiting_presentation"
         /\ e.state = "awaiting_presentation" => e.pending \in Targets /\ e.pending # NoTarget
         /\ e.generator.targetActive <=> e.state \in {"awaiting_presentation", "event_active"}
<1>1. e \in Engines /\ StateInv(e) /\ e.state # "idle"
  BY DEF RunInv
<1>2. /\ e.state \in States \ {"idle"}
      /\ e.pending \in Targets \cup {NoTarget} /\ e.live \in Lives \cup {NoLive}
  BY <1>1, EngineFields
<1>3. CASE e.state \in Vacant
  BY <1>1, <1>3 DEF StateInv, Between, Vacant
<1>4. CASE e.state = "awaiting_presentation"
  BY <1>1, <1>2, <1>4, NoneIsNone DEF StateInv, Awaiting, Proper, Drawn
<1>5. CASE e.state = "event_active"
  BY <1>1, <1>2, <1>5, NoneIsNone DEF StateInv, Active
<1>6. CASE e.state = "event_tail"
  BY <1>1, <1>2, <1>6, NoneIsNone DEF StateInv, Tailing
<1>7. CASE e.state = "complete"
  BY <1>1, <1>7 DEF StateInv, Completed
<1> QED BY <1>2, <1>3, <1>4, <1>5, <1>6, <1>7 DEF States, Vacant

LEMMA LiveIsNotFresh == ASSUME NEW e, e.live # NoLive PROVE ~Fresh(e)
BY DEF Fresh

\* Time leaves the trainer in order as long as it does not pass the end of a tail.
LEMMA MoveClockKeeps ==
  ASSUME NEW e, RunInv(e), NEW d \in Nat,
         e.state = "event_tail" => d <= TailLeft(e.live),
         NEW f, f = MoveClockTo(e, d)
  PROVE  RunInv(f) /\ (Fresh(f) <=> Fresh(e))
<1>1. e \in Engines /\ StateInv(e) /\ Recorded(e) /\ FreshInv(e)
      /\ (e.generator.endPending => e.left = 0) /\ ~e.refused /\ e.state # "idle"
  BY DEF RunInv
<1>2. /\ f \in Engines
      /\ f.state = e.state /\ f.reason = e.reason /\ f.focused = e.focused
      /\ f.index = e.index /\ f.over = e.over /\ f.refused = e.refused
      /\ f.pending = e.pending /\ f.generator = e.generator
      /\ f.events = e.events /\ f.results = e.results
      /\ f.left = (IF Consumes(e) THEN NotBelowZero(e.left - d) ELSE e.left)
      /\ f.live = Older(e.live, d)
  BY <1>1, MovedShape
<1>3. e.live = NoLive => f.live = NoLive
  BY <1>2 DEF Older
<1>4. e.live # NoLive =>
        /\ f.live \in Lives /\ f.live # NoLive
        /\ f.live.target = e.live.target /\ f.live.natural = e.live.natural
        /\ f.live.plan = e.live.plan
        /\ f.live.streak = e.live.streak /\ f.live.resolved = Aged(e.live.resolved, d)
        /\ f.live.quiet = e.live.quiet + d
        /\ InOrder(e.live.moves) => InOrder(f.live.moves)
  <2> HAVE e.live # NoLive
  <2>1. e.live \in Lives
    BY <1>1, EngineFields
  <2> QED BY <2>1, <1>2, OlderFacts, NoneIsNone
<1>5. f.generator.endPending => f.left = 0
  <2>1. e.left = 0 => f.left = 0
    BY <1>2, BlockTime DEF NotBelowZero
  <2> QED BY <1>1, <1>2, <2>1
<1>6. Recorded(f)
  <2>1. \A i \in DOMAIN e.results : OpenScore(f, i) = OpenScore(e, i)
    BY <1>2, <1>3, <1>4 DEF OpenScore
  <2> QED BY <1>1, <1>2, <2>1, RecordedSame
<1>7. \A t : Proper(e, t) => Proper(f, t)
  BY <1>2 DEF Proper, Alternates, ResetHit
<1>8. StateInv(f)
  <2>1. f.state # "complete" => InPlan(f)
    BY <1>1, <1>2 DEF StateInv, InPlan
  <2>2. f.state \in Vacant => Between(f)
    BY <1>1, <1>2, <1>3 DEF StateInv, Between, ResetHit
  <2>3. f.state = "awaiting_presentation" => Awaiting(f)
    BY <1>1, <1>2, <1>3, <1>7 DEF StateInv, Awaiting
  <2>4. f.state = "event_active" => Active(f)
    <3> HAVE f.state = "event_active"
    <3>1. Active(e) /\ e.live # NoLive
      BY <1>1, <1>2, NoneIsNone DEF StateInv, Active
    <3>2. Unresolved(f.live)
      BY <3>1, <1>4 DEF Active, Unresolved, Aged
    <3> QED BY <3>1, <3>2, <1>2, <1>4, <1>7 DEF Active
  <2>5. f.state = "event_tail" => Tailing(f)
    <3> HAVE f.state = "event_tail"
    <3>1. Tailing(e) /\ e.live # NoLive /\ e.live \in Lives
      BY <1>1, <1>2, NoneIsNone DEF StateInv, Tailing
    <3>2. Resolved(f.live)
      <4>1. /\ Resolved(e.live) /\ d <= TailLeft(e.live)
        BY <3>1, <1>2 DEF Tailing
      <4>2. /\ e.live.resolved \in Nat /\ f.live.resolved = e.live.resolved + d
        BY <4>1, <1>4, <3>1 DEF Resolved, Aged, Never
      <4>3. /\ e.live.quiet \in Nat /\ e.live.plan.tail \in Tails
        BY <3>1 DEF Lives, Plans
      <4>4. TailLeft(f.live) = TailLeft(e.live) - d
        <5>1. f.live.plan = e.live.plan /\ f.live.quiet = e.live.quiet + d
          BY <1>4, <3>1
        <5>2. /\ e.live.plan.tail.minimum \in Nat /\ e.live.plan.tail.settle \in Nat
              /\ e.live.plan.tail.maximum \in Nat
          BY <4>3 DEF Tails
        <5> QED BY <4>2, <4>3, <5>1, <5>2 DEF TailLeft, Least, Greatest
      <4>5. TailLeft(e.live) \in Int
        BY <4>2, <4>3 DEF TailLeft, Least, Greatest, Tails
      <4>6. TailLeft(f.live) >= 0
        BY <4>1, <4>4, <4>5
      <4> QED BY <4>1, <4>2, <4>6, <1>4, <3>1 DEF Resolved
    <3>3. f.live.plan.ends => f.left = 0
      <4>1. e.live.plan.ends => e.left = 0
        BY <3>1 DEF Tailing
      <4>2. e.left = 0 => f.left = 0
        BY <1>2, BlockTime DEF NotBelowZero
      <4> QED BY <4>1, <4>2, <1>4, <3>1
    <3>4. Proper(f, f.live.target)
      BY <3>1, <1>4, <1>7 DEF Tailing
    <3> QED BY <3>1, <3>2, <3>3, <3>4, <1>2, <1>4 DEF Tailing
  <2>6. f.state = "complete" => Completed(f)
    BY <1>1, <1>2, <1>3 DEF StateInv, Completed
  <2> QED BY <2>1, <2>2, <2>3, <2>4, <2>5, <2>6 DEF StateInv
<1>10. Fresh(f) <=> Fresh(e)
  BY <1>2, <1>3, <1>4 DEF Fresh
<1>9. FreshInv(f)
  <2>2. Fresh(e) => ~Consumes(e)
    <3>1. e.state \in {"event_active", "event_tail"} => e.live # NoLive
      BY WhatIsOut
    <3> QED BY <3>1, <1>1, LiveIsNotFresh DEF Consumes, FreshInv
  <2>3. Fresh(e) => f.left = e.left
    BY <1>2, <2>2
  <2> QED BY <1>1, <1>2, <1>10, <2>3 DEF FreshInv
<1> QED BY <1>1, <1>2, <1>5, <1>6, <1>8, <1>9, <1>10 DEF RunInv

\* The block of an engine inside the plan, as Fresh finds it.
LEMMA BlockOfFresh ==
  ASSUME NEW e \in Engines, InPlan(e)
  PROVE  Plan[Least(e.index + 1, Len(Plan))] = e.generator.current
<1>1. e.index \in Nat /\ e.index < Len(Plan) /\ Len(Plan) \in Nat
  BY EngineFields, PlanFacts DEF InPlan
<1>2. Least(e.index + 1, Len(Plan)) = e.index + 1
  BY <1>1 DEF Least
<1> QED BY <1>2 DEF InPlan

------------------------------------------------------------------------------
(***************************************************************************)
(* Events and results.                                                     *)
(***************************************************************************)
LEMMA OneMore ==
  ASSUME NEW m \in Nat, NEW A, A \subseteq 1..m
  PROVE  Cardinality(A) \in Nat /\ Cardinality(A \cup {m + 1}) = Cardinality(A) + 1
<1>1. IsFiniteSet(1..m)
  BY FS_Interval
<1>2. IsFiniteSet(A)
  BY <1>1, FS_Subset
<1>3. m + 1 \notin A
  OBVIOUS
<1> QED BY <1>2, <1>3, FS_CardinalityType, FS_AddElement

\* The result of the current block with one more event.
Counting(r, v) ==
  [r EXCEPT !.events = @ + 1, !.technical = @ + (IF v.technical = "none" THEN 0 ELSE 1)]

LEMMA CountingFacts ==
  ASSUME NEW r \in Results, NEW v
  PROVE  LET c == Counting(r, v)
         IN /\ c \in Results /\ c.block = r.block /\ c.completed = r.completed
            /\ c.consumed = r.consumed /\ c.score = r.score /\ c.events = r.events + 1
            /\ c.technical = r.technical + (IF v.technical = "none" THEN 0 ELSE 1)
<1> DEFINE k == IF v.technical = "none" THEN 0 ELSE 1
           c == Counting(r, v)
<1>1. k \in Nat
  OBVIOUS
<1>2. /\ r.block \in DOMAIN Pattern /\ r.score \in Nat /\ r.events \in Nat
      /\ r.technical \in Nat /\ r.consumed \in Nat /\ r.completed \in BOOLEAN
      /\ r = [block |-> r.block, score |-> r.score, events |-> r.events,
              technical |-> r.technical, consumed |-> r.consumed, completed |-> r.completed]
  BY DEF Results
<1>3. c = [r EXCEPT !.events = r.events + 1, !.technical = r.technical + k]
  BY <1>2 DEF Counting
<1> HIDE DEF k, c
<1>4. c = [block |-> r.block, score |-> r.score, events |-> r.events + 1,
           technical |-> r.technical + k, consumed |-> r.consumed, completed |-> r.completed]
  BY <1>2, <1>3
<1>5. c \in Results
  BY <1>1, <1>2, <1>4 DEF Results
<1>6. /\ c.block = r.block /\ c.consumed = r.consumed /\ c.score = r.score
      /\ c.events = r.events + 1 /\ c.technical = r.technical + k
      /\ c.completed = r.completed
  BY <1>4
<1> QED BY <1>5, <1>6 DEF k, c

LEMMA StoredShape ==
  ASSUME NEW e \in Engines, NEW v \in Events, Len(e.results) \in Nat \ {0},
         NEW f, f = StoreFinalizedEvent(e, v)
  PROVE  LET n == Len(e.results)
         IN /\ f \in Engines
            /\ f.state = e.state /\ f.reason = e.reason /\ f.focused = e.focused
            /\ f.index = e.index /\ f.over = e.over /\ f.refused = e.refused
            /\ f.left = e.left /\ f.countdown = e.countdown /\ f.delay = e.delay
            /\ f.generator = e.generator /\ f.pending = NoTarget /\ f.live = NoLive
            /\ f.events = Append(e.events, v)
            /\ f.results = [e.results EXCEPT ![n] = Counting(e.results[n], v)]
<1> DEFINE n == Len(e.results)
           after == [e.results EXCEPT ![n] = Counting(e.results[n], v)]
<1>1. e.results \in Seq(Results) /\ n \in 1..Len(e.results)
  BY EngineFields
<1>2. e.results[n] \in Results
  BY <1>1, ElementOfSeq
<1>3. Counting(e.results[n], v) \in Results
  BY <1>2, CountingFacts
<1>4. after \in Seq(Results)
  BY <1>1, <1>3, ExceptSeq
<1>5. Append(e.events, v) \in Seq(Events)
  BY EngineFields, AppendProperties
<1>6. f = [e EXCEPT !.events = Append(e.events, v), !.pending = NoTarget, !.live = NoLive,
                    !.results = after]
  BY ZenonT(40) DEF StoreFinalizedEvent, Counting
<1> HIDE DEF n, after
<1>7. f \in Engines
  BY <1>4, <1>5, <1>6 DEF Engines
<1>8. /\ f.state = e.state /\ f.reason = e.reason /\ f.focused = e.focused
      /\ f.index = e.index /\ f.over = e.over /\ f.refused = e.refused
      /\ f.left = e.left /\ f.countdown = e.countdown /\ f.delay = e.delay
      /\ f.generator = e.generator /\ f.pending = NoTarget /\ f.live = NoLive
      /\ f.events = Append(e.events, v) /\ f.results = after
  BY <1>6 DEF Engines
<1> QED BY <1>7, <1>8 DEF n, after

\* An event of the current block that is stored is recorded with the others.
LEMMA StoredRecorded ==
  ASSUME NEW e \in Engines, Recorded(e), InPlan(e), NEW v \in Events,
         Drawn(v.target), v.target.block = e.generator.current, EventEarned(v),
         Alternates(e, v.target, Len(e.events)),
         v.scored <=> (e.live # NoLive /\ e.live.plan.scored),
         NEW f, f = StoreFinalizedEvent(e, v)
  PROVE  Recorded(f)
<1> DEFINE n == Len(e.results)
           m == Len(e.events)
           b == Plan[n]
<1>1. /\ e.events \in Seq(Events) /\ e.results \in Seq(Results)
      /\ m \in Nat /\ DOMAIN e.events = 1..m /\ DOMAIN e.results = 1..n
      /\ n \in Nat \ {0} /\ n <= Len(Plan) /\ b = e.generator.current
  BY EngineFields, SequenceFacts, PlanFacts DEF InPlan
<1>2. /\ f.events = Append(e.events, v) /\ f.live = NoLive
      /\ f.results = [e.results EXCEPT ![n] = Counting(e.results[n], v)]
  BY <1>1, StoredShape
<1>3. /\ DOMAIN f.events = 1..(m + 1) /\ f.events[m + 1] = v
      /\ \A k \in 1..m : f.events[k] = e.events[k]
  <2>1. Append(e.events, v) \in Seq(Events) /\ Len(Append(e.events, v)) = m + 1
    BY <1>1, AppendProperties
  <2>2. DOMAIN f.events = 1..(m + 1)
    BY <2>1, <1>2, SequenceFacts
  <2> QED BY <2>2, <1>1, <1>2, AppendProperties
<1>4. /\ DOMAIN f.results = 1..n /\ Len(f.results) = n
      /\ f.results[n] = Counting(e.results[n], v)
      /\ \A i \in 1..n : i # n => f.results[i] = e.results[i]
  <2>1. n \in 1..Len(e.results) /\ e.results[n] \in Results
    BY <1>1, ElementOfSeq
  <2>2. Counting(e.results[n], v) \in Results
    BY <2>1, CountingFacts
  <2>3. f.results \in Seq(Results) /\ Len(f.results) = n
    BY <1>1, <1>2, <2>1, <2>2, ExceptSeq
  <2> QED BY <1>1, <1>2, <2>1, <2>2, <2>3, ExceptSeq, SequenceFacts
<1> HIDE DEF n, m, b
<1>5. EventsInv(f)
  <2>1. EventsInv(e)
    BY DEF Recorded
  <2> DEFINE Fine(k) ==
               LET w == f.events[k]
               IN /\ Drawn(w.target) /\ EventEarned(w) /\ Alternates(f, w.target, k - 1)
                  /\ \E i \in DOMAIN f.results : w.target.block = Plan[i]
  <2>3. ASSUME NEW k \in 1..m PROVE Fine(k)
    <3> DEFINE w == e.events[k]
    <3>1. /\ Drawn(w.target) /\ EventEarned(w) /\ Alternates(e, w.target, k - 1)
          /\ \E i \in DOMAIN e.results : w.target.block = Plan[i]
      BY <1>1, <2>1 DEF EventsInv
    <3>2. k - 1 \in 0..m /\ f.events[k] = w
      BY <1>1, <1>3
    <3> HIDE DEF w
    <3>3. ResetHit(f, w.target.block, k - 1) <=> ResetHit(e, w.target.block, k - 1)
      <4>1. \A j \in 0..m : ResetHit(f, w.target.block, j) <=> ResetHit(e, w.target.block, j)
        BY <1>1, <1>3 DEF ResetHit
      <4> QED BY <3>2, <4>1
    <3>4. Alternates(f, w.target, k - 1)
      BY <3>1, <3>3 DEF Alternates
    <3>5. DOMAIN f.results = DOMAIN e.results
      BY <1>1, <1>4
    <3> QED BY <3>1, <3>2, <3>4, <3>5
  <2>4. Fine(m + 1)
    <3>1. m + 1 - 1 = m /\ m \in 0..m /\ n \in 1..n
      BY <1>1
    <3>2. ResetHit(f, v.target.block, m) <=> ResetHit(e, v.target.block, m)
      BY <1>1, <1>3 DEF ResetHit
    <3>3. Alternates(f, v.target, m)
      BY <3>2 DEF Alternates, m
    <3>4. \E i \in DOMAIN f.results : v.target.block = Plan[i]
      BY <1>1, <1>4, <3>1 DEF b
    <3> QED BY <1>3, <3>1, <3>3, <3>4
  <2>6. \A k \in 1..(m + 1) : k \in 1..m \/ k = m + 1
    BY <1>1
  <2> HIDE DEF Fine
  <2>7. \A k \in DOMAIN f.events : Fine(k)
    BY <2>3, <2>4, <2>6, <1>3
  <2> QED BY <2>7 DEF Fine, EventsInv
<1>6. ASSUME NEW i \in 1..n, i # n PROVE Tallied(f, i)
  <2> DEFINE x == e.results[i].block
  <2>1. Tallied(e, i) /\ f.results[i] = e.results[i]
    BY <1>1, <1>4, <1>6 DEF Recorded
  <2>2. x # v.target.block
    <3>1. x = Plan[i] /\ i \in 1..Len(Plan) /\ n \in 1..Len(Plan)
      BY <2>1, <1>1, PlanFacts DEF Tallied
    <3> QED BY <3>1, <1>1, <1>6, PlanFacts DEF b
  <2> HIDE DEF x
  <2>3. Of(f, x) = Of(e, x)
    <3>1. \A k \in 1..(m + 1) : k \in 1..m \/ k = m + 1
      BY <1>1
    <3>2. \A k \in 1..m : k \in 1..(m + 1)
      BY <1>1
    <3> QED BY <1>1, <1>3, <2>2, <3>1, <3>2 DEF Of
  <2>4. Scored(f, x) = Scored(e, x) /\ Cut(f, x) = Cut(e, x)
    <3>1. \A k \in Of(e, x) : f.events[k] = e.events[k]
      BY <1>1, <1>3 DEF Of
    <3> QED BY <2>3, <3>1 DEF Scored, Cut
  <2>5. OpenScore(f, i) = OpenScore(e, i)
    BY <1>4, <1>6 DEF OpenScore, n
  <2> QED BY <2>1, <2>3, <2>4, <2>5 DEF Tallied, x
<1>7. Tallied(f, n)
  <2> DEFINE r == e.results[n]
  <2>1. /\ r.block = b /\ (r.completed => r.consumed = BlockMs)
        /\ r.score = Cardinality(Scored(e, b)) + OpenScore(e, n)
        /\ r.events = Cardinality(Of(e, b)) /\ r.technical = Cardinality(Cut(e, b))
    <3>1. n \in DOMAIN e.results
      BY <1>1
    <3>2. Tallied(e, n)
      BY <3>1 DEF Recorded
    <3> QED BY <3>2 DEF Tallied, b
  <2>2. r \in Results
    BY <1>1, SequenceFacts DEF n
  <2> HIDE DEF r
  <2>3. /\ f.results[n].block = b /\ f.results[n].completed = r.completed
        /\ f.results[n].consumed = r.consumed /\ f.results[n].score = r.score
        /\ f.results[n].events = r.events + 1
        /\ f.results[n].technical = r.technical + (IF v.technical = "none" THEN 0 ELSE 1)
    BY <1>4, <2>1, <2>2, CountingFacts DEF r
  <2>4. Of(e, b) \subseteq 1..m /\ Scored(e, b) \subseteq 1..m /\ Cut(e, b) \subseteq 1..m
    BY <1>1 DEF Of, Scored, Cut
  <2>5. Of(f, b) = Of(e, b) \cup {m + 1}
    <3>1. \A k \in 1..(m + 1) : k \in 1..m \/ k = m + 1
      BY <1>1
    <3>2. \A k \in 1..m : k \in 1..(m + 1)
      BY <1>1
    <3>3. m + 1 \in 1..(m + 1)
      BY <1>1
    <3> QED BY <1>1, <1>3, <3>1, <3>2, <3>3 DEF Of
  <2>6. \A k \in Of(e, b) : f.events[k] = e.events[k]
    BY <1>1, <1>3 DEF Of
  <2>7. Scored(f, b) = IF v.scored THEN Scored(e, b) \cup {m + 1} ELSE Scored(e, b)
    <3>1. m + 1 \notin Of(e, b)
      BY <2>4, <1>1
    <3>2. f.events[m + 1] = v
      BY <1>3
    <3>3. CASE v.scored
      BY <2>5, <2>6, <3>1, <3>2, <3>3 DEF Scored
    <3>4. CASE ~v.scored
      BY <2>5, <2>6, <3>1, <3>2, <3>4 DEF Scored
    <3> QED BY <3>3, <3>4
  <2>8. Cut(f, b) = IF v.technical = "none" THEN Cut(e, b) ELSE Cut(e, b) \cup {m + 1}
    <3>1. m + 1 \notin Of(e, b)
      BY <2>4, <1>1
    <3>2. f.events[m + 1] = v
      BY <1>3
    <3>3. CASE v.technical = "none"
      BY <2>5, <2>6, <3>1, <3>2, <3>3 DEF Cut
    <3>4. CASE v.technical # "none"
      BY <2>5, <2>6, <3>1, <3>2, <3>4 DEF Cut
    <3> QED BY <3>3, <3>4
  <2>9. OpenScore(f, n) = 0 /\ OpenScore(e, n) = IF v.scored THEN 1 ELSE 0
    BY <1>2 DEF OpenScore, n
  <2>10. /\ Cardinality(Of(f, b)) = Cardinality(Of(e, b)) + 1
         /\ Cardinality(Scored(f, b)) = Cardinality(Scored(e, b)) + OpenScore(e, n)
         /\ Cardinality(Cut(f, b))
              = Cardinality(Cut(e, b)) + (IF v.technical = "none" THEN 0 ELSE 1)
    <3>1. /\ Cardinality(Of(e, b)) \in Nat /\ Cardinality(Of(e, b) \cup {m + 1}) = Cardinality(Of(e, b)) + 1
      BY <1>1, <2>4, OneMore
    <3>2. /\ Cardinality(Scored(e, b)) \in Nat
          /\ Cardinality(Scored(e, b) \cup {m + 1}) = Cardinality(Scored(e, b)) + 1
      BY <1>1, <2>4, OneMore
    <3>3. /\ Cardinality(Cut(e, b)) \in Nat
          /\ Cardinality(Cut(e, b) \cup {m + 1}) = Cardinality(Cut(e, b)) + 1
      BY <1>1, <2>4, OneMore
    <3> QED BY <3>1, <3>2, <3>3, <2>5, <2>7, <2>8, <2>9
  <2>11. Cardinality(Scored(f, b)) \in Nat
    <3>1. Scored(f, b) \subseteq 1..(m + 1) /\ m + 1 \in Nat
      BY <1>1, <1>3 DEF Scored, Of
    <3> QED BY <3>1, OneMore
  <2>12. f.results[n].score = Cardinality(Scored(f, b)) + OpenScore(f, n)
    BY <2>1, <2>3, <2>9, <2>10, <2>11
  <2>13. /\ f.results[n].events = Cardinality(Of(f, b))
         /\ f.results[n].technical = Cardinality(Cut(f, b))
    BY <2>1, <2>3, <2>10
  <2> QED BY <2>1, <2>3, <2>12, <2>13 DEF Tallied, b
<1> QED BY <1>1, <1>4, <1>5, <1>6, <1>7 DEF Recorded

------------------------------------------------------------------------------
(***************************************************************************)
(* Blocks.                                                                 *)
(***************************************************************************)
LEMMA GeneratorFields ==
  ASSUME NEW g \in Generators
  PROVE  /\ g.blockActive \in BOOLEAN /\ g.targetActive \in BOOLEAN
         /\ g.endPending \in BOOLEAN /\ g.expected \in Nat /\ g.current \in Nat
         /\ g.index \in Nat /\ g.hasPrevious \in BOOLEAN /\ g.nextSmall \in BOOLEAN
BY DEF Generators

LEMMA BegunFacts ==
  ASSUME NEW g \in Generators, ~g.targetActive, NEW o \in Nat,
         NEW h, h = BeginBlock(g, o)
  PROVE  /\ h \in Generators /\ h.blockActive /\ ~h.targetActive /\ ~h.endPending
         /\ h.current = o /\ h.expected = g.expected /\ ~h.nextSmall
BY DEF BeginBlock, Generators

LEMMA EndedFacts ==
  ASSUME NEW g \in Generators, ~g.targetActive, NEW h, h = EndBlock(g)
  PROVE  /\ h \in Generators /\ ~h.blockActive /\ ~h.targetActive
         /\ ~h.endPending /\ h.expected = g.expected + 1
<1> DEFINE n == g.expected + 1
<1>1. n \in Nat
  BY GeneratorFields
<1>2. h = [g EXCEPT !.blockActive = FALSE, !.endPending = FALSE, !.hasPrevious = FALSE,
                    !.nextSmall = FALSE, !.expected = n]
  BY DEF EndBlock
<1> HIDE DEF n
<1>3. h \in Generators
  BY <1>1, <1>2 DEF Generators
<1>4. ~h.blockActive /\ ~h.targetActive /\ ~h.endPending /\ h.expected = n
  BY <1>2 DEF Generators
<1> QED BY <1>3, <1>4 DEF n

LEMMA SkippedFacts ==
  ASSUME NEW g \in Generators, ~g.blockActive, ~g.targetActive,
         NEW o \in Nat, g.expected <= o, NEW h, h = SkipTo(g, o)
  PROVE  h \in Generators /\ ~h.blockActive /\ ~h.targetActive /\ h.expected = o
<1>1. g.expected \in Nat
  BY GeneratorFields
<1>2. CASE g.expected >= o
  BY <1>1, <1>2 DEF SkipTo
<1>3. CASE ~(g.expected >= o)
  <2> DEFINE i == [g EXCEPT !.expected = o - 1]
             j == BeginBlock(i, o - 1)
  <2>1. o - 1 \in Nat
    BY <1>1, <1>3
  <2>2. i \in Generators /\ ~i.targetActive /\ i.expected = o - 1
    BY <2>1 DEF Generators
  <2> HIDE DEF i
  <2>3. j \in Generators /\ ~j.targetActive /\ j.expected = o - 1
    BY <2>1, <2>2, BegunFacts
  <2> HIDE DEF j
  <2>4. h = EndBlock(j)
    BY <1>3 DEF SkipTo, i, j
  <2> QED BY <2>3, <2>4, EndedFacts
<1> QED BY <1>2, <1>3

\* Ready for the block after those the results are of.
Begins(e) ==
  /\ e \in Engines /\ ~e.refused /\ e.index < Len(Plan) /\ Len(e.results) = e.index
  /\ ~e.generator.blockActive /\ ~e.generator.targetActive
  /\ e.generator.expected <= Plan[e.index + 1]
  /\ e.pending = NoTarget /\ e.live = NoLive /\ Recorded(e)

LEMMA NewResultFacts ==
  ASSUME NEW o \in DOMAIN Pattern
  PROVE  LET r == NewResult(o)
         IN /\ r \in Results /\ r.block = o /\ r.score = 0 /\ r.events = 0
            /\ r.technical = 0 /\ ~r.completed
BY DEF NewResult, Results

LEMMA BlockBegins ==
  ASSUME NEW e, Begins(e), NEW f, f = StartBlockCountdown(e)
  PROVE  /\ RunInv(f) /\ f.state = "countdown" /\ f.left = BlockMs /\ Fresh(f)
         /\ f.index = e.index /\ f.events = e.events /\ f.live = NoLive
         /\ f.focused = e.focused /\ f.reason = e.reason
<1> DEFINE n == Len(e.results)
           o == Plan[e.index + 1]
           g == SkipTo(e.generator, o)
           h == BeginBlock(g, o)
           r == NewResult(o)
<1>1. /\ e \in Engines /\ ~e.refused /\ e.index < Len(Plan) /\ Len(e.results) = e.index
      /\ ~e.generator.blockActive /\ ~e.generator.targetActive
      /\ e.generator.expected <= o
      /\ e.pending = NoTarget /\ e.live = NoLive /\ Recorded(e)
  BY DEF Begins
<1>2. /\ e.index \in Nat /\ e.index + 1 \in 1..Len(Plan) /\ e.generator \in Generators
      /\ e.results \in Seq(Results) /\ DOMAIN e.results = 1..n /\ n \in Nat /\ n = e.index
      /\ e.events \in Seq(Events) /\ DOMAIN e.events = 1..Len(e.events)
      /\ Len(e.events) \in Nat
  BY <1>1, EngineFields, PlanFacts, SequenceFacts
<1>3. o \in DOMAIN Pattern /\ o \in Nat
  BY <1>2, PlanFacts
<1> HIDE DEF o, n
<1>4. g \in Generators /\ ~g.blockActive /\ ~g.targetActive /\ g.expected = o
  BY <1>1, <1>2, <1>3, SkippedFacts
<1> HIDE DEF g
<1>5. /\ h \in Generators /\ h.blockActive /\ ~h.targetActive /\ ~h.endPending
      /\ h.current = o /\ h.expected = o /\ ~h.nextSmall
  BY <1>3, <1>4, BegunFacts
<1> HIDE DEF h
<1>6. CanBeginBlock(g, o)
  BY <1>3, <1>4 DEF CanBeginBlock
<1>7. f = [e EXCEPT !.generator = h, !.results = Append(e.results, r), !.left = BlockMs,
                    !.delay = 0, !.countdown = Countdown, !.state = "countdown"]
  BY <1>6 DEF StartBlockCountdown, g, h, o
<1>8. /\ r \in Results /\ r.block = o /\ r.score = 0 /\ r.events = 0
      /\ r.technical = 0 /\ ~r.completed
  BY <1>3, NewResultFacts
<1> HIDE DEF r
<1>9. /\ Append(e.results, r) \in Seq(Results) /\ Len(Append(e.results, r)) = n + 1
      /\ \A i \in 1..n : Append(e.results, r)[i] = e.results[i]
      /\ Append(e.results, r)[n + 1] = r
  BY <1>2, <1>8, AppendProperties DEF n
<1>10. BlockMs \in 0..BlockMs /\ Countdown \in Nat
  BY BlockTime DEF Countdown
<1>11. f \in Engines
  <2>1. /\ h \in Generators /\ Append(e.results, r) \in Seq(Results)
        /\ BlockMs \in 0..BlockMs /\ Countdown \in Nat /\ 0 \in Nat
        /\ "countdown" \in States
    BY <1>5, <1>9, <1>10 DEF States
  <2> HIDE DEF States, Countdown
  <2> QED BY ZenonT(40), <2>1, <1>1, <1>7 DEF Engines
<1>12. /\ f.state = "countdown" /\ f.left = BlockMs /\ f.index = e.index
       /\ f.events = e.events /\ f.live = NoLive /\ f.pending = NoTarget
       /\ f.generator = h /\ f.results = Append(e.results, r) /\ f.refused = e.refused
       /\ f.focused = e.focused /\ f.reason = e.reason
  BY <1>1, <1>7 DEF Engines
<1>13. DOMAIN f.results = 1..(n + 1) /\ Len(f.results) = n + 1
  BY <1>9, <1>12, SequenceFacts
<1>14. \A k \in DOMAIN e.events :
         e.events[k].target.block # o /\ \E i \in 1..n : e.events[k].target.block = Plan[i]
  <2> TAKE k \in DOMAIN e.events
  <2>1. PICK i \in 1..n : e.events[k].target.block = Plan[i]
    BY <1>1, <1>2 DEF Recorded, EventsInv
  <2>2. i \in 1..Len(Plan) /\ i # e.index + 1
    BY <1>1, <1>2, PlanFacts
  <2> QED BY <2>1, <2>2, <1>2, PlanFacts DEF o
<1>15. EventsInv(f)
  <2>1. EventsInv(e)
    BY <1>1 DEF Recorded
  <2>2. \A t, k : Alternates(f, t, k) <=> Alternates(e, t, k)
    BY <1>12 DEF Alternates, ResetHit
  <2>3. \A i \in 1..n : i \in 1..(n + 1)
    BY <1>2
  <2> QED BY <2>1, <2>2, <2>3, <1>2, <1>12, <1>13 DEF EventsInv
<1>16. ASSUME NEW i \in 1..n PROVE Tallied(f, i)
  <2>1. Tallied(e, i) /\ f.results[i] = e.results[i]
    BY <1>1, <1>2, <1>9, <1>12 DEF Recorded
  <2>2. OpenScore(f, i) = OpenScore(e, i)
    BY <1>1, <1>12 DEF OpenScore
  <2>3. \A b : Of(f, b) = Of(e, b)
    BY <1>12 DEF Of
  <2>4. \A b : Scored(f, b) = Scored(e, b) /\ Cut(f, b) = Cut(e, b)
    BY <1>12, <2>3 DEF Scored, Cut
  <2> QED BY <2>1, <2>2, <2>3, <2>4 DEF Tallied
<1>17. Tallied(f, n + 1)
  <2>1. Of(f, o) = {}
    BY <1>12, <1>14 DEF Of
  <2>2. Scored(f, o) = {} /\ Cut(f, o) = {}
    BY <2>1 DEF Scored, Cut
  <2>3. OpenScore(f, n + 1) = 0
    BY <1>12 DEF OpenScore
  <2>4. f.results[n + 1] = r /\ o = Plan[n + 1]
    BY <1>2, <1>9, <1>12 DEF o
  <2> QED BY <1>8, <2>1, <2>2, <2>3, <2>4, FS_EmptySet DEF Tallied
<1>18. Recorded(f)
  <2>1. \A i \in 1..(n + 1) : i \in 1..n \/ i = n + 1
    BY <1>2
  <2>2. \A i \in DOMAIN f.results : Tallied(f, i)
    BY <2>1, <1>13, <1>16, <1>17
  <2>3. Len(f.results) <= Len(Plan)
    BY <1>1, <1>2, <1>13, PlanFacts
  <2> QED BY <1>15, <2>2, <2>3 DEF Recorded
<1>19. InPlan(f)
  BY <1>1, <1>2, <1>5, <1>12, <1>13 DEF InPlan, o
<1>20. Between(f)
  <2>1. ~ResetHit(f, o, Len(f.events))
    <3>1. Len(e.events) > 0 => Len(e.events) \in DOMAIN e.events
      BY <1>2
    <3> QED BY <3>1, <1>12, <1>14 DEF ResetHit
  <2> QED BY <2>1, <1>5, <1>12 DEF Between
<1>21. StateInv(f)
  BY <1>12, <1>19, <1>20 DEF StateInv, Vacant
<1>22. FreshInv(f)
  BY <1>12 DEF FreshInv
<1>23. RunInv(f)
  BY <1>1, <1>5, <1>11, <1>12, <1>18, <1>21, <1>22 DEF RunInv
<1>24. Fresh(f)
  <2>1. Plan[Least(f.index + 1, Len(Plan))] = o
    BY <1>5, <1>11, <1>12, <1>19, BlockOfFresh
  <2> QED BY <2>1, <1>12, <1>14 DEF Fresh
<1> QED BY <1>12, <1>23, <1>24

\* A block at its end.
Ends(e) ==
  /\ e \in Engines /\ ~e.refused /\ InPlan(e) /\ ~e.generator.targetActive
  /\ e.pending = NoTarget /\ e.live = NoLive /\ e.left = 0 /\ Recorded(e)

\* The result of a block that used all of its time.
Closing(r) == [r EXCEPT !.consumed = BlockMs, !.completed = TRUE]

LEMMA ClosingFacts ==
  ASSUME NEW r \in Results
  PROVE  LET c == Closing(r)
         IN /\ c \in Results /\ c.block = r.block /\ c.score = r.score
            /\ c.events = r.events /\ c.technical = r.technical /\ c.consumed = BlockMs
<1>1. BlockMs \in Nat
  BY BlockTime
<1> QED BY <1>1 DEF Closing, Results

LEMMA BlockEnds ==
  ASSUME NEW e, Ends(e), NEW f, f = CompleteBlock(e)
  PROVE  /\ RunInv(f)
         /\ f.state = "complete" \/ (f.state = "countdown" /\ f.left = BlockMs)
         /\ f.state = "complete" <=> f.index = Len(Plan)
         /\ f.state = "complete" => (Fresh(f) <=> Fresh(e))
         /\ f.state = "countdown" => Fresh(f)
         /\ f.index = e.index + 1 /\ f.events = e.events /\ f.live = NoLive
         /\ f.focused = e.focused /\ f.reason = e.reason
<1> DEFINE n == Len(e.results)
           c == Closing(e.results[n])
           after == [e.results EXCEPT ![n] = c]
           h == EndBlock(e.generator)
           done == [e EXCEPT !.results = after, !.left = 0, !.delay = 0,
                             !.index = e.index + 1, !.generator = h]
<1>1. /\ e \in Engines /\ ~e.refused /\ InPlan(e) /\ ~e.generator.targetActive
      /\ e.pending = NoTarget /\ e.live = NoLive /\ e.left = 0 /\ Recorded(e)
  BY DEF Ends
<1>2. /\ e.index \in Nat /\ e.index < Len(Plan) /\ Len(Plan) \in Nat /\ n = e.index + 1
      /\ e.generator \in Generators /\ e.generator.blockActive
      /\ e.generator.expected = Plan[n] /\ n \in 1..n /\ n \in Nat
      /\ e.results \in Seq(Results) /\ DOMAIN e.results = 1..n
  BY <1>1, EngineFields, PlanFacts, SequenceFacts DEF InPlan
<1>3. e.results[n] \in Results
  BY <1>2, SequenceFacts
<1>4. /\ c \in Results /\ c.block = e.results[n].block /\ c.score = e.results[n].score
      /\ c.events = e.results[n].events /\ c.technical = e.results[n].technical
      /\ c.consumed = BlockMs
  BY <1>3, ClosingFacts
<1>5. /\ after \in Seq(Results) /\ Len(after) = n /\ DOMAIN after = 1..n
      /\ \A i \in 1..n : after[i] = IF i = n THEN c ELSE e.results[i]
  BY <1>2, <1>4, ExceptSeq, SequenceFacts
<1>6. /\ h \in Generators /\ ~h.blockActive /\ ~h.targetActive /\ ~h.endPending
      /\ h.expected = Plan[n] + 1
  BY <1>1, <1>2, EndedFacts
<1>7. CanEndBlock(e.generator)
  BY <1>1, <1>2 DEF CanEndBlock
<1>8. f = IF done.index >= Len(Plan) THEN [done EXCEPT !.state = "complete"]
          ELSE StartBlockCountdown(done)
  <2>1. BlockMs - e.left = BlockMs
    BY <1>1, BlockTime
  <2>2. done = [e EXCEPT !.results[Len(e.results)].consumed = BlockMs - e.left,
                         !.results[Len(e.results)].completed = TRUE,
                         !.left = 0, !.delay = 0, !.index = @ + 1,
                         !.generator = EndBlock(@)]
    BY <2>1 DEF Closing
  <2> HIDE DEF done
  <2> QED BY <1>1, <1>7, <2>2 DEF CompleteBlock
<1> HIDE DEF h, after, c
<1>9. done \in Engines
  <2>1. 0 \in 0..BlockMs /\ 0 \in Nat /\ e.index + 1 \in 0..Len(Plan)
    BY <1>2, BlockTime
  <2> QED BY <2>1, <1>1, <1>5, <1>6 DEF Engines
<1>10. /\ done.state = e.state /\ done.refused = e.refused /\ done.index = n
       /\ done.generator = h /\ done.pending = NoTarget /\ done.live = NoLive
       /\ done.events = e.events /\ done.results = after /\ done.left = 0
       /\ done.focused = e.focused /\ done.reason = e.reason
  BY <1>1, <1>2 DEF Engines
<1> HIDE DEF done
<1>11. Recorded(done)
  <2>1. EventsInv(done)
    <3>1. EventsInv(e)
      BY <1>1 DEF Recorded
    <3>2. \A t, k : Alternates(done, t, k) <=> Alternates(e, t, k)
      BY <1>10 DEF Alternates, ResetHit
    <3> QED BY <3>1, <3>2, <1>2, <1>5, <1>10 DEF EventsInv
  <2>2. ASSUME NEW i \in 1..n PROVE Tallied(done, i)
    <3>1. Tallied(e, i) /\ OpenScore(done, i) = OpenScore(e, i)
      BY <1>1, <1>2, <1>10 DEF Recorded, OpenScore
    <3>2. \A b : Of(done, b) = Of(e, b)
      BY <1>10 DEF Of
    <3>3. \A b : Scored(done, b) = Scored(e, b) /\ Cut(done, b) = Cut(e, b)
      BY <1>10, <3>2 DEF Scored, Cut
    <3>4. CASE i = n
      <4>1. done.results[n] = c
        BY <1>2, <1>5, <1>10
      <4>2. Tallied(e, n)
        BY <3>1, <3>4
      <4> QED BY <1>4, <3>1, <3>2, <3>3, <3>4, <4>1, <4>2 DEF Tallied
    <3>5. CASE i # n
      <4>1. done.results[i] = e.results[i]
        BY <1>5, <1>10, <3>5
      <4> QED BY <3>1, <3>2, <3>3, <4>1 DEF Tallied
    <3> QED BY <3>4, <3>5
  <2>3. Len(done.results) <= Len(Plan)
    BY <1>2, <1>5, <1>10
  <2> QED BY <2>1, <2>2, <2>3, <1>5, <1>10 DEF Recorded
<1>12. CASE n = Len(Plan)
  <2>1. f = [done EXCEPT !.state = "complete"]
    BY <1>2, <1>8, <1>10, <1>12
  <2>2. f \in Engines
    <3>1. "complete" \in States
      BY DEF States
    <3> HIDE DEF States
    <3> QED BY <2>1, <1>9, <3>1 DEF Engines
  <2>3. /\ f.state = "complete" /\ f.refused = e.refused /\ f.index = n
        /\ f.generator = h /\ f.pending = NoTarget /\ f.live = NoLive
        /\ f.events = e.events /\ f.results = after /\ f.left = 0
        /\ f.focused = e.focused /\ f.reason = e.reason
    BY <2>1, <1>9, <1>10 DEF Engines
  <2>4. Recorded(f)
    <3>1. \A i \in DOMAIN done.results : OpenScore(f, i) = OpenScore(done, i)
      BY <1>10, <2>3 DEF OpenScore
    <3> QED BY <3>1, <1>10, <1>11, <2>3, RecordedSame
  <2>5. StateInv(f)
    BY <1>5, <1>6, <1>12, <2>3 DEF StateInv, Vacant, Completed
  <2>6. FreshInv(f)
    BY <2>3 DEF FreshInv
  <2>7. RunInv(f)
    BY <1>1, <1>6, <2>2, <2>3, <2>4, <2>5, <2>6 DEF RunInv
  <2>8. Fresh(f) <=> Fresh(e)
    <3>1. Plan[Least(f.index + 1, Len(Plan))] = Plan[Least(e.index + 1, Len(Plan))]
      BY <1>2, <1>12, <2>3 DEF Least
    <3> QED BY <3>1, <1>1, <2>3 DEF Fresh
  <2> QED BY <2>3, <2>7, <2>8, <1>2, <1>12
<1>13. CASE n # Len(Plan)
  <2>1. n < Len(Plan) /\ n \in 1..Len(Plan) /\ n + 1 \in 1..Len(Plan)
    BY <1>2, <1>13
  <2>2. f = StartBlockCountdown(done)
    BY <1>8, <1>10, <2>1
  <2>3. Plan[n] + 1 <= Plan[n + 1]
    <3>1. Plan[n] < Plan[n + 1]
      BY <2>1, PlanFacts
    <3>2. Plan[n] \in Nat /\ Plan[n + 1] \in Nat
      BY <2>1, PlanFacts
    <3> QED BY <3>1, <3>2
  <2>4. Begins(done)
    BY <1>1, <1>5, <1>6, <1>9, <1>10, <1>11, <2>1, <2>3 DEF Begins
  <2>5. /\ RunInv(f) /\ f.state = "countdown" /\ f.left = BlockMs /\ Fresh(f)
        /\ f.index = done.index /\ f.events = done.events /\ f.live = NoLive
        /\ f.focused = done.focused /\ f.reason = done.reason
    BY <2>2, <2>4, BlockBegins
  <2> QED BY <2>5, <1>2, <1>10, <1>13
<1> QED BY <1>12, <1>13

------------------------------------------------------------------------------
(***************************************************************************)
(* Targets.                                                                *)
(***************************************************************************)
LEMMA TickleRoles ==
  ASSUME NEW t, Drawn(t), Tickles(t)
  PROVE  t.role \in {"tickle_reset", "tickle_small"}
<1>1. PICK s \in BOOLEAN, end \in Draws : t = Target(t.block, t.index, s, t.event, end)
  BY DEF Drawn
<1> DEFINE d == DrawFor(Pattern[t.block], s)
<1>2. t.role = d.role
  <2>1. \A o, i, n : Target(o, i, s, n, end).role = DrawFor(Pattern[o], s).role
    BY DEF Target
  <2> QED BY <1>1, <2>1
<1>3. DrawFor("tickle_fast", s) = IF s THEN TickleSmall ELSE TickleReset
  BY DEF DrawFor
<1>4. TickleSmall.role = "tickle_small" /\ TickleReset.role = "tickle_reset"
  BY DEF TickleSmall, TickleReset, Draw, Fading
<1> QED BY <1>2, <1>3, <1>4 DEF Tickles

LEMMA WaitKeeps ==
  ASSUME NEW e, RunInv(e), e.state \in {"countdown", "inter_target_delay"},
         ~CanSpawnTargetV1(e.left), NEW f, f = WaitForBlockEnd(e)
  PROVE  /\ RunInv(f) /\ f.state = "inter_target_delay" /\ f.delay = e.left /\ f.left = e.left
         /\ f.index = e.index /\ f.events = e.events /\ f.live = NoLive
         /\ f.focused = e.focused /\ f.reason = e.reason /\ ~Fresh(f) /\ ~Fresh(e)
<1>1. e \in Engines /\ StateInv(e) /\ Recorded(e) /\ FreshInv(e)
      /\ (e.generator.endPending => e.left = 0) /\ ~e.refused /\ e.state # "idle"
  BY DEF RunInv
<1>2. f = [e EXCEPT !.state = "inter_target_delay", !.delay = e.left]
  BY DEF WaitForBlockEnd
<1>3. f \in Engines
  <2>1. "inter_target_delay" \in States /\ e.left \in Nat
    BY <1>1, EngineFields, BlockTime DEF States
  <2> HIDE DEF States
  <2> QED BY <2>1, <1>1, <1>2 DEF Engines
<1>4. /\ f.state = "inter_target_delay" /\ f.delay = e.left /\ f.left = e.left
      /\ f.index = e.index /\ f.events = e.events /\ f.live = e.live
      /\ f.focused = e.focused /\ f.reason = e.reason /\ f.pending = e.pending
      /\ f.generator = e.generator /\ f.results = e.results /\ f.refused = e.refused
  BY <1>1, <1>2 DEF Engines
<1>5. Between(e) /\ InPlan(e)
  BY <1>1 DEF StateInv, Vacant
<1>6. StateInv(f)
  BY <1>4, <1>5 DEF StateInv, Between, InPlan, ResetHit, Vacant
<1>7. ~Fresh(f) /\ ~Fresh(e)
  <2>1. e.left # BlockMs
    BY BlockTime DEF CanSpawnTargetV1, MinimumUsefulSpawn
  <2>2. ~Fresh(e)
    BY <1>1, <2>1 DEF FreshInv
  <2> QED BY <2>2, <1>4 DEF Fresh
<1>8. Recorded(f)
  <2>1. \A i \in DOMAIN e.results : OpenScore(f, i) = OpenScore(e, i)
    BY <1>4 DEF OpenScore
  <2> QED BY <1>1, <1>4, <2>1, RecordedSame
<1>9. FreshInv(f)
  BY <1>7 DEF FreshInv
<1>10. RunInv(f)
  BY <1>1, <1>3, <1>4, <1>6, <1>8, <1>9 DEF RunInv
<1> QED BY <1>4, <1>5, <1>7, <1>10 DEF Between

LEMMA GeneratedFacts ==
  ASSUME NEW g \in Generators, NEW h, h = Generate(g)
  PROVE  /\ h \in Generators /\ h.blockActive = g.blockActive /\ h.targetActive
         /\ h.endPending = g.endPending /\ h.expected = g.expected /\ h.current = g.current
<1> DEFINE n == g.index + 1
<1>1. n \in Nat
  BY GeneratorFields
<1>2. h = [g EXCEPT !.targetActive = TRUE, !.index = n]
  BY DEF Generate
<1> HIDE DEF n
<1>3. h \in Generators
  BY <1>1, <1>2 DEF Generators
<1>4. h.targetActive /\ h.expected = g.expected /\ h.current = g.current
  BY <1>2 DEF Generators
<1>5. h.blockActive = g.blockActive
  BY <1>2 DEF Generators
<1>6. h.endPending = g.endPending
  BY <1>2 DEF Generators
<1> QED BY <1>3, <1>4, <1>5, <1>6

LEMMA PrepareKeeps ==
  ASSUME NEW e, RunInv(e), e.state \in {"countdown", "inter_target_delay"},
         CanSpawnTargetV1(e.left), NEW f \in PrepareTarget(e)
  PROVE  /\ RunInv(f) /\ f.state = "awaiting_presentation" /\ f.left = e.left
         /\ f.index = e.index /\ f.events = e.events /\ f.live = NoLive
         /\ f.focused = e.focused /\ f.reason = e.reason /\ Len(e.events) <= MaxEvents
         /\ (Fresh(f) <=> Fresh(e))
<1> DEFINE g == e.generator
           h == Generate(g)
<1>1. e \in Engines /\ StateInv(e) /\ Recorded(e) /\ FreshInv(e)
      /\ (g.endPending => e.left = 0) /\ ~e.refused /\ e.state # "idle"
  BY DEF RunInv
<1>2. Between(e) /\ InPlan(e)
  BY <1>1 DEF StateInv, Vacant
<1>3. /\ g \in Generators /\ g.current \in DOMAIN Pattern /\ g.index \in Nat
      /\ g.nextSmall \in BOOLEAN /\ g.blockActive /\ ~g.targetActive
      /\ e.index + 1 \in 1..Len(Plan) /\ Len(e.events) \in Nat
  <2>1. e.index \in Nat /\ e.index + 1 \in 1..Len(Plan) /\ g \in Generators
        /\ Len(e.events) \in Nat
    BY <1>1, <1>2, EngineFields, PlanFacts, SequenceFacts DEF InPlan
  <2> QED BY <2>1, <1>2, GeneratorFields, PlanFacts DEF InPlan, Between
<1>4. CanGenerate(g, e.left)
  <2>1. e.left \in 0..BlockMs /\ e.left >= 250
    BY <1>1, EngineFields DEF CanSpawnTargetV1, MinimumUsefulSpawn
  <2>2. ~g.endPending
    BY <1>1, <2>1
  <2>3. 0 <= e.left /\ e.left <= BlockDuration
    BY <2>1, BlockTime DEF BlockDuration
  <2> QED BY <1>3, <2>2, <2>3 DEF CanGenerate
<1>5. Len(e.events) <= MaxEvents /\
      \E end \in Draws :
        f = [e EXCEPT !.pending = Target(g.current, g.index, g.nextSmall, Len(e.events), end),
                      !.generator = h, !.over = FALSE, !.delay = 0,
                      !.state = "awaiting_presentation"]
  <2>1. MaxEvents \in Nat
    BY TimelineAssumption
  <2>2. ~(Len(e.events) > MaxEvents)
    BY <1>2, <1>4 DEF PrepareTarget, Between
  <2>3. Len(e.events) <= MaxEvents
    BY <2>1, <2>2, <1>3
  <2> QED BY <1>2, <1>4, <2>2, <2>3 DEF PrepareTarget, Between
<1>6. PICK end \in Draws :
        f = [e EXCEPT !.pending = Target(g.current, g.index, g.nextSmall, Len(e.events), end),
                      !.generator = h, !.over = FALSE, !.delay = 0,
                      !.state = "awaiting_presentation"]
  BY <1>5
<1> DEFINE t == Target(g.current, g.index, g.nextSmall, Len(e.events), end)
<1>7. /\ Drawn(t) /\ t.block = g.current
      /\ Pattern[g.current] = "tickle_fast" => (IsSmall(t) <=> g.nextSmall)
  BY <1>3, TargetIsDrawn
<1>8. t \in Targets
  BY <1>7 DEF Drawn
<1>9. /\ h \in Generators /\ h.blockActive = g.blockActive /\ h.targetActive
      /\ h.endPending = g.endPending /\ h.expected = g.expected /\ h.current = g.current
  BY <1>3, GeneratedFacts
<1> HIDE DEF t, h
<1>10. f = [e EXCEPT !.pending = t, !.generator = h, !.over = FALSE, !.delay = 0,
                     !.state = "awaiting_presentation"]
  BY <1>6 DEF t
<1>11. f \in Engines
  <2>1. "awaiting_presentation" \in States /\ 0 \in Nat
    BY DEF States
  <2> HIDE DEF States
  <2> QED BY <2>1, <1>1, <1>8, <1>9, <1>10 DEF Engines
<1>12. /\ f.state = "awaiting_presentation" /\ f.left = e.left
       /\ f.index = e.index /\ f.events = e.events /\ f.live = e.live
       /\ f.focused = e.focused /\ f.reason = e.reason /\ f.pending = t
       /\ f.generator = h /\ f.results = e.results /\ f.refused = e.refused
  BY <1>1, <1>10 DEF Engines
<1>13. Proper(f, t)
  <2>1. Tickles(t) => (IsSmall(t) <=> ResetHit(e, g.current, Len(e.events)))
    BY <1>2, <1>7 DEF Between, Tickles
  <2>2. ResetHit(f, t.block, Len(f.events)) <=> ResetHit(e, g.current, Len(e.events))
    BY <1>7, <1>12 DEF ResetHit
  <2> QED BY <2>1, <2>2, <1>7, <1>9, <1>12 DEF Proper, Alternates
<1>14. StateInv(f)
  <2>1. InPlan(f)
    BY <1>2, <1>9, <1>12 DEF InPlan
  <2>2. Awaiting(f)
    BY <1>2, <1>9, <1>12, <1>13 DEF Awaiting, Between
  <2> QED BY <2>1, <2>2, <1>12 DEF StateInv, Vacant
<1>18. Fresh(f) <=> Fresh(e)
  BY <1>12 DEF Fresh
<1>15. FreshInv(f)
  BY <1>1, <1>18, <1>12 DEF FreshInv
<1>16. Recorded(f)
  <2>1. \A i \in DOMAIN e.results : OpenScore(f, i) = OpenScore(e, i)
    BY <1>12 DEF OpenScore
  <2> QED BY <1>1, <1>12, <2>1, RecordedSame
<1>17. RunInv(f)
  BY <1>1, <1>9, <1>11, <1>12, <1>14, <1>15, <1>16 DEF RunInv
<1> QED BY <1>2, <1>5, <1>12, <1>17, <1>18 DEF Between

------------------------------------------------------------------------------
(***************************************************************************)
(* What becomes of a live event.                                           *)
(***************************************************************************)
Resolutions == {"hit", "dwell_hit", "miss_click", "timeout", "challenge_end_timeout"}

LEMMA PlanOfFacts ==
  ASSUME NEW t \in Targets, NEW resolution \in Resolutions
  PROVE  LET p == ResolutionPlan(t, resolution)
         IN /\ p \in Plans /\ (p.scored <=> resolution \in Hits)
            /\ (p.ends <=> resolution = "challenge_end_timeout")
            /\ p.tail = IF p.scored THEN t.behavior.hitTail ELSE t.behavior.nonhitTail
<1> DEFINE b == t.behavior
           tail == IF resolution \in Hits THEN b.hitTail ELSE b.nonhitTail
           delay == IF resolution \in Hits THEN b.hitDelay
                    ELSE IF resolution = "miss_click" THEN b.missDelay ELSE b.timeoutDelay
           hit == resolution \in Hits
           ends == resolution = "challenge_end_timeout"
           p == ResolutionPlan(t, resolution)
<1>1. b \in Behaviors
  BY DEF Targets
<1>2. tail \in Tails /\ delay \in Nat
  BY <1>1 DEF Behaviors
<1>3. p = [scored |-> hit, ends |-> ends, tail |-> tail, delay |-> delay]
  BY DEF ResolutionPlan
<1>4. hit \in BOOLEAN /\ ends \in BOOLEAN
  OBVIOUS
<1>5. tail = IF hit THEN b.hitTail ELSE b.nonhitTail
  OBVIOUS
<1> HIDE DEF hit, ends, tail, delay, p
<1>6. p \in Plans /\ p.scored = hit /\ p.ends = ends /\ p.tail = tail
  BY <1>2, <1>3, <1>4 DEF Plans
<1>7. p \in Plans /\ (p.scored <=> hit) /\ (p.ends <=> ends)
      /\ p.tail = IF p.scored THEN b.hitTail ELSE b.nonhitTail
  BY <1>5, <1>6
<1> QED BY <1>7 DEF hit, ends, p

\* The live event resolved: its inside interval is closed, its tail begins.
AtRest(l, outcome, plan) ==
  [CloseInsideInterval(l) EXCEPT !.natural = outcome, !.plan = plan, !.resolved = 0, !.quiet = 0]

LEMMA AtRestFacts ==
  ASSUME NEW l \in Lives, NEW outcome \in Naturals0, NEW plan \in Plans
  PROVE  LET r == AtRest(l, outcome, plan)
         IN /\ r \in Lives /\ r.target = l.target /\ r.natural = outcome /\ r.plan = plan
            /\ r.resolved = 0 /\ r.quiet = 0
            /\ r.streak = IF l.inside = Never THEN l.streak ELSE Greatest(l.streak, l.inside)
<1> DEFINE streak == IF l.inside = Never THEN l.streak ELSE Greatest(l.streak, l.inside)
           closed == [l EXCEPT !.streak = streak, !.inside = Never]
           r == AtRest(l, outcome, plan)
<1>1. l.streak \in Nat /\ l.inside \in Nat \cup {Never}
  BY DEF Lives
<1>2. streak \in Nat
  BY <1>1 DEF Greatest
<1>3. r = [closed EXCEPT !.natural = outcome, !.plan = plan, !.resolved = 0, !.quiet = 0]
  BY DEF AtRest, CloseInsideInterval
<1> HIDE DEF streak
<1>4. Never \in Nat \cup {Never}
  OBVIOUS
<1>5. closed \in Lives /\ closed.target = l.target /\ closed.streak = streak
  BY <1>2, <1>4 DEF Lives
<1> HIDE DEF closed, r
<1>6. outcome \in Naturals0 \cup {"none"} /\ 0 \in Nat \cup {Never} /\ 0 \in Nat
  OBVIOUS
<1> HIDE DEF Naturals0
<1>7. r \in Lives
  BY <1>3, <1>5, <1>6 DEF Lives
<1>8. /\ r.target = l.target /\ r.natural = outcome /\ r.plan = plan
      /\ r.resolved = 0 /\ r.quiet = 0 /\ r.streak = streak
  BY <1>3, <1>5 DEF Lives
<1> QED BY <1>7, <1>8 DEF streak, r

LEMMA ResolvedFacts ==
  ASSUME NEW g \in Generators, NEW t, NEW resolution, NEW h, h = Resolve(g, t, resolution)
  PROVE  /\ h \in Generators /\ (h.blockActive <=> g.blockActive) /\ ~h.targetActive
         /\ (h.endPending <=> resolution = "challenge_end_timeout")
         /\ h.expected = g.expected /\ h.current = g.current
         /\ t.role = "tickle_reset" => (h.nextSmall <=> resolution \in Hits)
         /\ t.role = "tickle_small" => ~h.nextSmall
<1> DEFINE small == IF t.role = "tickle_reset" THEN resolution \in Hits
                    ELSE IF t.role = "tickle_small" THEN FALSE ELSE g.nextSmall
           ends == resolution = "challenge_end_timeout"
<1>1. small \in BOOLEAN /\ ends \in BOOLEAN
  <2>1. g.nextSmall \in BOOLEAN
    BY GeneratorFields
  <2>2. CASE t.role = "tickle_reset"
    BY <2>2
  <2>3. CASE t.role # "tickle_reset"
    BY <2>1, <2>3
  <2> QED BY <2>2, <2>3
<1>2. h = [g EXCEPT !.nextSmall = small, !.hasPrevious = TRUE, !.endPending = ends,
                    !.targetActive = FALSE]
  BY DEF Resolve
<1>3. /\ t.role = "tickle_reset" => (small <=> resolution \in Hits)
      /\ t.role = "tickle_small" => ~small
  OBVIOUS
<1> HIDE DEF small, ends
<1>4. h \in Generators
  BY <1>1, <1>2 DEF Generators
<1>5. ~h.targetActive /\ h.expected = g.expected /\ h.current = g.current
  BY <1>2 DEF Generators
<1>6. h.blockActive = g.blockActive /\ h.endPending = ends /\ h.nextSmall = small
  BY <1>2 DEF Generators
<1> QED BY <1>3, <1>4, <1>5, <1>6 DEF ends

\* The result of the current block with one more point.
Scoring(r, hit) == [r EXCEPT !.score = @ + (IF hit THEN 1 ELSE 0)]

LEMMA ScoringFacts ==
  ASSUME NEW r \in Results, NEW hit
  PROVE  LET c == Scoring(r, hit)
         IN /\ c \in Results /\ c.block = r.block /\ c.events = r.events
            /\ c.technical = r.technical /\ c.consumed = r.consumed
            /\ c.completed = r.completed /\ c.score = r.score + (IF hit THEN 1 ELSE 0)
<1> DEFINE k == IF hit THEN 1 ELSE 0
           n == r.score + k
           c == Scoring(r, hit)
<1>1. n \in Nat
  BY DEF Results
<1>2. c = [r EXCEPT !.score = n]
  BY DEF Scoring
<1> HIDE DEF n, c
<1>3. c \in Results /\ c.score = n
  BY <1>1, <1>2 DEF Results
<1>4. /\ c.block = r.block /\ c.events = r.events /\ c.technical = r.technical
      /\ c.consumed = r.consumed /\ c.completed = r.completed
  BY <1>2 DEF Results
<1> QED BY <1>3, <1>4 DEF n, c

\* A resolution the trainer may ask for.
MayResolve(e, outcome, resolution) ==
  /\ outcome \in Naturals0 /\ resolution \in Resolutions
  /\ resolution = "miss_click" => e.live.target.behavior.missClickEnds
  /\ resolution = "dwell_hit" => e.live.target.dwell > 0
  /\ resolution = "hit" => e.live.target.dwell = 0
  /\ resolution = "challenge_end_timeout" => e.left = 0
  /\ outcome = "hit_dwell" => e.live.inside # Never /\ NextDwellCompletion(e.live) <= 0

LEMMA ResolveKeeps ==
  ASSUME NEW e, RunInv(e), e.state = "event_active", NEW outcome, NEW resolution,
         MayResolve(e, outcome, resolution),
         NEW f, f = ResolveNatural(e, outcome, resolution)
  PROVE  /\ RunInv(f) /\ f.state = "event_tail" /\ f.left = e.left
         /\ f.index = e.index /\ f.events = e.events /\ f.live # NoLive
         /\ f.focused = e.focused /\ f.reason = e.reason
<1> DEFINE l == e.live
           plan == ResolutionPlan(l.target, resolution)
           n == Len(e.results)
           h == Resolve(e.generator, l.target, resolution)
           c == Scoring(e.results[n], plan.scored)
           after == [e.results EXCEPT ![n] = c]
           r == AtRest(l, outcome, plan)
<1>1. e \in Engines /\ StateInv(e) /\ Recorded(e) /\ FreshInv(e)
      /\ (e.generator.endPending => e.left = 0) /\ ~e.refused /\ e.state # "idle"
  BY DEF RunInv
<1>2. Active(e) /\ InPlan(e)
  BY <1>1 DEF StateInv
<1>3. /\ l \in Lives /\ l.target \in Targets /\ Unresolved(l) /\ Proper(e, l.target)
      /\ e.generator.targetActive /\ e.pending = NoTarget
  BY <1>2 DEF Active, Lives
<1>4. /\ e.results \in Seq(Results) /\ n \in Nat /\ n \in 1..n /\ DOMAIN e.results = 1..n
      /\ e.generator \in Generators /\ e.results[n] \in Results
  <2>1. e.results \in Seq(Results) /\ e.index \in Nat /\ e.generator \in Generators
    BY <1>1, EngineFields, PlanFacts
  <2>2. n = e.index + 1
    BY <1>2 DEF InPlan
  <2> QED BY <2>1, <2>2, SequenceFacts
<1>5. CanResolve(e.generator, l.target, resolution)
  BY <1>2, <1>3 DEF CanResolve, MayResolve, InPlan
<1>6. /\ plan \in Plans /\ (plan.scored <=> resolution \in Hits)
      /\ (plan.ends <=> resolution = "challenge_end_timeout")
      /\ plan.tail = IF plan.scored THEN l.target.behavior.hitTail
                                    ELSE l.target.behavior.nonhitTail
  BY <1>3, PlanOfFacts DEF MayResolve
<1>7. /\ h \in Generators /\ (h.blockActive <=> e.generator.blockActive) /\ ~h.targetActive
      /\ (h.endPending <=> resolution = "challenge_end_timeout")
      /\ h.expected = e.generator.expected /\ h.current = e.generator.current
      /\ l.target.role = "tickle_reset" => (h.nextSmall <=> resolution \in Hits)
      /\ l.target.role = "tickle_small" => ~h.nextSmall
  BY <1>4, ResolvedFacts
<1>8. f = [e EXCEPT !.live = r, !.generator = h, !.results = after, !.state = "event_tail"]
  <2>1. l.natural = "none"
    BY <1>3 DEF Unresolved
  <2>2. ~(e.live.natural # "none" \/ ~CanResolve(e.generator, e.live.target, resolution))
    BY <2>1, <1>5
  <2> QED BY <2>2 DEF ResolveNatural, AtRest, Scoring
<1> HIDE DEF plan, h
<1>9. /\ r \in Lives /\ r.target = l.target /\ r.natural = outcome /\ r.plan = plan
      /\ r.resolved = 0 /\ r.quiet = 0
      /\ r.streak = IF l.inside = Never THEN l.streak ELSE Greatest(l.streak, l.inside)
  BY <1>3, <1>6, AtRestFacts DEF MayResolve
<1>10. /\ c \in Results /\ c.block = e.results[n].block /\ c.events = e.results[n].events
       /\ c.technical = e.results[n].technical /\ c.consumed = e.results[n].consumed
       /\ c.completed = e.results[n].completed
       /\ c.score = e.results[n].score + (IF plan.scored THEN 1 ELSE 0)
  BY <1>4, ScoringFacts
<1> HIDE DEF r, c
<1>11. /\ after \in Seq(Results) /\ Len(after) = n /\ DOMAIN after = 1..n
       /\ \A i \in 1..n : after[i] = IF i = n THEN c ELSE e.results[i]
  BY <1>4, <1>10, ExceptSeq, SequenceFacts
<1> HIDE DEF after
<1>12. f \in Engines
  <2>1. "event_tail" \in States
    BY DEF States
  <2> HIDE DEF States
  <2> QED BY ZenonT(40), <2>1, <1>1, <1>7, <1>8, <1>9, <1>11 DEF Engines
<1>13. /\ f.state = "event_tail" /\ f.left = e.left
       /\ f.index = e.index /\ f.events = e.events /\ f.live = r
       /\ f.focused = e.focused /\ f.reason = e.reason /\ f.pending = e.pending
       /\ f.generator = h /\ f.results = after /\ f.refused = e.refused
  BY <1>1, <1>8 DEF Engines
<1>14. Resolved(r)
  <2>1. TailLeft(r) >= 0
    <3>1. /\ plan.tail.minimum \in Nat /\ plan.tail.settle \in Nat /\ plan.tail.maximum \in Nat
      BY <1>6 DEF Plans, Tails
    <3> QED BY <3>1, <1>9 DEF TailLeft, Least, Greatest
  <2>2. r.natural = "hit_dwell" => r.streak >= r.target.dwell + DwellQuietWindow
    <3> HAVE r.natural = "hit_dwell"
    <3>1. l.inside # Never /\ NextDwellCompletion(l) <= 0
      BY <1>9 DEF MayResolve
    <3>2. l.inside \in Nat /\ l.streak \in Nat /\ l.target.dwell \in Nat
      BY <1>3, <3>1 DEF Lives, Targets
    <3>3. DwellingLive(l)
      BY <1>3, <3>2 DEF DwellingLive, Unresolved
    <3>4. NextDwellCompletion(l) \in Int
          /\ NextDwellCompletion(l) >= l.target.dwell - l.inside + DwellQuietWindow
      BY <3>3, CompletionFacts
    <3>5. l.inside >= l.target.dwell + DwellQuietWindow
      BY <3>1, <3>2, <3>4 DEF DwellQuietWindow
    <3>6. r.streak = Greatest(l.streak, l.inside)
      BY <1>9, <3>1
    <3> QED BY <3>2, <3>5, <3>6, <1>9 DEF Greatest, DwellQuietWindow
  <2>3. r.natural \in Naturals0 /\ r.resolved \in Nat
    BY <1>9 DEF MayResolve
  <2> QED BY <2>1, <2>2, <2>3, <1>6, <1>9 DEF Resolved
<1>15. StateInv(f)
  <2>1. InPlan(f)
    BY <1>2, <1>7, <1>11, <1>13 DEF InPlan
  <2>2. Proper(f, r.target)
    BY <1>3, <1>7, <1>9, <1>13 DEF Proper, Alternates, ResetHit
  <2>3. r.plan.ends => f.left = 0
    BY <1>6, <1>9, <1>13 DEF MayResolve
  <2>4. Tickles(r.target) =>
          (h.nextSmall <=> r.target.role = "tickle_reset" /\ r.plan.scored)
    <3> HAVE Tickles(r.target)
    <3>1. r.target.role \in {"tickle_reset", "tickle_small"}
      BY <2>2, TickleRoles DEF Proper
    <3> QED BY <3>1, <1>6, <1>7, <1>9
  <2>5. Tailing(f)
    BY <2>2, <2>3, <2>4, <1>3, <1>7, <1>9, <1>13, <1>14 DEF Tailing
  <2> QED BY <2>1, <2>5, <1>13 DEF StateInv, Vacant
<1>16. FreshInv(f)
  BY <1>9, <1>13, NoneIsNone, LiveIsNotFresh DEF FreshInv
<1>17. Recorded(f)
  <2>1. EventsInv(f)
    <3>1. EventsInv(e)
      BY <1>1 DEF Recorded
    <3>2. \A t, k : Alternates(f, t, k) <=> Alternates(e, t, k)
      BY <1>13 DEF Alternates, ResetHit
    <3> QED BY <3>1, <3>2, <1>4, <1>11, <1>13 DEF EventsInv
  <2>2. ASSUME NEW i \in 1..n PROVE Tallied(f, i)
    <3>1. Tallied(e, i)
      BY <1>1, <1>4 DEF Recorded
    <3>2. \A b : Of(f, b) = Of(e, b)
      BY <1>13 DEF Of
    <3>3. \A b : Scored(f, b) = Scored(e, b) /\ Cut(f, b) = Cut(e, b)
      BY <1>13, <3>2 DEF Scored, Cut
    <3>4. CASE i = n
      <4> DEFINE x == e.results[n]
                 k == Cardinality(Scored(e, x.block))
      <4>1. OpenScore(e, n) = 0
        <5>1. ~l.plan.scored
          BY <1>3 DEF Unresolved, NoPlan
        <5> QED BY <5>1 DEF OpenScore
      <4>2. OpenScore(f, n) = IF plan.scored THEN 1 ELSE 0
        BY <1>9, <1>11, <1>13, NoneIsNone DEF OpenScore
      <4>3. /\ x.block = Plan[n] /\ (x.completed => x.consumed = BlockMs)
            /\ x.score = k + OpenScore(e, n)
            /\ x.events = Cardinality(Of(e, x.block))
            /\ x.technical = Cardinality(Cut(e, x.block))
        BY <3>1, <3>4 DEF Tallied
      <4>4. f.results[n] = c
        BY <1>4, <1>11, <1>13
      <4>5. x.score \in Nat /\ k \in Nat
        <5>1. x.score \in Nat
          BY <1>4 DEF Results
        <5>2. Scored(e, x.block) \subseteq 1..Len(e.events) /\ Len(e.events) \in Nat
          BY <1>1, EngineFields, SequenceFacts DEF Scored, Of
        <5> QED BY <5>1, <5>2, OneMore
      <4> HIDE DEF x, k
      <4>6. c.score = k + OpenScore(f, n)
        BY <1>10, <4>1, <4>2, <4>3, <4>5 DEF x
      <4>7. /\ c.block = x.block /\ c.events = x.events /\ c.technical = x.technical
            /\ c.consumed = x.consumed /\ c.completed = x.completed
        BY <1>10 DEF x
      <4>8. /\ c.block = Plan[n] /\ (c.completed => c.consumed = BlockMs)
            /\ c.score = Cardinality(Scored(f, c.block)) + OpenScore(f, n)
            /\ c.events = Cardinality(Of(f, c.block))
            /\ c.technical = Cardinality(Cut(f, c.block))
        BY <3>2, <3>3, <4>3, <4>6, <4>7 DEF k
      <4> QED BY <3>4, <4>4, <4>8 DEF Tallied
    <3>5. CASE i # n
      <4>1. f.results[i] = e.results[i] /\ OpenScore(f, i) = OpenScore(e, i)
        BY <1>11, <1>13, <3>5 DEF OpenScore
      <4> QED BY <3>1, <3>2, <3>3, <4>1 DEF Tallied
    <3> QED BY <3>4, <3>5
  <2>3. Len(f.results) <= Len(Plan)
    BY <1>1, <1>11, <1>13 DEF Recorded
  <2> QED BY <2>1, <2>2, <2>3, <1>11, <1>13 DEF Recorded
<1>18. f.generator.endPending => f.left = 0
  BY <1>7, <1>13 DEF MayResolve
<1>19. RunInv(f)
  BY <1>1, <1>12, <1>13, <1>15, <1>16, <1>17, <1>18 DEF RunInv
<1>20. f.live # NoLive
  BY <1>9, <1>13, NoneIsNone
<1> QED BY <1>13, <1>19, <1>20

------------------------------------------------------------------------------
(***************************************************************************)
(* Events that end.                                                        *)
(***************************************************************************)
LEMMA FinalizedLive ==
  ASSUME NEW l \in Lives, NEW technical \in Technical \cup {"none"},
         NEW v, v = Finalized(l.target, l, technical)
  PROVE  /\ v \in Events /\ v.target = l.target /\ v.technical = technical /\ v.presented
         /\ v.natural = l.natural /\ (v.scored <=> l.natural # "none" /\ l.plan.scored)
         /\ l.natural = "hit_dwell" => v.streak = l.streak
         /\ l.natural # "none" /\ technical = "none" =>
              v.tail = l.resolved /\ v.quiet = l.quiet
<1> DEFINE scored == l.natural # "none" /\ l.plan.scored
           ended == l.natural # "none" /\ technical = "none"
           streak == IF l.natural = "hit_dwell" THEN l.streak ELSE Never
           tail == IF ended THEN l.resolved ELSE Never
           quiet == IF ended THEN l.quiet ELSE Never
           presented == l # NoLive
<1>1. l # NoLive
  BY NoneIsNone
<1>2. /\ l.target \in Targets /\ l.streak \in Nat /\ l.natural \in Naturals0 \cup {"none"}
      /\ l.resolved \in Nat \cup {Never} /\ l.quiet \in Nat
  BY DEF Lives
<1>3. /\ streak \in Nat \cup {Never} /\ tail \in Nat \cup {Never} /\ quiet \in Nat \cup {Never}
  BY <1>2
<1>4. scored \in BOOLEAN /\ presented \in BOOLEAN /\ presented
  BY <1>1
<1>5. v = [target |-> l.target, technical |-> technical, presented |-> presented,
           natural |-> l.natural, scored |-> scored, streak |-> streak, tail |-> tail,
           quiet |-> quiet]
  BY <1>1 DEF Finalized
<1>6. /\ l.natural = "hit_dwell" => streak = l.streak
      /\ l.natural # "none" /\ technical = "none" => tail = l.resolved /\ quiet = l.quiet
      /\ (scored <=> l.natural # "none" /\ l.plan.scored)
  OBVIOUS
<1> HIDE DEF scored, streak, tail, quiet, presented
<1>7. v \in Events
  <2> HIDE DEF Naturals0, Technical
  <2> QED BY <1>2, <1>3, <1>4, <1>5 DEF Events
<1>8. /\ v.target = l.target /\ v.technical = technical /\ v.presented = presented
      /\ v.natural = l.natural /\ v.scored = scored /\ v.streak = streak
      /\ v.tail = tail /\ v.quiet = quiet
  BY <1>5
<1> QED BY <1>4, <1>6, <1>7, <1>8

LEMMA FinalizedPending ==
  ASSUME NEW t \in Targets, NEW technical \in Technical \cup {"none"},
         NEW v, v = Finalized(t, NoLive, technical)
  PROVE  /\ v \in Events /\ v.target = t /\ v.technical = technical /\ ~v.presented
         /\ v.natural = "none" /\ ~v.scored
<1> DEFINE scored == FALSE /\ NoLive.plan.scored
           presented == NoLive # NoLive
<1>1. scored \in BOOLEAN /\ ~scored /\ presented \in BOOLEAN /\ ~presented
  OBVIOUS
<1>2. v = [target |-> t, technical |-> technical, presented |-> presented,
           natural |-> "none", scored |-> scored, streak |-> Never, tail |-> Never,
           quiet |-> Never]
  BY DEF Finalized
<1> HIDE DEF scored, presented
<1>3. v \in Events
  BY <1>1, <1>2 DEF Events, Never
<1>4. /\ v.target = t /\ v.technical = technical /\ v.presented = presented
      /\ v.natural = "none" /\ v.scored = scored
  BY <1>2
<1> QED BY <1>1, <1>3, <1>4

\* An event of the current block stored: what the engine around it is then.
Stores(e, v) ==
  /\ RunInv(e) /\ InPlan(e) /\ v \in Events
  /\ Proper(e, v.target) /\ EventEarned(v)
  /\ v.scored <=> (e.live # NoLive /\ e.live.plan.scored)

LEMMA StoreFacts ==
  ASSUME NEW e, NEW v, Stores(e, v), NEW s, s = StoreFinalizedEvent(e, v)
  PROVE  /\ s \in Engines /\ Recorded(s) /\ InPlan(s)
         /\ s.state = e.state /\ s.reason = e.reason /\ s.focused = e.focused
         /\ s.index = e.index /\ s.over = e.over /\ s.refused = e.refused
         /\ s.left = e.left /\ s.countdown = e.countdown /\ s.delay = e.delay
         /\ s.generator = e.generator /\ s.pending = NoTarget /\ s.live = NoLive
         /\ s.events = Append(e.events, v) /\ Len(s.events) = Len(e.events) + 1
         /\ s.events \in Seq(Events)
         /\ ResetHit(s, e.generator.current, Len(s.events)) <=>
              v.target.role = "tickle_reset" /\ v.scored
         /\ v.presented => ~Fresh(s)
         /\ ~v.presented /\ e.live = NoLive => (Fresh(s) <=> Fresh(e))
<1> DEFINE n == Len(e.results)
           m == Len(e.events)
<1>1. e \in Engines /\ Recorded(e) /\ InPlan(e) /\ v \in Events
  BY DEF Stores, RunInv
<1>2. /\ e.index \in Nat /\ n = e.index + 1 /\ n \in Nat \ {0}
      /\ e.events \in Seq(Events) /\ m \in Nat /\ DOMAIN e.events = 1..m
      /\ e.results \in Seq(Results) /\ DOMAIN e.results = 1..n
  BY <1>1, EngineFields, PlanFacts, SequenceFacts DEF InPlan
<1>3. /\ s \in Engines
      /\ s.state = e.state /\ s.reason = e.reason /\ s.focused = e.focused
      /\ s.index = e.index /\ s.over = e.over /\ s.refused = e.refused
      /\ s.left = e.left /\ s.countdown = e.countdown /\ s.delay = e.delay
      /\ s.generator = e.generator /\ s.pending = NoTarget /\ s.live = NoLive
      /\ s.events = Append(e.events, v)
      /\ s.results = [e.results EXCEPT ![n] = Counting(e.results[n], v)]
  BY <1>1, <1>2, StoredShape
<1>4. Recorded(s)
  <2>1. /\ Drawn(v.target) /\ v.target.block = e.generator.current
        /\ Alternates(e, v.target, m) /\ EventEarned(v)
        /\ (v.scored <=> (e.live # NoLive /\ e.live.plan.scored))
    BY DEF Stores, Proper
  <2> QED BY <1>1, <2>1, StoredRecorded
<1>5. InPlan(s)
  <2>1. n \in 1..Len(e.results) /\ e.results[n] \in Results
    BY <1>2, ElementOfSeq
  <2>2. Counting(e.results[n], v) \in Results
    BY <2>1, CountingFacts
  <2>3. Len(s.results) = n
    BY <1>2, <1>3, <2>1, <2>2, ExceptSeq
  <2> QED BY <1>1, <1>3, <2>3 DEF InPlan
<1>6. /\ s.events \in Seq(Events) /\ Len(s.events) = m + 1 /\ DOMAIN s.events = 1..(m + 1)
      /\ s.events[m + 1] = v /\ \A k \in 1..m : s.events[k] = e.events[k]
  <2>1. /\ Append(e.events, v) \in Seq(Events) /\ Len(Append(e.events, v)) = m + 1
        /\ Append(e.events, v)[m + 1] = v /\ \A k \in 1..m : Append(e.events, v)[k] = e.events[k]
    BY <1>1, <1>2, AppendProperties
  <2> QED BY <2>1, <1>3, SequenceFacts
<1> HIDE DEF m
<1>7. ResetHit(s, e.generator.current, Len(s.events)) <=>
        v.target.role = "tickle_reset" /\ v.scored
  <2>1. v.target.block = e.generator.current /\ m + 1 > 0
    BY <1>2 DEF Stores, Proper
  <2> QED BY <2>1, <1>6 DEF ResetHit
<1>8. v.presented => ~Fresh(s)
  <2>1. Plan[Least(s.index + 1, Len(Plan))] = e.generator.current
    BY <1>3, <1>5, BlockOfFresh
  <2>2. m + 1 \in DOMAIN s.events /\ v.target.block = e.generator.current
    BY <1>2, <1>6 DEF Stores, Proper
  <2> QED BY <2>1, <2>2, <1>6 DEF Fresh
<1>9. ~v.presented /\ e.live = NoLive => (Fresh(s) <=> Fresh(e))
  <2>1. \A k \in 1..m : k \in 1..(m + 1)
    BY <1>2
  <2>2. \A k \in 1..(m + 1) : k \in 1..m \/ k = m + 1
    BY <1>2
  <2> QED BY <2>1, <2>2, <1>2, <1>3, <1>6 DEF Fresh
<1> QED BY <1>3, <1>4, <1>5, <1>6, <1>7, <1>8, <1>9 DEF m

\* The end of a tail: the event is recorded, and a pause or the end of the block follows.
LEMMA TailKeeps ==
  ASSUME NEW e, RunInv(e), e.state = "event_tail", TailLeft(e.live) = 0,
         NEW f, f = FinalizeNaturalTail(e)
  PROVE  /\ RunInv(f) /\ Len(f.events) = Len(e.events) + 1 /\ f.live = NoLive
         /\ f.focused = e.focused /\ f.reason = e.reason
         /\ \/ f.state = "inter_target_delay" /\ f.index = e.index /\ ~Fresh(f)
            \/ /\ f.state = "complete" \/ (f.state = "countdown" /\ f.left = BlockMs)
               /\ f.state = "complete" <=> f.index = Len(Plan)
               /\ f.state = "complete" => ~Fresh(f)
               /\ f.state = "countdown" => Fresh(f)
               /\ f.index = e.index + 1
<1> DEFINE l == e.live
           v == Finalized(l.target, l, "none")
           s == StoreFinalizedEvent(e, v)
<1>1. e \in Engines /\ StateInv(e) /\ Recorded(e) /\ FreshInv(e)
      /\ (e.generator.endPending => e.left = 0) /\ ~e.refused /\ e.state # "idle"
  BY DEF RunInv
<1>2. Tailing(e) /\ InPlan(e)
  BY <1>1 DEF StateInv
<1>3. /\ l \in Lives /\ l # NoLive /\ Proper(e, l.target) /\ Resolved(l)
      /\ l.natural \in Naturals0 /\ l.natural # "none"
      /\ ~e.generator.targetActive /\ e.pending = NoTarget
      /\ l.plan.ends => e.left = 0
  BY <1>2, NoneIsNone DEF Tailing, Resolved, Naturals0
<1>4. /\ v \in Events /\ v.target = l.target /\ v.technical = "none" /\ v.presented
      /\ v.natural = l.natural /\ (v.scored <=> l.plan.scored)
      /\ l.natural = "hit_dwell" => v.streak = l.streak
      /\ v.tail = l.resolved /\ v.quiet = l.quiet
  BY <1>3, FinalizedLive
<1> HIDE DEF v
<1>5. EventEarned(v)
  <2> DEFINE tail == ResolutionPlan(v.target, IF v.scored THEN "hit" ELSE "timeout").tail
  <2>1. tail = l.plan.tail
    <3>1. ResolutionPlan(v.target, "hit").tail = v.target.behavior.hitTail
          /\ ResolutionPlan(v.target, "timeout").tail = v.target.behavior.nonhitTail
      BY DEF ResolutionPlan, Hits
    <3>2. l.plan.tail = IF l.plan.scored THEN l.target.behavior.hitTail
                                         ELSE l.target.behavior.nonhitTail
      BY <1>3 DEF Resolved
    <3>3. CASE v.scored
      BY <1>4, <3>1, <3>2, <3>3
    <3>4. CASE ~v.scored
      BY <1>4, <3>1, <3>2, <3>4
    <3> QED BY <3>3, <3>4
  <2>2. /\ l.plan.tail.minimum \in Nat /\ l.plan.tail.settle \in Nat
        /\ l.plan.tail.maximum \in Nat /\ ValidTail(l.plan.tail)
        /\ l.resolved \in Nat /\ l.quiet \in Nat
    BY <1>3 DEF Lives, Plans, Tails, Resolved
  <2>3. /\ l.plan.tail.minimum <= l.resolved /\ l.resolved <= l.plan.tail.maximum
        /\ l.resolved < l.plan.tail.maximum => l.quiet >= l.plan.tail.settle
    BY <2>2 DEF TailLeft, Least, Greatest, ValidTail
  <2>4. v.natural = "hit_dwell" => v.streak >= v.target.dwell + DwellQuietWindow
    BY <1>3, <1>4 DEF Resolved
  <2>5. tail.minimum <= v.tail /\ v.tail <= tail.maximum
        /\ (v.tail < tail.maximum => v.quiet >= tail.settle)
    BY <2>1, <2>3, <1>4
  <2> HIDE DEF tail
  <2>6. EventEarned(v) <=>
          /\ v.natural = "hit_dwell" => v.streak >= v.target.dwell + DwellQuietWindow
          /\ v.natural # "none" /\ v.technical = "none" =>
               /\ tail.minimum <= v.tail /\ v.tail <= tail.maximum
               /\ v.tail < tail.maximum => v.quiet >= tail.settle
    BY DEF EventEarned, tail
  <2> QED BY <2>4, <2>5, <2>6
<1>6. Stores(e, v)
  BY <1>2, <1>3, <1>4, <1>5 DEF Stores
<1>7. /\ s \in Engines /\ Recorded(s) /\ InPlan(s)
      /\ s.state = e.state /\ s.reason = e.reason /\ s.focused = e.focused
      /\ s.index = e.index /\ s.refused = e.refused /\ s.left = e.left
      /\ s.generator = e.generator /\ s.pending = NoTarget /\ s.live = NoLive
      /\ Len(s.events) = Len(e.events) + 1
      /\ ResetHit(s, e.generator.current, Len(s.events)) <=>
           v.target.role = "tickle_reset" /\ v.scored
      /\ ~Fresh(s)
  BY <1>4, <1>6, StoreFacts
<1>8. f = IF l.plan.ends \/ e.left = 0 THEN CompleteBlock(s)
          ELSE [s EXCEPT !.state = "inter_target_delay", !.delay = l.plan.delay]
  BY DEF FinalizeNaturalTail, v
<1> HIDE DEF s
<1>9. CASE l.plan.ends \/ e.left = 0
  <2>1. f = CompleteBlock(s) /\ e.left = 0
    BY <1>3, <1>8, <1>9
  <2>2. Ends(s)
    BY <2>1, <1>1, <1>3, <1>7 DEF Ends
  <2>3. /\ RunInv(f)
        /\ f.state = "complete" \/ (f.state = "countdown" /\ f.left = BlockMs)
        /\ f.state = "complete" <=> f.index = Len(Plan)
        /\ f.state = "complete" => (Fresh(f) <=> Fresh(s))
        /\ f.state = "countdown" => Fresh(f)
        /\ f.index = s.index + 1 /\ f.events = s.events /\ f.live = NoLive
        /\ f.focused = s.focused /\ f.reason = s.reason
    BY <2>1, <2>2, BlockEnds
  <2> QED BY <2>3, <1>7
<1>10. CASE ~(l.plan.ends \/ e.left = 0)
  <2>1. f = [s EXCEPT !.state = "inter_target_delay", !.delay = l.plan.delay]
    BY <1>8, <1>10
  <2>2. f \in Engines
    <3>1. "inter_target_delay" \in States /\ l.plan.delay \in Nat
      BY <1>3 DEF States, Lives, Plans
    <3> HIDE DEF States
    <3> QED BY <3>1, <2>1, <1>7 DEF Engines
  <2>3. /\ f.state = "inter_target_delay" /\ f.left = s.left
        /\ f.index = s.index /\ f.events = s.events /\ f.live = s.live
        /\ f.focused = s.focused /\ f.reason = s.reason /\ f.pending = s.pending
        /\ f.generator = s.generator /\ f.results = s.results /\ f.refused = s.refused
    BY <1>7, <2>1 DEF Engines
  <2>4. Between(f)
    <3>1. Pattern[e.generator.current] = "tickle_fast" =>
            (e.generator.nextSmall <=> v.target.role = "tickle_reset" /\ v.scored)
      BY <1>2, <1>3, <1>4 DEF Tailing, Tickles, Proper
    <3>2. ResetHit(f, e.generator.current, Len(f.events)) <=>
            v.target.role = "tickle_reset" /\ v.scored
      BY <1>7, <2>3 DEF ResetHit
    <3> QED BY <3>1, <3>2, <1>3, <1>7, <2>3 DEF Between
  <2>5. ~Fresh(f)
    BY <1>7, <2>3 DEF Fresh
  <2>6. Recorded(f)
    <3>1. \A i \in DOMAIN s.results : OpenScore(f, i) = OpenScore(s, i)
      BY <2>3 DEF OpenScore
    <3> QED BY <3>1, <1>7, <2>3, RecordedSame
  <2>7. StateInv(f)
    BY <1>7, <2>3, <2>4 DEF StateInv, Vacant, InPlan
  <2>8. RunInv(f)
    BY <1>1, <1>7, <2>2, <2>3, <2>5, <2>6, <2>7 DEF RunInv, FreshInv
  <2> QED BY <1>7, <2>3, <2>5, <2>8
<1> QED BY <1>9, <1>10

------------------------------------------------------------------------------
(***************************************************************************)
(* Pauses.                                                                 *)
(***************************************************************************)
LEMMA AbortedFacts ==
  ASSUME NEW g \in Generators, NEW h, h = AbortTechnical(g)
  PROVE  /\ h \in Generators /\ (h.blockActive <=> g.blockActive) /\ ~h.targetActive
         /\ (h.endPending <=> g.endPending) /\ h.expected = g.expected /\ h.current = g.current
         /\ Pattern[g.current] = "tickle_fast" => ~h.nextSmall
<1> DEFINE small == g.nextSmall /\ Pattern[g.current] # "tickle_fast"
<1>1. small \in BOOLEAN /\ (Pattern[g.current] = "tickle_fast" => ~small)
  OBVIOUS
<1>2. h = [g EXCEPT !.hasPrevious = FALSE, !.targetActive = FALSE, !.nextSmall = small]
  BY DEF AbortTechnical
<1> HIDE DEF small
<1>3. h \in Generators
  BY <1>1, <1>2 DEF Generators
<1>4. ~h.targetActive /\ h.expected = g.expected /\ h.current = g.current
  BY <1>2 DEF Generators
<1>5. h.blockActive = g.blockActive /\ h.endPending = g.endPending /\ h.nextSmall = small
  BY <1>2 DEF Generators
<1> QED BY <1>1, <1>3, <1>4, <1>5

\* Nothing is out, and what is recorded is in order.
Settled(s) ==
  /\ s \in Engines /\ ~s.refused /\ Recorded(s) /\ InPlan(s) /\ Between(s)
  /\ s.generator.endPending => s.left = 0
  /\ Fresh(s) => s.left = BlockMs

PausedFrom(s, outcome) ==
  [s EXCEPT !.state = "paused", !.countdown = 0, !.delay = 0, !.reason = outcome]

LEMMA SettledPauses ==
  ASSUME NEW s, Settled(s), NEW outcome \in Technical, NEW f, f = PausedFrom(s, outcome)
  PROVE  /\ RunInv(f) /\ f.state = "paused" /\ f.reason = outcome /\ f.focused = s.focused
         /\ f.index = s.index /\ f.events = s.events /\ (Fresh(f) <=> Fresh(s))
<1>0. f = [s EXCEPT !.state = "paused", !.countdown = 0, !.delay = 0, !.reason = outcome]
  BY DEF PausedFrom
<1>1. s \in Engines /\ ~s.refused /\ Recorded(s) /\ InPlan(s) /\ Between(s)
      /\ (s.generator.endPending => s.left = 0) /\ (Fresh(s) => s.left = BlockMs)
  BY DEF Settled
<1>2. f \in Engines
  <2>1. "paused" \in States /\ 0 \in Nat /\ outcome \in Technical \cup {"none"}
    BY DEF States
  <2> HIDE DEF States, Technical
  <2> QED BY <2>1, <1>0, <1>1 DEF Engines
<1>3. /\ f.state = "paused" /\ f.left = s.left
      /\ f.index = s.index /\ f.events = s.events /\ f.live = s.live
      /\ f.focused = s.focused /\ f.reason = outcome /\ f.pending = s.pending
      /\ f.generator = s.generator /\ f.results = s.results /\ f.refused = s.refused
  BY <1>0, <1>1 DEF Engines
<1>4. Recorded(f)
  <2>1. \A i \in DOMAIN s.results : OpenScore(f, i) = OpenScore(s, i)
    BY <1>3 DEF OpenScore
  <2> QED BY <2>1, <1>1, <1>3, RecordedSame
<1>5. StateInv(f)
  <2>1. InPlan(f) /\ Between(f)
    BY <1>1, <1>3 DEF InPlan, Between, ResetHit
  <2> QED BY <2>1, <1>3 DEF StateInv, Vacant
<1>6. Fresh(f) <=> Fresh(s)
  BY <1>3 DEF Fresh
<1>7. FreshInv(f)
  BY <1>1, <1>3, <1>6 DEF FreshInv
<1> QED BY <1>1, <1>2, <1>3, <1>4, <1>5, <1>6, <1>7 DEF RunInv

\* What is out when it is interrupted.
Out == {"awaiting_presentation", "event_active", "event_tail"}

LEMMA InterruptionSettles ==
  ASSUME NEW e, RunInv(e), e.state \in Out, NEW outcome \in Technical,
         NEW s, s = FinalizeForTechnicalInterruption(e, outcome)
  PROVE  /\ Settled(s) /\ s.focused = e.focused /\ s.index = e.index
         /\ Len(s.events) = Len(e.events) + 1 /\ (Fresh(s) <=> Fresh(e))
<1> DEFINE g == e.generator
           t == IF e.state = "awaiting_presentation" THEN e.pending ELSE e.live.target
           v == Finalized(t, e.live, outcome)
           k == StoreFinalizedEvent(e, v)
           h == AbortTechnical(g)
<1>1. e \in Engines /\ StateInv(e) /\ Recorded(e) /\ FreshInv(e)
      /\ (g.endPending => e.left = 0) /\ ~e.refused /\ e.state # "idle" /\ InPlan(e)
  BY DEF RunInv, StateInv, Out
<1>2. g \in Generators /\ outcome \in Technical \cup {"none"} /\ outcome # "none"
  BY <1>1, EngineFields DEF Technical, Outcomes
<1>3. s = IF e.state = "event_tail" THEN k
          ELSE IF ~CanAbort(g) THEN Refuse(e) ELSE [k EXCEPT !.generator = AbortTechnical(@)]
  BY DEF FinalizeForTechnicalInterruption
<1>4. /\ v \in Events /\ v.target = t /\ v.technical = outcome /\ Proper(e, t)
      /\ (v.presented <=> e.live # NoLive) /\ (v.scored <=> e.live # NoLive /\ e.live.plan.scored)
      /\ EventEarned(v)
      /\ e.state # "event_tail" => g.targetActive /\ ~v.scored
      /\ e.state = "event_tail" => ~g.targetActive
  <2>1. CASE e.state = "awaiting_presentation"
    <3>1. Awaiting(e)
      BY <1>1, <2>1 DEF StateInv
    <3>2. /\ e.live = NoLive /\ t = e.pending /\ t \in Targets /\ Proper(e, t) /\ g.targetActive
      BY <2>1, <3>1 DEF Awaiting, Proper, Drawn
    <3>3. /\ v \in Events /\ v.target = t /\ v.technical = outcome /\ ~v.presented
          /\ v.natural = "none" /\ ~v.scored
      BY <1>2, <3>2, FinalizedPending
    <3>4. EventEarned(v)
      BY <3>3 DEF EventEarned
    <3> QED BY <2>1, <3>2, <3>3, <3>4
  <2>2. CASE e.state \in {"event_active", "event_tail"}
    <3>1. /\ e.live \in Lives /\ e.live # NoLive /\ t = e.live.target /\ Proper(e, t)
          /\ e.state = "event_active" => Unresolved(e.live) /\ g.targetActive
          /\ e.state = "event_tail" => Resolved(e.live) /\ ~g.targetActive
      BY <1>1, <2>2, NoneIsNone DEF StateInv, Active, Tailing
    <3>2. /\ v \in Events /\ v.target = t /\ v.technical = outcome /\ v.presented
          /\ v.natural = e.live.natural
          /\ (v.scored <=> e.live.natural # "none" /\ e.live.plan.scored)
          /\ e.live.natural = "hit_dwell" => v.streak = e.live.streak
      BY <1>2, <3>1, FinalizedLive
    <3>3. /\ e.state = "event_active" => e.live.natural = "none" /\ ~e.live.plan.scored
          /\ e.state = "event_tail" => e.live.natural # "none"
      BY <3>1 DEF Unresolved, Resolved, NoPlan, Naturals0
    <3>4. v.scored <=> e.live # NoLive /\ e.live.plan.scored
      BY <2>2, <3>1, <3>2, <3>3
    <3>5. EventEarned(v)
      <4>1. v.natural = "hit_dwell" => v.streak >= v.target.dwell + DwellQuietWindow
        BY <2>2, <3>1, <3>2, <3>3 DEF Resolved
      <4>2. v.technical # "none"
        BY <1>2, <3>2
      <4> QED BY <4>1, <4>2 DEF EventEarned
    <3> QED BY <2>2, <3>1, <3>2, <3>3, <3>4, <3>5
  <2> QED BY <2>1, <2>2 DEF Out
<1> HIDE DEF v, t
<1>5. Stores(e, v)
  BY <1>1, <1>4 DEF Stores
<1>6. /\ k \in Engines /\ Recorded(k) /\ InPlan(k)
      /\ k.state = e.state /\ k.focused = e.focused
      /\ k.index = e.index /\ k.refused = e.refused /\ k.left = e.left
      /\ k.generator = g /\ k.pending = NoTarget /\ k.live = NoLive
      /\ Len(k.events) = Len(e.events) + 1
      /\ ResetHit(k, g.current, Len(k.events)) <=> v.target.role = "tickle_reset" /\ v.scored
      /\ v.presented => ~Fresh(k)
      /\ ~v.presented /\ e.live = NoLive => (Fresh(k) <=> Fresh(e))
  BY <1>5, StoreFacts
<1> HIDE DEF k
<1>7. Fresh(k) <=> Fresh(e)
  <2>1. CASE e.live = NoLive
    BY <2>1, <1>4, <1>6
  <2>2. CASE e.live # NoLive
    BY <2>2, <1>4, <1>6, LiveIsNotFresh
  <2> QED BY <2>1, <2>2
<1>8. Fresh(e) => e.left = BlockMs
  BY <1>1 DEF FreshInv, Out
<1>9. CASE e.state = "event_tail"
  <2>1. s = k
    BY <1>3, <1>9
  <2>2. Between(k)
    <3>1. Tailing(e) /\ e.live # NoLive
      BY <1>1, <1>9, NoneIsNone DEF StateInv, Tailing
    <3>2. Pattern[g.current] = "tickle_fast" =>
            (g.nextSmall <=> v.target.role = "tickle_reset" /\ v.scored)
      BY <1>4, <1>9, <3>1 DEF Tailing, Tickles, Proper, t
    <3> QED BY <3>2, <1>4, <1>6, <1>9 DEF Between
  <2> QED BY <2>1, <2>2, <1>1, <1>6, <1>7, <1>8 DEF Settled
<1>10. CASE e.state # "event_tail"
  <2>1. CanAbort(g)
    BY <1>1, <1>4, <1>10 DEF CanAbort, InPlan
  <2>2. s = [k EXCEPT !.generator = h]
    BY <1>3, <1>6, <1>10, <2>1
  <2>3. /\ h \in Generators /\ (h.blockActive <=> g.blockActive) /\ ~h.targetActive
        /\ (h.endPending <=> g.endPending) /\ h.expected = g.expected /\ h.current = g.current
        /\ Pattern[g.current] = "tickle_fast" => ~h.nextSmall
    BY <1>2, AbortedFacts
  <2> HIDE DEF h
  <2>4. s \in Engines
    BY <2>2, <2>3, <1>6 DEF Engines
  <2>5. /\ s.state = k.state /\ s.focused = k.focused
        /\ s.index = k.index /\ s.refused = k.refused /\ s.left = k.left
        /\ s.generator = h /\ s.pending = k.pending /\ s.live = k.live
        /\ s.events = k.events /\ s.results = k.results
    BY <2>2, <1>6 DEF Engines
  <2>6. Recorded(s)
    <3>1. \A i \in DOMAIN k.results : OpenScore(s, i) = OpenScore(k, i)
      BY <2>5 DEF OpenScore
    <3> QED BY <3>1, <1>6, <2>5, RecordedSame
  <2>7. InPlan(s)
    BY <1>6, <2>3, <2>5 DEF InPlan
  <2>8. Between(s)
    <3>1. ~ResetHit(s, g.current, Len(s.events))
      <4>1. ~ResetHit(k, g.current, Len(k.events))
        BY <1>4, <1>6, <1>10
      <4> QED BY <4>1, <2>5 DEF ResetHit
    <3> QED BY <3>1, <1>6, <2>3, <2>5 DEF Between
  <2>9. Fresh(s) <=> Fresh(e)
    <3>1. Fresh(s) <=> Fresh(k)
      BY <2>5 DEF Fresh
    <3> QED BY <3>1, <1>7
  <2> QED BY <1>1, <1>6, <1>8, <2>3, <2>4, <2>5, <2>6, <2>7, <2>8, <2>9 DEF Settled
<1> QED BY <1>9, <1>10

LEMMA PauseKeeps ==
  ASSUME NEW e, RunInv(e), NEW outcome \in Technical, NEW f, f = PauseInternal(e, outcome)
  PROVE  /\ RunInv(f)
         /\ e.state \in {"complete", "paused"} => f = e
         /\ e.state \notin {"complete", "paused"} =>
              /\ f.state = "paused" /\ f.reason = outcome /\ f.focused = e.focused
              /\ f.index = e.index /\ (Fresh(f) <=> Fresh(e))
              /\ Len(f.events) = IF e.state \in Out THEN Len(e.events) + 1 ELSE Len(e.events)
<1>1. e \in Engines /\ StateInv(e) /\ Recorded(e) /\ FreshInv(e)
      /\ (e.generator.endPending => e.left = 0) /\ ~e.refused /\ e.state # "idle"
  BY DEF RunInv
<1>2. CASE e.state \in {"complete", "paused"}
  BY <1>2 DEF PauseInternal
<1>3. CASE e.state \in Out
  <2> DEFINE stored == FinalizeForTechnicalInterruption(e, outcome)
  <2>1. f = PausedFrom(stored, outcome)
    BY <1>3 DEF PauseInternal, Out, PausedFrom
  <2>2. /\ Settled(stored) /\ stored.focused = e.focused /\ stored.index = e.index
        /\ Len(stored.events) = Len(e.events) + 1 /\ (Fresh(stored) <=> Fresh(e))
    BY <1>3, InterruptionSettles
  <2> HIDE DEF stored
  <2>3. /\ RunInv(f) /\ f.state = "paused" /\ f.reason = outcome /\ f.focused = stored.focused
        /\ f.index = stored.index /\ f.events = stored.events /\ (Fresh(f) <=> Fresh(stored))
    BY <2>1, <2>2, SettledPauses
  <2>4. e.state \notin {"complete", "paused"}
    BY <1>3 DEF Out
  <2> QED BY <2>2, <2>3, <2>4, <1>3
<1>4. CASE e.state \in {"countdown", "inter_target_delay"}
  <2>1. f = PausedFrom(e, outcome)
    BY <1>4 DEF PauseInternal, PausedFrom
  <2>2. Settled(e)
    BY <1>1, <1>4 DEF Settled, StateInv, Vacant, FreshInv
  <2>3. /\ RunInv(f) /\ f.state = "paused" /\ f.reason = outcome /\ f.focused = e.focused
        /\ f.index = e.index /\ f.events = e.events /\ (Fresh(f) <=> Fresh(e))
    BY <2>1, <2>2, SettledPauses
  <2>4. e.state \notin {"complete", "paused"} /\ e.state \notin Out
    BY <1>4 DEF Out
  <2> QED BY <2>3, <2>4
<1>5. e.state \in States \ {"idle"}
  BY <1>1, EngineFields
<1> QED BY <1>2, <1>3, <1>4, <1>5 DEF States, Out

LEMMA ResumeKeeps ==
  ASSUME NEW e, RunInv(e), CanResume(e), NEW f, f = StartResumeCountdown(e)
  PROVE  /\ RunInv(f) /\ f.state = "countdown" /\ f.reason = "none" /\ f.focused = e.focused
         /\ f.index = e.index /\ f.events = e.events /\ (Fresh(f) <=> Fresh(e))
<1>1. e \in Engines /\ StateInv(e) /\ Recorded(e) /\ FreshInv(e)
      /\ (e.generator.endPending => e.left = 0) /\ ~e.refused /\ e.state = "paused"
  BY DEF RunInv, CanResume
<1>2. f = [e EXCEPT !.reason = "none", !.countdown = Countdown, !.state = "countdown"]
  BY DEF StartResumeCountdown
<1>3. f \in Engines
  <2>1. "countdown" \in States /\ Countdown \in Nat /\ "none" \in Technical \cup {"none"}
    BY DEF States, Countdown
  <2> HIDE DEF States, Technical, Countdown
  <2> QED BY <2>1, <1>1, <1>2 DEF Engines
<1>4. /\ f.state = "countdown" /\ f.left = e.left
      /\ f.index = e.index /\ f.events = e.events /\ f.live = e.live
      /\ f.focused = e.focused /\ f.reason = "none" /\ f.pending = e.pending
      /\ f.generator = e.generator /\ f.results = e.results /\ f.refused = e.refused
  BY <1>1, <1>2 DEF Engines
<1>5. Recorded(f)
  <2>1. \A i \in DOMAIN e.results : OpenScore(f, i) = OpenScore(e, i)
    BY <1>4 DEF OpenScore
  <2> QED BY <2>1, <1>1, <1>4, RecordedSame
<1>6. StateInv(f)
  <2>1. InPlan(e) /\ Between(e)
    BY <1>1 DEF StateInv, Vacant
  <2>2. InPlan(f) /\ Between(f)
    BY <2>1, <1>4 DEF InPlan, Between, ResetHit
  <2> QED BY <2>2, <1>4 DEF StateInv, Vacant
<1>7. Fresh(f) <=> Fresh(e)
  BY <1>4 DEF Fresh
<1>8. FreshInv(f)
  BY <1>1, <1>4, <1>7 DEF FreshInv
<1> QED BY <1>1, <1>3, <1>4, <1>5, <1>6, <1>7, <1>8 DEF RunInv

\* The focus alone changes nothing else.
LEMMA FocusedKeeps ==
  ASSUME NEW e, RunInv(e), NEW focus \in BOOLEAN, NEW f, f = [e EXCEPT !.focused = focus]
  PROVE  /\ RunInv(f) /\ f.focused = focus /\ f.state = e.state /\ f.reason = e.reason
         /\ f.index = e.index /\ f.events = e.events /\ (Fresh(f) <=> Fresh(e))
<1>1. e \in Engines /\ StateInv(e) /\ Recorded(e) /\ FreshInv(e)
      /\ (e.generator.endPending => e.left = 0) /\ ~e.refused /\ e.state # "idle"
  BY DEF RunInv
<1>2. f \in Engines
  BY <1>1 DEF Engines
<1>3. /\ f.state = e.state /\ f.left = e.left
      /\ f.index = e.index /\ f.events = e.events /\ f.live = e.live
      /\ f.focused = focus /\ f.reason = e.reason /\ f.pending = e.pending
      /\ f.generator = e.generator /\ f.results = e.results /\ f.refused = e.refused
  BY <1>1 DEF Engines
<1>4. Recorded(f)
  <2>1. \A i \in DOMAIN e.results : OpenScore(f, i) = OpenScore(e, i)
    BY <1>3 DEF OpenScore
  <2> QED BY <2>1, <1>1, <1>3, RecordedSame
<1>5. StateInv(f)
  <2>1. \A t : Proper(e, t) => Proper(f, t)
    BY <1>3 DEF Proper, Alternates, ResetHit
  <2> QED BY <2>1, <1>1, <1>3
          DEF StateInv, InPlan, Between, ResetHit, Awaiting, Active, Tailing, Completed
<1>6. Fresh(f) <=> Fresh(e)
  BY <1>3 DEF Fresh
<1>7. FreshInv(f)
  BY <1>1, <1>3, <1>6 DEF FreshInv
<1> QED BY <1>1, <1>2, <1>3, <1>4, <1>5, <1>6, <1>7 DEF RunInv

LEMMA FocusKeeps ==
  ASSUME NEW e, RunInv(e), NEW focus \in BOOLEAN, NEW f, f = FocusTrainer(e, focus)
  PROVE  RunInv(f)
<1> DEFINE g == [e EXCEPT !.focused = focus]
<1>1. RunInv(g) /\ g.focused = focus
  BY FocusedKeeps
<1>2. f = IF e.focused = focus THEN e
          ELSE IF ~focus THEN PauseInternal(g, "focus_lost")
          ELSE IF g.state = "paused" /\ g.reason = "focus_lost" THEN StartResumeCountdown(g)
          ELSE g
  BY DEF FocusTrainer
<1> HIDE DEF g
<1>3. "focus_lost" \in Technical
  BY DEF Technical
<1>4. CASE e.focused = focus
  BY <1>2, <1>4
<1>5. CASE e.focused # focus /\ ~focus
  <2>1. f = PauseInternal(g, "focus_lost")
    BY <1>2, <1>5
  <2> QED BY <2>1, <1>1, <1>3, PauseKeeps
<1>6. CASE e.focused # focus /\ focus /\ g.state = "paused" /\ g.reason = "focus_lost"
  <2>1. f = StartResumeCountdown(g) /\ CanResume(g)
    BY <1>1, <1>2, <1>6 DEF CanResume
  <2> QED BY <2>1, <1>1, ResumeKeeps
<1>7. CASE e.focused # focus /\ focus /\ ~(g.state = "paused" /\ g.reason = "focus_lost")
  BY <1>1, <1>2, <1>7
<1> QED BY <1>4, <1>5, <1>6, <1>7

------------------------------------------------------------------------------
(***************************************************************************)
(* Presentation and packets.                                               *)
(***************************************************************************)
\* A live event replaced by one of the same target and outcome.
WithLive(e, l, over) == [e EXCEPT !.over = over, !.live = l]

SameTarget(l, k) ==
  /\ k \in Lives /\ k.target = l.target /\ k.natural = l.natural /\ k.resolved = l.resolved
  /\ k.plan = l.plan

LEMMA LiveFacts ==
  ASSUME NEW t \in Targets, NEW inside
  PROVE  LET l == Live(t, inside)
         IN l \in Lives /\ l.target = t /\ Unresolved(l)
<1> DEFINE l == Live(t, inside)
           since == IF inside THEN 0 ELSE Never
<1>1. since \in Nat \cup {Never} /\ Never \in Nat \cup {Never}
  OBVIOUS
<1>2. NoPlan \in Plans
  <2>1. TailOf(0, 0, 0) \in Tails
    BY DEF TailOf, Tails, ValidTail
  <2> QED BY <2>1 DEF NoPlan, Plans
<1>3. <<>> \in Seq(Moves)
  BY EmptySeq
<1>4. l = [target |-> t, age |-> 0, inside |-> since, streak |-> 0, moves |-> <<>>,
           natural |-> "none", resolved |-> Never, quiet |-> 0, plan |-> NoPlan]
  BY DEF Live
<1> HIDE DEF since, l
<1>5. "none" \in Naturals0 \cup {"none"}
  OBVIOUS
<1>6. l \in Lives
  <2> HIDE DEF Naturals0
  <2> QED BY <1>1, <1>2, <1>3, <1>4, <1>5 DEF Lives
<1>7. /\ l.target = t /\ l.natural = "none" /\ l.resolved = Never /\ l.plan = NoPlan
      /\ l.moves = <<>>
  BY <1>4
<1>8. InOrder(<<>>)
  BY EmptySeq DEF InOrder
<1>9. l \in Lives /\ l.target = t /\ Unresolved(l)
  BY <1>6, <1>7, <1>8 DEF Unresolved
<1> QED BY <1>9 DEF l

LEMMA PresentedKeeps ==
  ASSUME NEW e, RunInv(e), e.state = "awaiting_presentation",
         NEW f, f = [e EXCEPT !.live = Live(e.pending, e.over), !.pending = NoTarget,
                              !.state = "event_active"]
  PROVE  /\ RunInv(f) /\ f.state = "event_active" /\ f.live # NoLive /\ f.left = e.left
         /\ f.index = e.index /\ f.events = e.events
         /\ f.focused = e.focused /\ f.reason = e.reason
<1> DEFINE l == Live(e.pending, e.over)
<1>1. e \in Engines /\ StateInv(e) /\ Recorded(e) /\ FreshInv(e)
      /\ (e.generator.endPending => e.left = 0) /\ ~e.refused
  BY DEF RunInv
<1>2. Awaiting(e) /\ InPlan(e) /\ e.pending \in Targets
  BY <1>1 DEF StateInv, Awaiting, Proper, Drawn
<1>3. l \in Lives /\ l.target = e.pending /\ Unresolved(l) /\ l # NoLive
  BY <1>2, LiveFacts, NoneIsNone
<1> HIDE DEF l
<1>4. f = [e EXCEPT !.live = l, !.pending = NoTarget, !.state = "event_active"]
  BY DEF l
<1>5. f \in Engines
  <2>1. "event_active" \in States
    BY DEF States
  <2> HIDE DEF States
  <2> QED BY <2>1, <1>1, <1>3, <1>4 DEF Engines
<1>6. /\ f.state = "event_active" /\ f.left = e.left
      /\ f.index = e.index /\ f.events = e.events /\ f.live = l
      /\ f.focused = e.focused /\ f.reason = e.reason /\ f.pending = NoTarget
      /\ f.generator = e.generator /\ f.results = e.results /\ f.refused = e.refused
  BY <1>1, <1>4 DEF Engines
<1>7. Recorded(f)
  <2>1. e.live = NoLive /\ ~l.plan.scored
    BY <1>2, <1>3 DEF Awaiting, Unresolved, NoPlan
  <2>2. \A i \in DOMAIN e.results : OpenScore(f, i) = OpenScore(e, i)
    BY <1>6, <2>1 DEF OpenScore
  <2> QED BY <2>2, <1>1, <1>6, RecordedSame
<1>8. StateInv(f)
  <2>1. InPlan(f)
    BY <1>2, <1>6 DEF InPlan
  <2>2. Proper(f, l.target)
    BY <1>2, <1>3, <1>6 DEF Awaiting, Proper, Alternates, ResetHit
  <2>3. Active(f)
    BY <1>2, <1>3, <1>6, <2>2 DEF Awaiting, Active
  <2> QED BY <2>1, <2>3, <1>6 DEF StateInv, Vacant
<1>9. FreshInv(f)
  BY <1>3, <1>6, LiveIsNotFresh DEF FreshInv
<1>10. RunInv(f)
  BY <1>1, <1>5, <1>6, <1>7, <1>8, <1>9 DEF RunInv
<1> QED BY <1>3, <1>6, <1>10

LEMMA GeometryFacts ==
  ASSUME NEW l \in Lives, NEW size \in Nat, NEW inside \in BOOLEAN,
         NEW k, k = UpdateActiveGeometry(l, size, inside)
  PROVE  SameTarget(l, k) /\ (InOrder(l.moves) => InOrder(k.moves))
<1>1. /\ l.streak \in Nat /\ l.inside \in Nat \cup {Never} /\ l.moves \in Seq(Moves)
      /\ <<>> \in Seq(Moves) /\ Never \in Nat \cup {Never} /\ 0 \in Nat \cup {Never}
  BY EmptySeq DEF Lives
<1>2. InOrder(<<>>)
  BY EmptySeq DEF InOrder
<1>3. CASE l.inside # Never /\ ~inside
  <2> DEFINE streak == IF l.inside = Never THEN l.streak ELSE Greatest(l.streak, l.inside)
  <2>1. streak \in Nat
    BY <1>1 DEF Greatest
  <2>2. k = [[l EXCEPT !.streak = streak, !.inside = Never] EXCEPT !.moves = <<>>]
    BY <1>3 DEF UpdateActiveGeometry, CloseInsideInterval
  <2> HIDE DEF streak
  <2>3. k \in Lives
    BY <1>1, <2>1, <2>2 DEF Lives
  <2>4. /\ k.target = l.target /\ k.natural = l.natural /\ k.resolved = l.resolved
        /\ k.plan = l.plan /\ k.moves = <<>>
    BY <2>2 DEF Lives
  <2> QED BY <2>3, <2>4, <1>2 DEF SameTarget
<1>4. CASE ~(l.inside # Never /\ ~inside) /\ l.inside = Never /\ inside
  <2>1. k = [l EXCEPT !.inside = 0, !.moves = <<>>]
    BY <1>4 DEF UpdateActiveGeometry
  <2>2. k \in Lives
    BY <1>1, <2>1 DEF Lives
  <2>3. /\ k.target = l.target /\ k.natural = l.natural /\ k.resolved = l.resolved
        /\ k.plan = l.plan /\ k.moves = <<>>
    BY <2>1 DEF Lives
  <2> QED BY <2>2, <2>3, <1>2 DEF SameTarget
<1>5. CASE ~(l.inside # Never /\ ~inside) /\ ~(l.inside = Never /\ inside) /\ inside /\ size > 0
  <2> DEFINE move == [age |-> 0, size |-> size]
             moves == Append(l.moves, move)
             n == Len(l.moves)
  <2>1. move \in Moves /\ move.age = 0
    BY DEF Moves
  <2> HIDE DEF move
  <2>2. /\ moves \in Seq(Moves) /\ Len(moves) = n + 1 /\ moves[n + 1] = move
        /\ \A i \in 1..n : moves[i] = l.moves[i]
    BY <1>1, <2>1, AppendProperties
  <2>3. k = [l EXCEPT !.moves = moves]
    BY <1>5 DEF UpdateActiveGeometry, move
  <2> HIDE DEF moves
  <2>4. k \in Lives
    BY <2>2, <2>3 DEF Lives
  <2>5. /\ k.target = l.target /\ k.natural = l.natural /\ k.resolved = l.resolved
        /\ k.plan = l.plan /\ k.moves = moves
    BY <2>3 DEF Lives
  <2>6. InOrder(l.moves) => InOrder(moves)
    <3> SUFFICES ASSUME InOrder(l.moves), NEW i \in DOMAIN moves, NEW j \in DOMAIN moves, i < j
                 PROVE  moves[j].age <= moves[i].age
      BY DEF InOrder
    <3>1. /\ n \in Nat /\ DOMAIN l.moves = 1..n /\ DOMAIN moves = 1..(n + 1)
          /\ \A h \in 1..n : l.moves[h].age \in Nat
      <4>1. n \in Nat /\ DOMAIN l.moves = 1..n /\ \A h \in 1..n : l.moves[h] \in Moves
        BY <1>1, SequenceFacts
      <4>2. DOMAIN moves = 1..(n + 1)
        BY <2>2, SequenceFacts
      <4>3. \A h \in 1..n : l.moves[h].age \in Nat
        BY <4>1 DEF Moves
      <4> QED BY <4>1, <4>2, <4>3
    <3>2. i \in 1..n
      BY <3>1
    <3>3. CASE j = n + 1
      BY <2>1, <2>2, <3>1, <3>2, <3>3
    <3>4. CASE j # n + 1
      <4>1. j \in 1..n
        BY <3>1, <3>4
      <4>2. l.moves[j].age <= l.moves[i].age
        BY <3>1, <3>2, <4>1 DEF InOrder
      <4> QED BY <2>2, <3>2, <4>1, <4>2
    <3> QED BY <3>3, <3>4
  <2> QED BY <2>4, <2>5, <2>6 DEF SameTarget
<1>6. CASE ~(l.inside # Never /\ ~inside) /\ ~(l.inside = Never /\ inside) /\ ~(inside /\ size > 0)
  <2>1. k = l
    BY <1>6 DEF UpdateActiveGeometry
  <2> QED BY <2>1 DEF SameTarget
<1> QED BY <1>3, <1>4, <1>5, <1>6

\* What the packet leaves of the live event.
MovedLive(e, size, over) ==
  IF e.state = "event_active" THEN UpdateActiveGeometry(e.live, size, over)
  ELSE IF e.state = "event_tail" /\ size > 0 THEN [e.live EXCEPT !.quiet = 0] ELSE e.live

LEMMA MovedLiveFacts ==
  ASSUME NEW e, RunInv(e), NEW size \in Nat, NEW over \in BOOLEAN,
         NEW l, l = MovedLive(e, size, over)
  PROVE  /\ e.state = "event_active" => SameTarget(e.live, l) /\ Unresolved(l)
         /\ e.state = "event_tail" => SameTarget(e.live, l) /\ Resolved(l)
         /\ e.state \notin {"event_active", "event_tail"} => l = e.live /\ l = NoLive
<1>1. StateInv(e)
  BY DEF RunInv
<1>2. CASE e.state = "event_active"
  <2>1. e.live \in Lives /\ Unresolved(e.live)
    BY <1>1, <1>2 DEF StateInv, Active
  <2>2. SameTarget(e.live, l) /\ (InOrder(e.live.moves) => InOrder(l.moves))
    BY <1>2, <2>1, GeometryFacts DEF MovedLive
  <2> QED BY <1>2, <2>1, <2>2 DEF Unresolved, SameTarget
<1>3. CASE e.state = "event_tail"
  <2>1. e.live \in Lives /\ Resolved(e.live)
    BY <1>1, <1>3 DEF StateInv, Tailing
  <2>2. CASE size > 0
    <3>1. l = [e.live EXCEPT !.quiet = 0]
      BY <1>3, <2>2 DEF MovedLive
    <3>2. l \in Lives
      BY <2>1, <3>1 DEF Lives
    <3>3. /\ l.target = e.live.target /\ l.natural = e.live.natural /\ l.plan = e.live.plan
          /\ l.resolved = e.live.resolved /\ l.streak = e.live.streak /\ l.quiet = 0
      BY <2>1, <3>1 DEF Lives
    <3>4. TailLeft(l) >= 0
      <4>1. /\ e.live.plan.tail.minimum \in Nat /\ e.live.plan.tail.settle \in Nat
            /\ e.live.plan.tail.maximum \in Nat /\ e.live.quiet \in Nat
            /\ e.live.resolved \in Nat /\ TailLeft(e.live) >= 0
        BY <2>1 DEF Lives, Plans, Tails, Resolved
      <4> QED BY <3>3, <4>1 DEF TailLeft, Least, Greatest
    <3> QED BY <1>3, <2>1, <3>2, <3>3, <3>4 DEF SameTarget, Resolved
  <2>3. CASE ~(size > 0)
    BY <1>3, <2>1, <2>3 DEF MovedLive, SameTarget
  <2> QED BY <2>2, <2>3
<1>4. CASE e.state \notin {"event_active", "event_tail"}
  BY <1>4, WhatIsOut DEF MovedLive
<1> QED BY <1>2, <1>3, <1>4

LEMMA MovedKeeps ==
  ASSUME NEW e, RunInv(e), NEW size \in Nat, NEW over \in BOOLEAN, NEW after \in BOOLEAN,
         NEW f, f = WithLive(e, MovedLive(e, size, over), after)
  PROVE  /\ RunInv(f) /\ f.state = e.state /\ f.left = e.left
         /\ f.index = e.index /\ f.events = e.events /\ (Fresh(f) <=> Fresh(e))
         /\ f.focused = e.focused /\ f.reason = e.reason
         /\ e.state = "event_active" => f.live.target = e.live.target
<1> DEFINE l == MovedLive(e, size, over)
<1>1. e \in Engines /\ StateInv(e) /\ Recorded(e) /\ FreshInv(e)
      /\ (e.generator.endPending => e.left = 0) /\ ~e.refused /\ e.state # "idle"
  BY DEF RunInv
<1>2. /\ e.state = "event_active" => SameTarget(e.live, l) /\ Unresolved(l)
      /\ e.state = "event_tail" => SameTarget(e.live, l) /\ Resolved(l)
      /\ e.state \notin {"event_active", "event_tail"} => l = e.live /\ l = NoLive
  BY MovedLiveFacts
<1> HIDE DEF l
<1>3. f = [e EXCEPT !.over = after, !.live = l]
  BY DEF WithLive, l
<1>4. l \in Lives \cup {NoLive}
  BY <1>2 DEF SameTarget
<1>5. f \in Engines
  BY <1>1, <1>3, <1>4 DEF Engines
<1>6. /\ f.state = e.state /\ f.left = e.left
      /\ f.index = e.index /\ f.events = e.events /\ f.live = l
      /\ f.focused = e.focused /\ f.reason = e.reason /\ f.pending = e.pending
      /\ f.generator = e.generator /\ f.results = e.results /\ f.refused = e.refused
  BY <1>1, <1>3 DEF Engines
<1>7. e.live # NoLive <=> l # NoLive
  BY <1>2, WhatIsOut, NoneIsNone DEF SameTarget
<1>8. Recorded(f)
  <2>1. l # NoLive => l.plan = e.live.plan
    BY <1>2 DEF SameTarget
  <2>2. \A i \in DOMAIN e.results : OpenScore(f, i) = OpenScore(e, i)
    BY <1>6, <1>7, <2>1 DEF OpenScore
  <2> QED BY <2>2, <1>1, <1>6, RecordedSame
<1>9. StateInv(f)
  <2>1. \A t : Proper(e, t) => Proper(f, t)
    BY <1>6 DEF Proper, Alternates, ResetHit
  <2>2. f.state # "complete" => InPlan(f)
    BY <1>1, <1>6 DEF StateInv, InPlan
  <2>3. f.state \in Vacant => Between(f)
    BY <1>1, <1>2, <1>6 DEF StateInv, Between, ResetHit, Vacant
  <2>4. f.state = "awaiting_presentation" => Awaiting(f)
    BY <1>1, <1>2, <1>6, <2>1 DEF StateInv, Awaiting
  <2>5. f.state = "event_active" => Active(f)
    BY <1>1, <1>2, <1>6, <2>1 DEF StateInv, Active, SameTarget
  <2>6. f.state = "event_tail" => Tailing(f)
    <3> HAVE f.state = "event_tail"
    <3>1. /\ Tailing(e) /\ Resolved(l) /\ l \in Lives /\ l.target = e.live.target
          /\ l.plan = e.live.plan
      BY <1>1, <1>2, <1>6 DEF StateInv, SameTarget
    <3> QED BY <3>1, <1>6, <2>1 DEF Tailing
  <2>7. f.state = "complete" => Completed(f)
    BY <1>1, <1>2, <1>6 DEF StateInv, Completed
  <2> QED BY <2>2, <2>3, <2>4, <2>5, <2>6, <2>7 DEF StateInv
<1>10. Fresh(f) <=> Fresh(e)
  BY <1>6, <1>7 DEF Fresh
<1>11. FreshInv(f)
  BY <1>1, <1>6, <1>10 DEF FreshInv
<1>12. RunInv(f)
  BY <1>1, <1>5, <1>6, <1>8, <1>9, <1>11 DEF RunInv
<1> QED BY <1>2, <1>6, <1>10, <1>12 DEF SameTarget

LEMMA ClickedKeeps ==
  ASSUME NEW e, RunInv(e), e.state = "event_active", NEW before,
         NEW f, f = Clicked(e, before)
  PROVE  /\ RunInv(f)
         /\ f = e \/ (/\ f.state = "event_tail" /\ f.left = e.left /\ f.index = e.index
                      /\ f.events = e.events /\ f.live # NoLive
                      /\ f.focused = e.focused /\ f.reason = e.reason)
<1>1. Active(e)
  BY DEF RunInv, StateInv
<1>2. e.live.target.dwell \in Nat
  BY <1>1 DEF Active, Lives, Targets
<1>3. CASE e.live.target.dwell > 0
  BY <1>3 DEF Clicked
<1>4. CASE ~(e.live.target.dwell > 0) /\ (before \/ e.over)
  <2>1. f = ResolveNatural(e, "hit_click", "hit")
    BY <1>4 DEF Clicked
  <2>2. MayResolve(e, "hit_click", "hit")
    BY <1>2, <1>4 DEF MayResolve, Naturals0, Resolutions
  <2> QED BY <2>1, <2>2, ResolveKeeps
<1>5. CASE ~(e.live.target.dwell > 0) /\ ~(before \/ e.over)
            /\ e.live.target.behavior.missClickEnds
  <2>1. f = ResolveNatural(e, "miss_click", "miss_click")
    BY <1>5 DEF Clicked
  <2>2. MayResolve(e, "miss_click", "miss_click")
    BY <1>5 DEF MayResolve, Naturals0, Resolutions
  <2> QED BY <2>1, <2>2, ResolveKeeps
<1>6. CASE ~(e.live.target.dwell > 0) /\ ~(before \/ e.over)
            /\ ~e.live.target.behavior.missClickEnds
  BY <1>6 DEF Clicked
<1> QED BY <1>3, <1>4, <1>5, <1>6

LEMMA PacketKeeps ==
  ASSUME NEW e, RunInv(e), NEW size \in Nat, NEW inside \in BOOLEAN, NEW click,
         NEW f, f = SubmitPacket(e, size, inside, click)
  PROVE  /\ RunInv(f) /\ f.index = e.index /\ f.events = e.events
         /\ f.focused = e.focused /\ f.reason = e.reason /\ (Fresh(f) <=> Fresh(e))
         /\ f.state = e.state \/ (e.state = "event_active" /\ f.state = "event_tail")
<1> DEFINE over == IF size = 0 THEN e.over ELSE inside
           after == IF e.state \in {"awaiting_presentation", "event_active"} THEN over ELSE FALSE
           m == WithLive(e, MovedLive(e, size, over), after)
<1>1. e.over \in BOOLEAN
  BY EngineFields DEF RunInv
<1>2. over \in BOOLEAN
  BY <1>1
<1>3. after \in BOOLEAN
  BY <1>2
<1>4. f = IF click /\ e.state = "event_active" THEN Clicked(m, e.over) ELSE m
  BY DEF SubmitPacket, WithLive, MovedLive
<1> HIDE DEF over, after
<1>5. /\ RunInv(m) /\ m.state = e.state /\ m.left = e.left
      /\ m.index = e.index /\ m.events = e.events /\ (Fresh(m) <=> Fresh(e))
      /\ m.focused = e.focused /\ m.reason = e.reason
  BY <1>2, <1>3, MovedKeeps
<1> HIDE DEF m
<1>6. CASE ~(click /\ e.state = "event_active")
  <2>1. f = m
    BY <1>4, <1>6
  <2> QED BY <2>1, <1>5
<1>7. CASE click /\ e.state = "event_active"
  <2>1. f = Clicked(m, e.over)
    BY <1>4, <1>7
  <2>2. /\ RunInv(f)
        /\ f = m \/ (/\ f.state = "event_tail" /\ f.left = m.left /\ f.index = m.index
                     /\ f.events = m.events /\ f.live # NoLive
                     /\ f.focused = m.focused /\ f.reason = m.reason)
    BY <2>1, <1>5, <1>7, ClickedKeeps
  <2>3. f # m => ~Fresh(f) /\ ~Fresh(m)
    <3>1. m.live # NoLive
      BY <1>5, <1>7, WhatIsOut
    <3> QED BY <2>2, <3>1, LiveIsNotFresh
  <2> QED BY <2>2, <2>3, <1>5, <1>7
<1> QED BY <1>6, <1>7

------------------------------------------------------------------------------
(***************************************************************************)
(* Deadlines. Rank says how many transitions a call can still make: every  *)
(* one of them lowers it.                                                  *)
(***************************************************************************)
Timed == {"countdown", "event_active", "event_tail", "inter_target_delay"}

LEMMA NextFacts ==
  ASSUME NEW e, RunInv(e), NEW next, next = NextDeadline(e)
  PROVE  /\ e.state \in Timed => next \in Nat
         /\ e.state \notin Timed => next = Never
         /\ e.state = "countdown" => next = e.countdown
         /\ e.state = "event_tail" => next = TailLeft(e.live)
         /\ e.state = "inter_target_delay" => next = Least(e.delay, e.left)
<1>1. e \in Engines /\ StateInv(e)
  BY DEF RunInv
<1>2. e.countdown \in Nat /\ e.left \in Nat /\ e.delay \in Nat
  BY <1>1, EngineFields, BlockTime
<1>3. CASE e.state = "countdown"
  <2>1. next = e.countdown
    BY <1>3 DEF NextDeadline
  <2> QED BY <2>1, <1>2, <1>3 DEF Timed
<1>4. CASE e.state = "event_active"
  <2>1. next = NotBelowZero(EventDeadline(e))
    BY <1>4 DEF NextDeadline
  <2>2. e.live \in Lives /\ Unresolved(e.live)
    BY <1>1, <1>4 DEF StateInv, Active
  <2>3. Dwelling(e) => NextDwellCompletion(e.live) \in Int
    <3> HAVE Dwelling(e)
    <3>1. DwellingLive(e.live)
      BY <2>2 DEF Dwelling, DwellingLive, Unresolved, Lives
    <3> QED BY <3>1, CompletionFacts
  <2>4. e.live.target.timeout \in Nat /\ e.live.age \in Nat
    BY <2>2 DEF Lives, Targets
  <2>5. EventDeadline(e) \in Int
    <3> DEFINE boundary == Least(e.left, e.live.target.timeout - e.live.age)
    <3>1. boundary \in Int
      BY <1>2, <2>4 DEF Least
    <3>2. EventDeadline(e) = IF Dwelling(e) THEN Least(boundary, NextDwellCompletion(e.live))
                             ELSE boundary
      BY DEF EventDeadline
    <3> HIDE DEF boundary
    <3> QED BY <2>3, <3>1, <3>2 DEF Least
  <2> QED BY <2>1, <2>5, <1>4 DEF NotBelowZero, Timed
<1>5. CASE e.state = "event_tail"
  <2>1. next = NotBelowZero(TailLeft(e.live))
    BY <1>5 DEF NextDeadline
  <2>2. e.live \in Lives /\ Resolved(e.live)
    BY <1>1, <1>5 DEF StateInv, Tailing
  <2>3. TailLeft(e.live) \in Nat
    <3>1. /\ e.live.plan.tail.minimum \in Nat /\ e.live.plan.tail.settle \in Nat
          /\ e.live.plan.tail.maximum \in Nat /\ e.live.quiet \in Nat
          /\ e.live.resolved \in Nat /\ TailLeft(e.live) >= 0
      BY <2>2 DEF Lives, Plans, Tails, Resolved
    <3> QED BY <3>1 DEF TailLeft, Least, Greatest
  <2> QED BY <2>1, <2>3, <1>5 DEF NotBelowZero, Timed
<1>6. CASE e.state = "inter_target_delay"
  <2>1. next = NotBelowZero(Least(e.delay, e.left))
    BY <1>6 DEF NextDeadline
  <2> QED BY <2>1, <1>2, <1>6 DEF NotBelowZero, Least, Timed
<1>7. CASE e.state \notin Timed
  <2>1. next = Never
    BY <1>7 DEF NextDeadline, Timed
  <2> QED BY <2>1, <1>7 DEF Timed
<1> QED BY <1>3, <1>4, <1>5, <1>6, <1>7 DEF Timed

Rank(e) ==
  IF e.state = "event_active" THEN 5
  ELSE IF e.state = "event_tail" THEN 4
  ELSE IF e.state = "inter_target_delay" THEN IF e.delay < e.left THEN 3 ELSE 2
  ELSE IF e.state = "countdown" THEN IF CanSpawnTargetV1(e.left) THEN 1 ELSE 3
  ELSE 0

LEMMA RankFacts ==
  ASSUME NEW e
  PROVE  Rank(e) \in 0..5 /\ (e.state \in Timed => Rank(e) > 0)
BY DEF Rank, Timed

(***************************************************************************)
(* Where the deadlines of a call lead, as TrainerEngine tells it: what the *)
(* events, the block and its freshness are afterwards.                     *)
(***************************************************************************)
Leaves(e) ==
  \/ e.state \in {"event_active", "event_tail", "inter_target_delay"}
  \/ e.state = "countdown" /\ ~Fresh(e)

Kept(e) == Len(e.events) + (IF e.state \in {"event_active", "event_tail"} THEN 1 ELSE 0)

Further(e, f) ==
  /\ Len(f.events) = Kept(e)
  /\ f.state = "awaiting_presentation" => Kept(e) <= MaxEvents
  /\ \/ /\ f.index = e.index /\ (Fresh(f) <=> Fresh(e))
        /\ f.state \in {"inter_target_delay", "awaiting_presentation"}
     \/ /\ f.index = e.index + 1
        /\ f.state \in {"complete", "countdown", "awaiting_presentation"}
        /\ f.state = "complete" => f.index = Len(Plan) /\ (Fresh(f) <=> Fresh(e))
        /\ f.state # "complete" => f.index # Len(Plan) /\ Fresh(f)

Alike(e, f) ==
  f.index = e.index /\ (Fresh(f) <=> Fresh(e)) /\ Len(f.events) = Len(e.events)

Reaches(e, f) ==
  /\ f.focused = e.focused /\ f.reason = e.reason
  /\ \/ Alike(e, f) /\ f.state = e.state
     \/ Alike(e, f) /\ e.state = "event_active" /\ f.state = "event_tail"
     \/ /\ Alike(e, f) /\ e.state = "countdown" /\ f.state = "awaiting_presentation"
        /\ Len(e.events) <= MaxEvents
     \/ Leaves(e) /\ Further(e, f)

LEMMA ReachesOn ==
  ASSUME NEW e, NEW f, NEW g, Reaches(e, f), Reaches(f, g),
         Len(e.events) \in Nat, e.index \in Nat
  PROVE  Reaches(e, g)
<1>1. g.focused = e.focused /\ g.reason = e.reason
  BY DEF Reaches
<1>2. CASE Alike(e, f) /\ f.state = e.state
  <2>1. /\ Kept(f) = Kept(e) /\ (Leaves(f) <=> Leaves(e))
        /\ (Alike(f, g) => Alike(e, g)) /\ (Further(f, g) => Further(e, g))
    BY <1>2 DEF Kept, Leaves, Alike, Further
  <2>2. Len(f.events) = Len(e.events)
    BY <1>2 DEF Alike
  <2> QED BY <1>1, <1>2, <2>1, <2>2 DEF Reaches
<1>3. CASE Alike(e, f) /\ e.state = "event_active" /\ f.state = "event_tail"
  <2>1. Kept(f) = Kept(e) /\ Leaves(f) /\ Leaves(e)
        /\ (Alike(f, g) => Alike(e, g)) /\ (Further(f, g) => Further(e, g))
    BY <1>3 DEF Kept, Leaves, Alike, Further
  <2>2. (Alike(f, g) /\ g.state = "event_tail") \/ Further(f, g)
    BY <1>3 DEF Reaches
  <2> QED BY <1>1, <1>3, <2>1, <2>2 DEF Reaches
<1>4. CASE /\ Alike(e, f) /\ e.state = "countdown" /\ f.state = "awaiting_presentation"
           /\ Len(e.events) <= MaxEvents
  <2>1. Alike(f, g) /\ g.state = "awaiting_presentation"
    BY <1>4 DEF Reaches, Leaves
  <2>2. Alike(e, g)
    BY <1>4, <2>1 DEF Alike
  <2> QED BY <1>1, <1>4, <2>1, <2>2 DEF Reaches
<1>5. CASE Leaves(e) /\ Further(e, f)
  <2>1. Alike(f, g) /\ g.state = f.state => Further(e, g)
    BY <1>5 DEF Further, Alike
  <2>b. Len(f.events) = Kept(e)
    BY <1>5 DEF Further
  <2>c. Kept(e) \in Nat
    <3>1. CASE e.state \in {"event_active", "event_tail"}
      <4>1. Kept(e) = Len(e.events) + 1
        BY <3>1 DEF Kept
      <4> QED BY <4>1
    <3>2. CASE e.state \notin {"event_active", "event_tail"}
      <4>1. Kept(e) = Len(e.events) + 0
        BY <3>2 DEF Kept
      <4> QED BY <4>1
    <3> QED BY <3>1, <3>2
  <2>3. Len(f.events) = Kept(e) /\ Kept(e) \in Nat
    BY <2>b, <2>c
  <2>a. f.state \notin {"event_active", "event_tail"}
    BY <1>5 DEF Further
  <2>2. f.state \notin {"event_active", "event_tail"} /\ Kept(f) = Len(f.events)
    BY <2>a, <2>3 DEF Kept
  <2>4. f.state = "countdown" /\ Alike(f, g) /\ g.state = "awaiting_presentation"
          /\ Len(f.events) <= MaxEvents => Further(e, g)
    BY <1>5, <2>3 DEF Further, Alike
  <2>5. Leaves(f) => f.state = "inter_target_delay"
    BY <1>5, <2>2 DEF Leaves, Further
  <2>6. f.state = "inter_target_delay" => f.index = e.index /\ (Fresh(f) <=> Fresh(e))
    BY <1>5 DEF Further
  <2>7. f.state = "inter_target_delay" /\ Further(f, g) => Further(e, g)
    BY <2>2, <2>3, <2>6 DEF Further
  <2>8. \/ Alike(f, g) /\ g.state = f.state
        \/ f.state = "countdown" /\ Alike(f, g) /\ g.state = "awaiting_presentation"
             /\ Len(f.events) <= MaxEvents
        \/ Leaves(f) /\ Further(f, g)
    BY <2>2 DEF Reaches
  <2>9. Further(e, g)
    BY <2>1, <2>4, <2>5, <2>7, <2>8
  <2> QED BY <1>1, <1>5, <2>9 DEF Reaches
<1> QED BY <1>2, <1>3, <1>4, <1>5 DEF Reaches

------------------------------------------------------------------------------
(***************************************************************************)
(* One deadline, by the state whose deadline it is.                        *)
(***************************************************************************)
\* An engine moved to its next deadline.
AtDeadline(e, g) ==
  /\ RunInv(g) /\ (Fresh(g) <=> Fresh(e)) /\ g.state = e.state
  /\ g.index = e.index /\ g.events = e.events /\ g.focused = e.focused
  /\ g.reason = e.reason
  /\ e.index \in Nat /\ Len(e.events) \in Nat

LEMMA DeadlineIsReached ==
  ASSUME NEW e, RunInv(e), e.state \in Timed, NEW g, g = MoveClockTo(e, NextDeadline(e))
  PROVE  /\ AtDeadline(e, g) /\ NextDeadline(e) \in Nat
         /\ g.left = IF Consumes(e) THEN NotBelowZero(e.left - NextDeadline(e)) ELSE e.left
         /\ g.live = Older(e.live, NextDeadline(e))
<1> DEFINE next == NextDeadline(e)
<1>1. next \in Nat /\ (e.state = "event_tail" => next <= TailLeft(e.live))
  BY NextFacts
<1>2. e \in Engines
  BY DEF RunInv
<1> HIDE DEF next
<1>3. g = MoveClockTo(e, next)
  BY DEF next
<1>4. RunInv(g) /\ (Fresh(g) <=> Fresh(e))
  BY <1>1, <1>3, MoveClockKeeps
<1>5. /\ g.state = e.state /\ g.index = e.index /\ g.events = e.events
      /\ g.focused = e.focused /\ g.reason = e.reason /\ g.live = Older(e.live, next)
      /\ g.left = IF Consumes(e) THEN NotBelowZero(e.left - next) ELSE e.left
  BY <1>1, <1>2, <1>3, MovedShape
<1>6. e.index \in Nat /\ Len(e.events) \in Nat
  <2>1. e.index \in 0..Len(Plan) /\ e.events \in Seq(Events) /\ Len(Plan) \in Nat
    BY <1>2, EngineFields, PlanFacts
  <2> QED BY <2>1, SequenceFacts
<1>7. AtDeadline(e, g)
  BY <1>4, <1>5, <1>6 DEF AtDeadline
<1> QED BY <1>1, <1>5, <1>7 DEF next

LEMMA ActiveEnds ==
  ASSUME NEW e, RunInv(e), e.state = "event_active",
         NEW f \in ProcessDeadline(MoveClockTo(e, NextDeadline(e)))
  PROVE  RunInv(f) /\ f.state = "event_tail" /\ Reaches(e, f)
<1> DEFINE g == MoveClockTo(e, NextDeadline(e))
<1>1. AtDeadline(e, g)
  BY DeadlineIsReached DEF Timed
<1>2. ~Fresh(e)
  BY WhatIsOut, LiveIsNotFresh
<1> HIDE DEF g
<1>3. RunInv(g) /\ g.state = "event_active"
  BY <1>1 DEF AtDeadline
<1>4. ProcessDeadline(g) =
        {IF Dwelling(g) /\ NextDwellCompletion(g.live) <= 0
           THEN ResolveNatural(g, "hit_dwell", "dwell_hit")
         ELSE IF g.left = 0
           THEN ResolveNatural(g, "challenge_end_timeout", "challenge_end_timeout")
         ELSE ResolveNatural(g, "timeout", "timeout")}
  BY <1>3 DEF ProcessDeadline
<1>5. f \in ProcessDeadline(g)
  BY DEF g
<1>6. PICK outcome, resolution :
        MayResolve(g, outcome, resolution) /\ f = ResolveNatural(g, outcome, resolution)
  <2>1. CASE Dwelling(g) /\ NextDwellCompletion(g.live) <= 0
    <3>1. f = ResolveNatural(g, "hit_dwell", "dwell_hit")
      BY <1>4, <1>5, <2>1
    <3>2. MayResolve(g, "hit_dwell", "dwell_hit")
      BY <2>1 DEF MayResolve, Dwelling, Naturals0, Resolutions
    <3> QED BY <3>1, <3>2
  <2>2. CASE ~(Dwelling(g) /\ NextDwellCompletion(g.live) <= 0) /\ g.left = 0
    <3>1. f = ResolveNatural(g, "challenge_end_timeout", "challenge_end_timeout")
      BY <1>4, <1>5, <2>2
    <3>2. MayResolve(g, "challenge_end_timeout", "challenge_end_timeout")
      BY <2>2 DEF MayResolve, Naturals0, Resolutions
    <3> QED BY <3>1, <3>2
  <2>3. CASE ~(Dwelling(g) /\ NextDwellCompletion(g.live) <= 0) /\ g.left # 0
    <3>1. f = ResolveNatural(g, "timeout", "timeout")
      BY <1>4, <1>5, <2>3
    <3>2. MayResolve(g, "timeout", "timeout")
      BY DEF MayResolve, Naturals0, Resolutions
    <3> QED BY <3>1, <3>2
  <2> QED BY <2>1, <2>2, <2>3
<1>7. /\ RunInv(f) /\ f.state = "event_tail" /\ f.index = g.index /\ f.events = g.events
      /\ f.live # NoLive /\ f.focused = g.focused /\ f.reason = g.reason
  BY <1>3, <1>6, ResolveKeeps
<1>8. ~Fresh(f)
  BY <1>7, LiveIsNotFresh
<1>9. Alike(e, f)
  BY <1>1, <1>2, <1>7, <1>8 DEF AtDeadline, Alike
<1>10. Reaches(e, f)
  BY <1>1, <1>7, <1>9 DEF AtDeadline, Reaches
<1> QED BY <1>7, <1>10

LEMMA TailEnds ==
  ASSUME NEW e, RunInv(e), e.state = "event_tail",
         NEW f \in ProcessDeadline(MoveClockTo(e, NextDeadline(e)))
  PROVE  RunInv(f) /\ f.state \notin {"event_active", "event_tail"} /\ Reaches(e, f)
<1> DEFINE next == NextDeadline(e)
           g == MoveClockTo(e, next)
<1>1. AtDeadline(e, g) /\ g.live = Older(e.live, next) /\ next = TailLeft(e.live)
      /\ next \in Nat
  BY DeadlineIsReached, NextFacts DEF Timed
<1>2. ~Fresh(e)
  BY WhatIsOut, LiveIsNotFresh
<1>3. e.live \in Lives /\ Resolved(e.live)
  BY DEF RunInv, StateInv, Tailing
<1> HIDE DEF g, next
<1>4. TailLeft(g.live) = 0
  <2> DEFINE l == e.live
             o == Older(l, next)
  <2>1. o.plan = l.plan /\ o.resolved = Aged(l.resolved, next) /\ o.quiet = l.quiet + next
    BY <1>1, <1>3, OlderFacts
  <2>2. /\ l.plan.tail.minimum \in Nat /\ l.plan.tail.settle \in Nat
        /\ l.plan.tail.maximum \in Nat /\ l.quiet \in Nat /\ l.resolved \in Nat
    BY <1>3 DEF Lives, Plans, Tails, Resolved
  <2>3. o.resolved = l.resolved + next
    BY <2>1, <2>2 DEF Aged, Never
  <2>4. TailLeft(l) = Least(Greatest(l.plan.tail.minimum - l.resolved,
                                     l.plan.tail.settle - l.quiet),
                            l.plan.tail.maximum - l.resolved)
    BY DEF TailLeft
  <2>5. TailLeft(o) = Least(Greatest(l.plan.tail.minimum - (l.resolved + next),
                                     l.plan.tail.settle - (l.quiet + next)),
                            l.plan.tail.maximum - (l.resolved + next))
    BY <2>1, <2>3 DEF TailLeft
  <2>6. next = TailLeft(l)
    BY <1>1
  <2> HIDE DEF l, o
  <2>7. TailLeft(o) = 0
    BY <1>1, <2>2, <2>4, <2>5, <2>6 DEF Least, Greatest
  <2> QED BY <1>1, <2>7 DEF l, o
<1>5. RunInv(g) /\ g.state = "event_tail"
  BY <1>1 DEF AtDeadline
<1>6. f = FinalizeNaturalTail(g)
  <2>1. ProcessDeadline(g) = {FinalizeNaturalTail(g)}
    BY <1>5 DEF ProcessDeadline
  <2> QED BY <2>1 DEF g, next
<1>7. /\ RunInv(f) /\ Len(f.events) = Len(g.events) + 1
      /\ f.focused = g.focused /\ f.reason = g.reason
      /\ \/ f.state = "inter_target_delay" /\ f.index = g.index /\ ~Fresh(f)
         \/ /\ f.state = "complete" \/ f.state = "countdown"
            /\ f.state = "complete" <=> f.index = Len(Plan)
            /\ f.state = "complete" => ~Fresh(f)
            /\ f.state = "countdown" => Fresh(f)
            /\ f.index = g.index + 1
  BY <1>4, <1>5, <1>6, TailKeeps
<1>8. Kept(e) = Len(e.events) + 1 /\ Leaves(e)
  BY DEF Kept, Leaves
<1>9. Len(f.events) = Kept(e) /\ f.state # "awaiting_presentation"
  BY <1>1, <1>7, <1>8 DEF AtDeadline
<1>10. Further(e, f)
  BY <1>1, <1>2, <1>7, <1>9 DEF AtDeadline, Further
<1>11. Reaches(e, f)
  BY <1>1, <1>7, <1>8, <1>10 DEF AtDeadline, Reaches
<1> QED BY <1>7, <1>11

\* The end of a block and the wait for it, from a trainer between two targets.
LEMMA BlockEndReached ==
  ASSUME NEW e, NEW g, AtDeadline(e, g), g.state \in {"countdown", "inter_target_delay"},
         g.left = 0, Leaves(e), NEW f, f = CompleteBlock(g)
  PROVE  RunInv(f) /\ Rank(f) <= 1 /\ Reaches(e, f)
<1>1. RunInv(g) /\ Between(g) /\ InPlan(g)
  BY DEF AtDeadline, RunInv, StateInv, Vacant
<1>2. Ends(g)
  BY <1>1 DEF RunInv, Ends, Between
<1>3. /\ RunInv(f)
      /\ f.state = "complete" \/ (f.state = "countdown" /\ f.left = BlockMs)
      /\ f.state = "complete" <=> f.index = Len(Plan)
      /\ f.state = "complete" => (Fresh(f) <=> Fresh(g))
      /\ f.state = "countdown" => Fresh(f)
      /\ f.index = g.index + 1 /\ f.events = g.events
      /\ f.focused = g.focused /\ f.reason = g.reason
  BY <1>2, BlockEnds
<1>4. Kept(e) = Len(e.events) + 0
  <2>1. e.state \notin {"event_active", "event_tail"}
    BY DEF AtDeadline
  <2> QED BY <2>1 DEF Kept
<1>5. Len(f.events) = Kept(e)
  BY <1>3, <1>4 DEF AtDeadline
<1>6. Further(e, f)
  BY <1>3, <1>5 DEF AtDeadline, Further
<1>7. Reaches(e, f)
  BY <1>3, <1>6 DEF AtDeadline, Reaches
<1>8. Rank(f) <= 1
  <2>1. f.state = "countdown" => CanSpawnTargetV1(f.left)
    BY <1>3, BlockTime DEF CanSpawnTargetV1, MinimumUsefulSpawn
  <2> QED BY <1>3, <2>1 DEF Rank
<1> QED BY <1>3, <1>7, <1>8

LEMMA WaitReached ==
  ASSUME NEW e, NEW g, AtDeadline(e, g), g.state \in {"countdown", "inter_target_delay"},
         ~CanSpawnTargetV1(g.left), Leaves(e), NEW f, f = WaitForBlockEnd(g)
  PROVE  RunInv(f) /\ Rank(f) = 2 /\ Reaches(e, f)
<1>1. RunInv(g)
  BY DEF AtDeadline
<1>2. /\ RunInv(f) /\ f.state = "inter_target_delay" /\ f.delay = g.left /\ f.left = g.left
      /\ f.index = g.index /\ f.events = g.events
      /\ f.focused = g.focused /\ f.reason = g.reason /\ ~Fresh(f) /\ ~Fresh(g)
  BY <1>1, WaitKeeps
<1>3. Kept(e) = Len(e.events) + 0
  <2>1. e.state \notin {"event_active", "event_tail"}
    BY DEF AtDeadline
  <2> QED BY <2>1 DEF Kept
<1>4. Len(f.events) = Kept(e)
  BY <1>2, <1>3 DEF AtDeadline
<1>5. Further(e, f)
  BY <1>2, <1>4 DEF AtDeadline, Further
<1>6. Reaches(e, f)
  BY <1>2, <1>5 DEF AtDeadline, Reaches
<1>7. Rank(f) = 2
  <2>1. g.left \in 0..BlockMs
    BY <1>1, EngineFields DEF RunInv
  <2>2. ~(f.delay < f.left)
    BY <1>2, <2>1, BlockTime
  <2> QED BY <1>2, <2>2 DEF Rank
<1> QED BY <1>2, <1>6, <1>7

LEMMA TargetReached ==
  ASSUME NEW e, NEW g, AtDeadline(e, g), g.state \in {"countdown", "inter_target_delay"},
         CanSpawnTargetV1(g.left), g.state = "inter_target_delay" => Leaves(e),
         NEW f \in PrepareTarget(g)
  PROVE  RunInv(f) /\ Rank(f) = 0 /\ Reaches(e, f)
<1>1. RunInv(g)
  BY DEF AtDeadline
<1>2. /\ RunInv(f) /\ f.state = "awaiting_presentation"
      /\ f.index = g.index /\ f.events = g.events
      /\ f.focused = g.focused /\ f.reason = g.reason /\ Len(g.events) <= MaxEvents
      /\ (Fresh(f) <=> Fresh(g))
  BY <1>1, PrepareKeeps
<1>3. Rank(f) = 0
  BY <1>2 DEF Rank
<1>4. CASE g.state = "countdown"
  <2>1. Alike(e, f)
    BY <1>2 DEF AtDeadline, Alike
  <2> QED BY <1>2, <1>3, <1>4, <2>1 DEF AtDeadline, Reaches
<1>5. CASE g.state = "inter_target_delay"
  <2>1. Kept(e) = Len(e.events) + 0
    BY <1>5 DEF Kept, AtDeadline
  <2>2. Len(f.events) = Kept(e) /\ Kept(e) <= MaxEvents
    BY <1>2, <2>1 DEF AtDeadline
  <2>3. Further(e, f)
    BY <1>2, <2>2 DEF AtDeadline, Further
  <2> QED BY <1>2, <1>3, <1>5, <2>3 DEF AtDeadline, Reaches
<1> QED BY <1>4, <1>5

LEMMA CountdownEnds ==
  ASSUME NEW e, RunInv(e), e.state = "countdown",
         NEW f \in ProcessDeadline(MoveClockTo(e, NextDeadline(e)))
  PROVE  RunInv(f) /\ Rank(f) < Rank(e) /\ Reaches(e, f)
<1> DEFINE g == MoveClockTo(e, NextDeadline(e))
<1>1. AtDeadline(e, g) /\ g.left = e.left
  BY DeadlineIsReached DEF Timed, Consumes
<1>2. f \in ProcessDeadline(g)
  OBVIOUS
<1> HIDE DEF g
<1>3. g.state = "countdown"
  BY <1>1 DEF AtDeadline
<1>4. f \in FinishCountdown(g)
  BY <1>2, <1>3 DEF ProcessDeadline
<1>5. CASE CanSpawnTargetV1(g.left)
  <2>1. f \in PrepareTarget(g)
    BY <1>4, <1>5 DEF FinishCountdown
  <2>2. RunInv(f) /\ Rank(f) = 0 /\ Reaches(e, f)
    BY <1>1, <1>3, <1>5, <2>1, TargetReached
  <2>3. Rank(e) = 1
    BY <1>1, <1>5 DEF Rank
  <2> QED BY <2>2, <2>3
<1>6. CASE ~CanSpawnTargetV1(g.left)
  <2>1. Rank(e) = 3
    BY <1>1, <1>6 DEF Rank
  <2>2. Leaves(e)
    <3>1. ~Fresh(e)
      <4>1. e.left # BlockMs
        BY <1>1, <1>6, BlockTime DEF CanSpawnTargetV1, MinimumUsefulSpawn
      <4> QED BY <4>1 DEF RunInv, FreshInv
    <3> QED BY <3>1 DEF Leaves
  <2>3. CASE g.left = 0
    <3>1. f = CompleteBlock(g)
      BY <1>4, <1>6, <2>3 DEF FinishCountdown
    <3>2. RunInv(f) /\ Rank(f) <= 1 /\ Reaches(e, f)
      BY <1>1, <1>3, <2>2, <2>3, <3>1, BlockEndReached
    <3>3. Rank(f) \in 0..5
      BY RankFacts
    <3> QED BY <2>1, <3>2, <3>3
  <2>4. CASE g.left # 0
    <3>1. f = WaitForBlockEnd(g)
      BY <1>4, <1>6, <2>4 DEF FinishCountdown
    <3>2. RunInv(f) /\ Rank(f) = 2 /\ Reaches(e, f)
      BY <1>1, <1>3, <1>6, <2>2, <3>1, WaitReached
    <3> QED BY <2>1, <3>2
  <2> QED BY <2>3, <2>4
<1> QED BY <1>5, <1>6

LEMMA DelayEnds ==
  ASSUME NEW e, RunInv(e), e.state = "inter_target_delay",
         NEW f \in ProcessDeadline(MoveClockTo(e, NextDeadline(e)))
  PROVE  RunInv(f) /\ Rank(f) < Rank(e) /\ Reaches(e, f)
<1> DEFINE g == MoveClockTo(e, NextDeadline(e))
<1>1. AtDeadline(e, g) /\ NextDeadline(e) = Least(e.delay, e.left)
      /\ g.left = NotBelowZero(e.left - NextDeadline(e))
  BY DeadlineIsReached, NextFacts DEF Timed, Consumes
<1>2. f \in ProcessDeadline(g)
  OBVIOUS
<1> HIDE DEF g
<1>3. g.state = "inter_target_delay" /\ Leaves(e)
  BY <1>1 DEF AtDeadline, Leaves
<1>4. f \in IF g.left = 0 THEN {CompleteBlock(g)}
            ELSE IF CanSpawnTargetV1(g.left) THEN PrepareTarget(g) ELSE {WaitForBlockEnd(g)}
  <2>1. ProcessDeadline(g) =
          IF g.left = 0 THEN {CompleteBlock(g)}
          ELSE IF CanSpawnTargetV1(g.left) THEN PrepareTarget(g) ELSE {WaitForBlockEnd(g)}
    BY <1>3 DEF ProcessDeadline
  <2> QED BY <1>2, <2>1
<1>5. e.delay \in Nat /\ e.left \in Nat
  <2>1. e.delay \in Nat /\ e.left \in 0..BlockMs
    BY EngineFields DEF RunInv
  <2> QED BY <2>1, BlockTime
<1>6. Rank(e) = IF e.delay < e.left THEN 3 ELSE 2
  BY DEF Rank
<1>7. CASE g.left = 0
  <2>1. f = CompleteBlock(g)
    BY <1>4, <1>7
  <2>2. RunInv(f) /\ Rank(f) <= 1 /\ Reaches(e, f)
    BY <1>1, <1>3, <1>7, <2>1, BlockEndReached
  <2>3. Rank(f) \in 0..5
    BY RankFacts
  <2> QED BY <1>6, <2>2, <2>3
<1>8. CASE g.left # 0 /\ CanSpawnTargetV1(g.left)
  <2>1. f \in PrepareTarget(g)
    BY <1>4, <1>8
  <2>2. RunInv(f) /\ Rank(f) = 0 /\ Reaches(e, f)
    BY <1>1, <1>3, <1>8, <2>1, TargetReached
  <2> QED BY <1>6, <2>2
<1>9. CASE g.left # 0 /\ ~CanSpawnTargetV1(g.left)
  <2>1. f = WaitForBlockEnd(g)
    BY <1>4, <1>9
  <2>2. RunInv(f) /\ Rank(f) = 2 /\ Reaches(e, f)
    BY <1>1, <1>3, <1>9, <2>1, WaitReached
  <2>3. e.delay < e.left
    BY <1>1, <1>5, <1>9 DEF Least, NotBelowZero
  <2> QED BY <1>6, <2>2, <2>3
<1> QED BY <1>7, <1>8, <1>9

LEMMA DeadlineKeeps ==
  ASSUME NEW e, RunInv(e), e.state \in Timed,
         NEW f \in ProcessDeadline(MoveClockTo(e, NextDeadline(e)))
  PROVE  RunInv(f) /\ Rank(f) < Rank(e) /\ Reaches(e, f)
<1>1. CASE e.state = "event_active"
  <2>1. RunInv(f) /\ f.state = "event_tail" /\ Reaches(e, f)
    BY <1>1, ActiveEnds
  <2>2. Rank(f) = 4 /\ Rank(e) = 5
    BY <1>1, <2>1 DEF Rank
  <2> QED BY <2>1, <2>2
<1>2. CASE e.state = "event_tail"
  <2>1. RunInv(f) /\ f.state \notin {"event_active", "event_tail"} /\ Reaches(e, f)
    BY <1>2, TailEnds
  <2>2. Rank(f) < 4 /\ Rank(e) = 4
    BY <1>2, <2>1 DEF Rank
  <2> QED BY <2>1, <2>2
<1>3. CASE e.state \in {"countdown", "inter_target_delay"}
  BY <1>3, CountdownEnds, DelayEnds
<1> QED BY <1>1, <1>2, <1>3 DEF Timed

------------------------------------------------------------------------------
(***************************************************************************)
(* A call. After r transitions a deadline is due only if the rank is no    *)
(* more than 5 - r, so after five none is.                                 *)
(***************************************************************************)
Sound(e, r, c) ==
  /\ RunInv(c.engine) /\ c.time \in Nat /\ Reaches(e, c.engine)
  /\ Due(c) => Rank(c.engine) <= r

LEMMA DueFacts ==
  ASSUME NEW c, RunInv(c.engine), Due(c)
  PROVE  /\ c.engine.state \in Timed /\ NextDeadline(c.engine) \in Nat
         /\ NextDeadline(c.engine) <= c.time
<1>1. NextDeadline(c.engine) # Never /\ NextDeadline(c.engine) <= c.time
  BY DEF Due
<1>2. c.engine.state \in Timed
  BY <1>1, NextFacts
<1> QED BY <1>1, <1>2, NextFacts

LEMMA TransitionKeeps ==
  ASSUME NEW e, Len(e.events) \in Nat, e.index \in Nat, NEW r \in Nat,
         NEW calls, \A c \in calls : Sound(e, r + 1, c)
  PROVE  \A c \in Transitions(calls) : Sound(e, r, c)
<1> SUFFICES ASSUME NEW k \in Transitions(calls)
             PROVE  Sound(e, r, k)
  OBVIOUS
<1>1. PICK c \in calls : k \in Transition(c)
  BY DEF Transitions
<1>2. Sound(e, r + 1, c)
  BY <1>1
<1>3. CASE Due(c)
  <2> DEFINE next == NextDeadline(c.engine)
  <2>1. c.engine.state \in Timed /\ next \in Nat /\ next <= c.time
    BY <1>2, <1>3, DueFacts DEF Sound
  <2>2. PICK f \in ProcessDeadline(MoveClockTo(c.engine, next)) : k = Call(f, c.time - next)
    BY <1>1, <1>3 DEF Transition
  <2>3. RunInv(f) /\ Rank(f) < Rank(c.engine) /\ Reaches(c.engine, f)
    BY <1>2, <2>1, <2>2, DeadlineKeeps DEF Sound
  <2> HIDE DEF next
  <2>4. k.engine = f /\ k.time = c.time - next
    BY <2>2 DEF Call
  <2>5. k.time \in Nat
    BY <1>2, <2>1, <2>4 DEF Sound
  <2>6. Rank(f) <= r
    <3>1. Rank(c.engine) <= r + 1
      BY <1>2, <1>3 DEF Sound
    <3>2. Rank(c.engine) \in 0..5 /\ Rank(f) \in 0..5
      BY RankFacts
    <3> QED BY <2>3, <3>1, <3>2
  <2>7. Reaches(e, f)
    BY <1>2, <2>3, ReachesOn DEF Sound
  <2> QED BY <2>3, <2>4, <2>5, <2>6, <2>7 DEF Sound
<1>4. CASE ~Due(c)
  <2>1. k = c
    BY <1>1, <1>4 DEF Transition
  <2> QED BY <1>2, <1>4, <2>1 DEF Sound
<1> QED BY <1>3, <1>4

\* No call finds more than five deadlines due, none is refused, and the trainer is
\* in order after it.
LEMMA AdvanceKeeps ==
  ASSUME NEW e, RunInv(e), NEW d \in Nat, NEW f \in AdvanceTo(e, d)
  PROVE  RunInv(f) /\ Reaches(e, f)
<1>1. Len(e.events) \in Nat /\ e.index \in Nat
  <2>1. e.index \in 0..Len(Plan) /\ e.events \in Seq(Events) /\ Len(Plan) \in Nat
    BY EngineFields, PlanFacts DEF RunInv
  <2> QED BY <2>1, SequenceFacts
<1> DEFINE c0 == {Call(e, d)}
           c1 == Transitions(c0)
           c2 == Transitions(c1)
           c3 == Transitions(c2)
           c4 == Transitions(c3)
           c5 == Transitions(c4)
<1>2. f \in {IF Due(c) THEN Refuse(c.engine) ELSE MoveClockTo(c.engine, c.time) : c \in c5}
  BY DEF AdvanceTo
<1> HIDE DEF c1, c2, c3, c4, c5
<1>3. \A c \in c0 : Sound(e, 5, c)
  <2> DEFINE c == Call(e, d)
  <2>1. c.engine = e /\ c.time = d
    BY DEF Call
  <2>2. Reaches(e, e)
    BY DEF Reaches, Alike
  <2>3. Rank(e) <= 5
    BY RankFacts
  <2> HIDE DEF c
  <2>4. Sound(e, 5, c)
    BY <2>1, <2>2, <2>3 DEF Sound
  <2> QED BY <2>4 DEF c
<1> HIDE DEF c0
<1>4. \A c \in c1 : Sound(e, 4, c)
  <2>1. \A c \in c0 : Sound(e, 4 + 1, c)
    BY <1>3
  <2>2. \A c \in Transitions(c0) : Sound(e, 4, c)
    BY <1>1, <2>1, TransitionKeeps
  <2> QED BY <2>2 DEF c1
<1>5. \A c \in c2 : Sound(e, 3, c)
  <2>1. \A c \in c1 : Sound(e, 3 + 1, c)
    BY <1>4
  <2>2. \A c \in Transitions(c1) : Sound(e, 3, c)
    BY <1>1, <2>1, TransitionKeeps
  <2> QED BY <2>2 DEF c2
<1>6. \A c \in c3 : Sound(e, 2, c)
  <2>1. \A c \in c2 : Sound(e, 2 + 1, c)
    BY <1>5
  <2>2. \A c \in Transitions(c2) : Sound(e, 2, c)
    BY <1>1, <2>1, TransitionKeeps
  <2> QED BY <2>2 DEF c3
<1>7. \A c \in c4 : Sound(e, 1, c)
  <2>1. \A c \in c3 : Sound(e, 1 + 1, c)
    BY <1>6
  <2>2. \A c \in Transitions(c3) : Sound(e, 1, c)
    BY <1>1, <2>1, TransitionKeeps
  <2> QED BY <2>2 DEF c4
<1>8. \A c \in c5 : Sound(e, 0, c)
  <2>1. \A c \in c4 : Sound(e, 0 + 1, c)
    BY <1>7
  <2>2. \A c \in Transitions(c4) : Sound(e, 0, c)
    BY <1>1, <2>1, TransitionKeeps
  <2> QED BY <2>2 DEF c5
<1>9. PICK c \in c5 : f = IF Due(c) THEN Refuse(c.engine) ELSE MoveClockTo(c.engine, c.time)
  BY <1>2
<1>10. Sound(e, 0, c)
  BY <1>8, <1>9
<1> DEFINE k == c.engine
<1>11. RunInv(k) /\ c.time \in Nat /\ Reaches(e, k)
  BY <1>10 DEF Sound
<1>12. ~Due(c)
  <2> SUFFICES ASSUME Due(c) PROVE FALSE
    OBVIOUS
  <2>1. k.state \in Timed
    BY <1>11, DueFacts
  <2>2. Rank(k) <= 0
    BY <1>10 DEF Sound
  <2> QED BY <2>1, <2>2, RankFacts
<1>13. f = MoveClockTo(k, c.time)
  BY <1>9, <1>12
<1>14. k.state = "event_tail" => c.time <= TailLeft(k.live)
  <2> HAVE k.state = "event_tail"
  <2>1. NextDeadline(k) = TailLeft(k.live) /\ NextDeadline(k) \in Nat
    BY <1>11, NextFacts DEF Timed
  <2>2. ~k.refused
    BY <1>11 DEF RunInv
  <2>3. NextDeadline(k) # Never
    BY <2>1 DEF Never
  <2>4. ~(NextDeadline(k) <= c.time)
    BY <1>12, <2>2, <2>3 DEF Due
  <2> QED BY <1>11, <2>1, <2>4
<1> HIDE DEF k
<1>15. RunInv(f) /\ (Fresh(f) <=> Fresh(k))
  BY <1>11, <1>13, <1>14, MoveClockKeeps
<1>16. /\ f.state = k.state /\ f.reason = k.reason /\ f.focused = k.focused
       /\ f.index = k.index /\ f.events = k.events
  BY <1>11, <1>13, MovedShape DEF RunInv
<1>17. Reaches(k, f)
  BY <1>15, <1>16 DEF Reaches, Alike
<1> QED BY <1>1, <1>11, <1>15, <1>17, ReachesOn
------------------------------------------------------------------------------
(***************************************************************************)
(* The calls of the owner.                                                 *)
(***************************************************************************)
LEMMA StartKeeps ==
  ASSUME NEW f, f = StartBlockCountdown(NewEngine)
  PROVE  /\ RunInv(f) /\ f.state = "countdown" /\ Fresh(f) /\ f.index = 0
         /\ f.events = <<>> /\ f.focused = TRUE /\ f.reason = "none"
<1> DEFINE e == NewEngine
<1>1. /\ e.state = "idle" /\ e.reason = "none" /\ e.focused = TRUE /\ e.countdown = 0
      /\ e.left = 0 /\ e.delay = 0 /\ e.index = 0 /\ e.over = FALSE
      /\ e.pending = NoTarget /\ e.live = NoLive /\ e.generator = NewGenerator
      /\ e.events = <<>> /\ e.results = <<>> /\ e.refused = FALSE
  BY DEF NewEngine
<1>2. /\ NewGenerator \in Generators /\ ~NewGenerator.blockActive
      /\ ~NewGenerator.targetActive /\ NewGenerator.expected = 0
  BY DEF NewGenerator, Generators
<1>3. /\ <<>> \in Seq(Events) /\ <<>> \in Seq(Results)
  BY EmptySeq
<1>4. 0 \in 0..BlockMs /\ 0 \in 0..Len(Plan) /\ 0 < Len(Plan) /\ Plan[1] \in Nat
  BY BlockTime, PlanFacts
<1>5. e \in Engines
  <2>1. e = [state |-> "idle", reason |-> "none", focused |-> TRUE, countdown |-> 0,
             left |-> 0, delay |-> 0, index |-> 0, over |-> FALSE, pending |-> NoTarget,
             live |-> NoLive, generator |-> NewGenerator, events |-> <<>>,
             results |-> <<>>, refused |-> FALSE]
    BY DEF NewEngine
  <2>2. "idle" \in States
    BY DEF States
  <2> HIDE DEF e, States
  <2> QED BY <1>2, <1>3, <1>4, <2>1, <2>2 DEF Engines
<1> HIDE DEF e
<1>6. Recorded(e)
  <2>1. DOMAIN e.events = {} /\ DOMAIN e.results = {} /\ Len(e.results) = 0
    BY <1>1
  <2> QED BY <2>1, PlanFacts DEF Recorded, EventsInv
<1>7. Begins(e)
  <2>1. Len(e.results) = 0
    BY <1>1
  <2> QED BY <1>1, <1>2, <1>4, <1>5, <1>6, <2>1 DEF Begins
<1>8. f = StartBlockCountdown(e)
  BY DEF e
<1> QED BY <1>1, <1>7, <1>8, BlockBegins

LEMMA PresentationKeeps ==
  ASSUME NEW e, RunInv(e), NEW d \in Nat, NEW f \in AcknowledgeTargetPresented(e, d)
  PROVE  RunInv(f)
<1>1. PICK k \in AdvanceTo(e, d) :
        f = IF k.state # "awaiting_presentation" THEN k
            ELSE [k EXCEPT !.live = Live(k.pending, k.over), !.pending = NoTarget,
                           !.state = "event_active"]
  BY DEF AcknowledgeTargetPresented
<1>2. RunInv(k)
  BY AdvanceKeeps
<1> QED BY <1>1, <1>2, PresentedKeeps

LEMMA NewEngineIsIdle == NewEngine.state = "idle" /\ ~RunInv(NewEngine)
BY DEF NewEngine, RunInv

LEMMA RunningIsRun ==
  ASSUME EngineInv(engine), engine.state # "idle"
  PROVE  RunInv(engine)
BY NewEngineIsIdle DEF EngineInv

LEMMA TimesAreNaturals ==
  ASSUME RunInv(engine)
  PROVE  Times \subseteq Nat
<1>1. NextDeadline(engine) \in Nat \/ NextDeadline(engine) = Never
  BY NextFacts
<1>2. {NextDeadline(engine)} \ {Never} \subseteq Nat
  BY <1>1
<1>3. (IF engine.live = NoLive THEN {0} ELSE Elapses) \subseteq Nat
  <2>1. Elapses \subseteq Nat
    BY TimelineAssumption
  <2> QED BY <2>1
<1> QED BY <1>2, <1>3 DEF Times

LEMMA CallsKeep ==
  ASSUME RunInv(engine), TimelineNext
  PROVE  RunInv(engine')
<1>1. Times \subseteq Nat /\ Movements \subseteq Nat /\ engine.state # "idle"
  BY TimesAreNaturals, TimelineAssumption DEF RunInv
<1>2. engine.over \in BOOLEAN /\ engine.focused \in BOOLEAN
  BY EngineFields DEF RunInv
<1>3. ASSUME Ticks PROVE RunInv(engine')
  BY <1>1, <1>3, AdvanceKeeps DEF Ticks
<1>4. ASSUME Presented PROVE RunInv(engine')
  BY <1>1, <1>4, PresentationKeeps DEF Presented
<1>5. ASSUME RawInput PROVE RunInv(engine')
  <2>1. PICK d \in Times, size \in Movements, click \in BOOLEAN :
          \E inside \in IF size = 0 THEN {engine.over} ELSE BOOLEAN :
             engine' \in SubmitRawInput(engine, d, size, inside, click)
    BY <1>5 DEF RawInput
  <2>2. PICK inside \in BOOLEAN : engine' \in SubmitRawInput(engine, d, size, inside, click)
    BY <1>2, <2>1
  <2>3. PICK k \in AdvanceTo(engine, d) : engine' = SubmitPacket(k, size, inside, click)
    BY <2>2 DEF SubmitRawInput
  <2>4. RunInv(k)
    BY <1>1, <2>1, <2>3, AdvanceKeeps
  <2> QED BY <1>1, <2>1, <2>2, <2>3, <2>4, PacketKeeps
<1>6. ASSUME Pauses PROVE RunInv(engine')
  <2>1. PICK d \in Times, outcome \in Outcomes :
          engine' \in PauseForTechnicalInterruption(engine, d, outcome)
    BY <1>6 DEF Pauses
  <2>2. PICK k \in AdvanceTo(engine, d) : engine' = PauseInternal(k, outcome)
    BY <2>1 DEF PauseForTechnicalInterruption
  <2>3. RunInv(k) /\ outcome \in Technical
    BY <1>1, <2>1, <2>2, AdvanceKeeps DEF Technical
  <2> QED BY <2>2, <2>3, PauseKeeps
<1>7. ASSUME Resumes PROVE RunInv(engine')
  BY <1>7, ResumeKeeps DEF Resumes
<1>8. ASSUME Focuses PROVE RunInv(engine')
  <2>1. PICK d \in Times : engine' \in SetFocused(engine, d, ~engine.focused)
    BY <1>8 DEF Focuses
  <2>2. PICK k \in AdvanceTo(engine, d) : engine' = FocusTrainer(k, ~engine.focused)
    BY <2>1 DEF SetFocused
  <2>3. RunInv(k)
    BY <1>1, <2>1, <2>2, AdvanceKeeps
  <2>4. (~engine.focused) \in BOOLEAN
    OBVIOUS
  <2> QED BY <2>2, <2>3, <2>4, FocusKeeps
<1> QED BY <1>1, <1>3, <1>4, <1>5, <1>6, <1>7, <1>8 DEF TimelineNext, Start

EngineInOrder == EngineInv(engine)

\* In every order of calls the trainer is as EngineInv says: trainer, generator,
\* recorded events and results in step (trainer/TrainerEngine).
THEOREM EngineIsInvariant == TimelineSpec => []EngineInOrder
<1>1. TimelineInit => EngineInOrder
  BY DEF TimelineInit, EngineInv, EngineInOrder
<1>2. ASSUME EngineInv(engine), [TimelineNext]_engine
      PROVE  EngineInv(engine')
  <2>1. CASE UNCHANGED engine
    BY <1>2, <2>1
  <2>2. CASE TimelineNext /\ engine.state # "idle"
    BY <1>2, <2>2, RunningIsRun, CallsKeep DEF EngineInv
  <2>3. CASE TimelineNext /\ engine.state = "idle"
    <3>1. engine = NewEngine
      <4>1. ~RunInv(engine)
        BY <2>3 DEF RunInv
      <4> QED BY <1>2, <4>1 DEF EngineInv
    <3>2. ~CanResume(engine) /\ engine.state # "awaiting_presentation"
      BY <2>3 DEF CanResume
    <3>3. Start
      BY <2>3, <3>2
      DEF TimelineNext, Ticks, Presented, RawInput, Pauses, Resumes, Focuses
    <3>4. engine' = StartBlockCountdown(NewEngine)
      BY <3>1, <3>3 DEF Start, StartTrainer
    <3> QED BY <3>4, StartKeeps DEF EngineInv
  <2> QED BY <1>2, <2>1, <2>2, <2>3
<1>3. EngineInOrder /\ [TimelineNext]_engine => EngineInOrder'
  BY <1>2 DEF EngineInOrder
<1> QED BY <1>1, <1>3, PTL DEF TimelineSpec

------------------------------------------------------------------------------
(***************************************************************************)
(* What the runs check of the trainer, for every plan, block time and      *)
(* bound.                                                                  *)
(***************************************************************************)
LEMMA NewEngineFacts ==
  /\ ~NewEngine.refused /\ ~NewEngine.generator.targetActive
  /\ ~NewEngine.generator.endPending /\ NewEngine.pending = NoTarget
  /\ NewEngine.live = NoLive /\ DOMAIN NewEngine.events = {}
  /\ DOMAIN NewEngine.results = {} /\ NewEngine.state = "idle"
BY DEF NewEngine, NewGenerator

\* The loop of NextDwellCompletionQpc finds the first moment of a quiet window, for
\* every sequence of movements.
THEOREM DwellEndsAtFirstQuietHolds == TimelineSpec => []DwellEndsAtFirstQuiet
<1>1. EngineInOrder => DwellEndsAtFirstQuiet
  <2> SUFFICES ASSUME EngineInv(engine), Dwelling(engine) PROVE DwellEndsAtFirstQuiet
    BY DEF EngineInOrder, DwellEndsAtFirstQuiet
  <2>1. engine.state = "event_active"
    BY DEF Dwelling
  <2>2. RunInv(engine)
    BY <2>1, RunningIsRun
  <2>3. engine.live \in Lives /\ Unresolved(engine.live)
    BY <2>1, <2>2 DEF RunInv, StateInv, Active
  <2>4. DwellingLive(engine.live)
    BY <2>3 DEF Dwelling, DwellingLive, Unresolved, Lives
  <2> QED BY <2>4, CompletionFacts DEF DwellEndsAtFirstQuiet
<1> QED BY <1>1, EngineIsInvariant, PTL

LEMMA EventsOfRun ==
  ASSUME RunInv(engine)
  PROVE  \A i \in DOMAIN engine.events :
           LET v == engine.events[i]
           IN Drawn(v.target) /\ EventEarned(v) /\ Alternates(engine, v.target, i - 1)
BY DEF RunInv, Recorded, EventsInv

\* Whatever cut it short, no event was won without its dwell and its window, every
\* natural tail kept its bounds, and the results are the totals of the events.
THEOREM ResultsAreEarnedHolds == TimelineSpec => []ResultsAreEarned
<1>1. EngineInOrder => EventsAreEarned
  <2> SUFFICES ASSUME EngineInv(engine), NEW i \in DOMAIN engine.events
               PROVE  EventEarned(engine.events[i])
    BY DEF EngineInOrder, EventsAreEarned, EventEarned
  <2>1. RunInv(engine)
    BY NewEngineFacts DEF EngineInv
  <2> QED BY <2>1, EventsOfRun
<1>2. EngineInOrder => ResultsAddUp
  <2> SUFFICES ASSUME EngineInv(engine), NEW i \in DOMAIN engine.results
               PROVE  LET r == engine.results[i]
                      IN /\ r.completed => r.consumed = BlockMs
                         /\ r.score = Cardinality(Scored(engine, r.block)) + OpenScore(engine, i)
                         /\ r.events = Cardinality(Of(engine, r.block))
                         /\ r.technical = Cardinality(Cut(engine, r.block))
    BY DEF EngineInOrder, ResultsAddUp, Scored, Cut, Of, OpenScore
  <2>1. RunInv(engine)
    BY NewEngineFacts DEF EngineInv
  <2>2. Tallied(engine, i)
    BY <2>1 DEF RunInv, Recorded
  <2> QED BY <2>2 DEF Tallied
<1>3. EngineInOrder => ResultsAreEarned
  BY <1>1, <1>2 DEF ResultsAreEarned
<1> QED BY <1>3, EngineIsInvariant, PTL

LEMMA GeneratorFollows == EngineInOrder => GeneratorNeverRefuses
<1>1. ASSUME engine = NewEngine PROVE GeneratorNeverRefuses
  BY <1>1, NewEngineFacts DEF GeneratorNeverRefuses
<1>2. ASSUME RunInv(engine) PROVE GeneratorNeverRefuses
  BY <1>2, WhatIsOut DEF RunInv, GeneratorNeverRefuses
<1> QED BY <1>1, <1>2 DEF EngineInOrder, EngineInv

LEMMA RolesAlternate == EngineInOrder => TickleAlternates
<1> DEFINE fits(target, i) ==
             Pattern[target.block] = "tickle_fast" =>
               (target.role = "tickle_small" <=>
                  /\ i > 1 /\ engine.events[i - 1].target.block = target.block
                  /\ engine.events[i - 1].target.role = "tickle_reset"
                  /\ engine.events[i - 1].scored)
<1>1. ASSUME engine = NewEngine PROVE TickleAlternates
  BY <1>1, NewEngineFacts DEF TickleAlternates
<1>2. ASSUME RunInv(engine) PROVE TickleAlternates
  <2>1. ASSUME NEW t, NEW i \in Nat, Alternates(engine, t, i - 1)
        PROVE  fits(t, i)
    BY <2>1 DEF Alternates, Tickles, IsSmall, ResetHit
  <2>2. engine.events \in Seq(Events)
    BY <1>2, EngineFields DEF RunInv
  <2>3. DOMAIN engine.events \subseteq Nat /\ Len(engine.events) \in Nat
    BY <2>2, SequenceFacts
  <2>4. \A i \in DOMAIN engine.events : fits(engine.events[i].target, i)
    <3> SUFFICES ASSUME NEW i \in DOMAIN engine.events
                 PROVE  fits(engine.events[i].target, i)
      OBVIOUS
    <3>1. Alternates(engine, engine.events[i].target, i - 1)
      BY <1>2, EventsOfRun
    <3> QED BY <2>1, <2>3, <3>1
  <2>5. engine.pending # NoTarget => fits(engine.pending, Len(engine.events) + 1)
    <3> HAVE engine.pending # NoTarget
    <3>1. engine.state = "awaiting_presentation"
      BY <1>2, WhatIsOut
    <3>2. Alternates(engine, engine.pending, Len(engine.events))
      BY <1>2, <3>1 DEF RunInv, StateInv, Awaiting, Proper
    <3>3. Len(engine.events) + 1 \in Nat /\ (Len(engine.events) + 1) - 1 = Len(engine.events)
      BY <2>3
    <3> HIDE DEF fits
    <3> QED BY <2>1, <3>2, <3>3
  <2>6. engine.live # NoLive => fits(engine.live.target, Len(engine.events) + 1)
    <3> HAVE engine.live # NoLive
    <3>1. engine.state \in {"event_active", "event_tail"}
      BY <1>2, WhatIsOut
    <3>2. Alternates(engine, engine.live.target, Len(engine.events))
      BY <1>2, <3>1 DEF RunInv, StateInv, Active, Tailing, Proper
    <3>3. Len(engine.events) + 1 \in Nat /\ (Len(engine.events) + 1) - 1 = Len(engine.events)
      BY <2>3
    <3> HIDE DEF fits
    <3> QED BY <2>1, <3>2, <3>3
  <2> QED BY <2>4, <2>5, <2>6 DEF TickleAlternates
<1> QED BY <1>1, <1>2 DEF EngineInOrder, EngineInv

\* No order of calls, pauses and packets makes the generator throw or breaks the
\* alternation of roles.
THEOREM GeneratorIsInStep == TimelineSpec => []GeneratorAgrees
<1>1. EngineInOrder => GeneratorAgrees
  BY GeneratorFollows, RolesAlternate DEF GeneratorAgrees
<1> QED BY <1>1, EngineIsInvariant, PTL

\* At every sensitivity the protocol accepts but the coarse ones the journal accepts
\* every target: there the two tables and their roundings agree.
THEOREM TargetsFitUnlessCoarse == TimelineSpec => []AcceptedUnlessCoarse
<1>1. EngineInOrder => AcceptedUnlessCoarse
  <2> SUFFICES ASSUME EngineInv(engine), Sensitivity \notin CoarseSensitivities,
                      NEW i \in DOMAIN engine.events
               PROVE  RealizedTargetAccepted(engine.events[i].target)
    BY DEF EngineInOrder, AcceptedUnlessCoarse, TargetsAreAccepted
  <2>1. RunInv(engine)
    BY NewEngineFacts DEF EngineInv
  <2>2. Drawn(engine.events[i].target)
    BY <2>1, EventsOfRun
  <2> QED BY <2>2, DrawnIsAccepted
<1> QED BY <1>1, EngineIsInvariant, PTL

\* Both: at every sensitivity the generator stays in step, and the journal accepts
\* every target except at the coarse ones, of which CoarseIsRefused proves that it
\* does not.
THEOREM TargetsAgreeHolds == TimelineSpec => []TargetsAgree
<1>1. GeneratorAgrees /\ AcceptedUnlessCoarse => TargetsAgree
  BY DEF TargetsAgree
<1> QED BY <1>1, GeneratorIsInStep, TargetsFitUnlessCoarse, PTL

\* The upper end of a range, rounded below, exceeds the scaled bound at k.
MissesAt(f, high, k) ==
  /\ (200 * high + 3 * k - 1) \div (2 * k) < (200 * f[1] + f[2] * k - 1) \div (2 * f[2] * k)
  /\ 1 < (200 * f[1] + f[2] * k - 1) \div (2 * f[2] * k)

LEMMA MissesBound ==
  ASSUME NEW f, NEW high \in Nat, f[1] \in Nat, f[2] \in Nat \ {0},
         MissesAt(f, high, Sensitivity)
  PROVE  ~(AtLeastOne(RoundedBelow(f)) <= CeilScaled(high))
<1> DEFINE most == (200 * high + 3 * Sensitivity - 1) \div (2 * Sensitivity)
<1>1. RoundedBelow(f) \in Int
  BY RoundedIsInteger
<1>2. most \in Int
  <2> DEFINE y == 2 * Sensitivity
  <2>1. y \in Nat \ {0} /\ 200 * high + 3 * Sensitivity - 1 \in Int
    BY SensitivityAssumption
  <2> HIDE DEF y
  <2>2. (200 * high + 3 * Sensitivity - 1) \div y \in Int
    BY <2>1, DivisionFacts
  <2> QED BY <2>2 DEF y
<1>3. most < RoundedBelow(f) /\ 1 < RoundedBelow(f)
  BY DEF MissesAt, RoundedBelow
<1>4. CeilScaled(high) = AtLeastOne(most)
  BY DEF CeilScaled
<1> HIDE DEF most
<1> QED BY <1>1, <1>2, <1>3, <1>4 DEF AtLeastOne

\* And not at any coarse one: the upper end of the range of a static or of an accuracy
\* block is a target the journal refuses, so the limit is exactly CoarseSensitivities.
THEOREM CoarseIsRefused ==
  ASSUME Sensitivity \in CoarseSensitivities, NEW i \in Nat, NEW n \in Nat,
         NEW static \in DOMAIN Pattern, Pattern[static] = "default_static",
         NEW accuracy \in DOMAIN Pattern, Pattern[accuracy] = "accuracy"
  PROVE  \E o \in {static, accuracy} : ~RealizedTargetAccepted(Target(o, i, FALSE, n, "high"))
<1>1. ASSUME NEW o \in DOMAIN Pattern, NEW d, d = DrawFor(Pattern[o], FALSE),
             NEW high, ScenarioFor(Pattern[o], d.role).high = high,
             ~(AtLeastOne(RoundedBelow(d.radius[2])) <= CeilScaled(high))
      PROVE  ~RealizedTargetAccepted(Target(o, i, FALSE, n, "high"))
  <2> DEFINE t == Target(o, i, FALSE, n, "high")
  <2>1. t.block = o /\ t.role = d.role /\ t.radius = AtLeastOne(RoundedBelow(d.radius[2]))
    BY <1>1 DEF Target
  <2> HIDE DEF t
  <2>2. ~ValidateRealizedScenario(t)
    BY <1>1, <2>1 DEF ValidateRealizedScenario
  <2> QED BY <2>2 DEF RealizedTargetAccepted, t
<1>2. CASE Sensitivity \in {26, 28}
  <2>1. DrawFor(Pattern[accuracy], FALSE) = Accuracy
    BY DEF DrawFor
  <2>2. Accuracy.role = "general" /\ Accuracy.radius[2] = <<250, 3>>
    BY DEF Accuracy, General, Draw
  <2>3. ScenarioFor(Pattern[accuracy], Accuracy.role).high = 83
    BY <2>2 DEF ScenarioFor, Untimed, Scenario
  <2>4. ~(AtLeastOne(RoundedBelow(<<250, 3>>)) <= CeilScaled(83))
    <3>1. \A k \in {26, 28} : MissesAt(<<250, 3>>, 83, k)
      BY DEF MissesAt
    <3> DEFINE f == <<250, 3>>
    <3>2. MissesAt(f, 83, Sensitivity) /\ f[1] \in Nat /\ f[2] \in Nat \ {0} /\ 83 \in Nat
      BY <1>2, <3>1
    <3> HIDE DEF f
    <3>3. ~(AtLeastOne(RoundedBelow(f)) <= CeilScaled(83))
      BY <3>2, MissesBound
    <3> QED BY <3>3 DEF f
  <2>5. ~(AtLeastOne(RoundedBelow(Accuracy.radius[2])) <= CeilScaled(83))
    BY <2>2, <2>4
  <2> QED BY <1>1, <2>1, <2>3, <2>5
<1>3. CASE Sensitivity \in CoarseSensitivities \ {26, 28}
  <2>1. DrawFor(Pattern[static], FALSE) = DefaultStatic
    BY DEF DrawFor
  <2>2. DefaultStatic.role = "general" /\ DefaultStatic.radius[2] = <<850, 9>>
    BY DEF DefaultStatic, General, Draw
  <2>3. ScenarioFor(Pattern[static], DefaultStatic.role).high = 94
    BY <2>2 DEF ScenarioFor, Untimed, Scenario
  <2>4. ~(AtLeastOne(RoundedBelow(<<850, 9>>)) <= CeilScaled(94))
    <3> DEFINE Most == {1, 2, 3, 4, 5, 6, 7, 8, 9, 10, 11, 12, 13, 14, 15, 16, 17, 18, 19, 20,
                        21, 22, 23, 24, 25, 27, 29, 30, 31, 34, 38}
    <3>1. \A k \in Most : MissesAt(<<850, 9>>, 94, k)
      BY DEF MissesAt
    <3>2. Sensitivity \in Most
      BY <1>3 DEF CoarseSensitivities
    <3> DEFINE f == <<850, 9>>
    <3>3. MissesAt(f, 94, Sensitivity) /\ f[1] \in Nat /\ f[2] \in Nat \ {0} /\ 94 \in Nat
      BY <3>1, <3>2
    <3> HIDE DEF f
    <3>4. ~(AtLeastOne(RoundedBelow(f)) <= CeilScaled(94))
      BY <3>3, MissesBound
    <3> QED BY <3>4 DEF f
  <2>5. ~(AtLeastOne(RoundedBelow(DefaultStatic.radius[2])) <= CeilScaled(94))
    BY <2>2, <2>4
  <2> QED BY <1>1, <2>1, <2>3, <2>5
<1> QED BY <1>2, <1>3

------------------------------------------------------------------------------
(***************************************************************************)
(* The timed trainer implements TrainerEngine.                             *)
(***************************************************************************)
Seen(state, fresh, focused, reason, events, blocks) ==
  [state |-> state, fresh |-> fresh, focused |-> focused, reason |-> reason,
   events |-> events, blocks |-> blocks]

LEMMA SeenIs ==
  ASSUME NEW e
  PROVE  /\ Abstract(e) = Seen(e.state, Fresh(e), e.focused, e.reason, Len(e.events), e.index)
         /\ Fresh(e) \in BOOLEAN
BY DEF Abstract, Seen, Fresh

LEMMA SeenFields ==
  \A s, h, o, r, n, i :
     LET t == Seen(s, h, o, r, n, i)
     IN /\ t.state = s /\ t.fresh = h /\ t.focused = o /\ t.reason = r
        /\ t.events = n /\ t.blocks = i
BY DEF Seen

LEMMA SeenState ==
  \A s, h, o, r, n, i, x : [Seen(s, h, o, r, n, i) EXCEPT !.state = x] = Seen(x, h, o, r, n, i)
BY DEF Seen

LEMMA SeenFresh ==
  \A s, h, o, r, n, i, x : [Seen(s, h, o, r, n, i) EXCEPT !.fresh = x] = Seen(s, x, o, r, n, i)
BY DEF Seen

LEMMA SeenFocused ==
  \A s, h, o, r, n, i, x : [Seen(s, h, o, r, n, i) EXCEPT !.focused = x] = Seen(s, h, x, r, n, i)
BY DEF Seen

LEMMA SeenReason ==
  \A s, h, o, r, n, i, x : [Seen(s, h, o, r, n, i) EXCEPT !.reason = x] = Seen(s, h, o, x, n, i)
BY DEF Seen

LEMMA SeenEvents ==
  \A s, h, o, r, n, i, x : [Seen(s, h, o, r, n, i) EXCEPT !.events = x] = Seen(s, h, o, r, x, i)
BY DEF Seen

LEMMA SeenBlocks ==
  \A s, h, o, r, n, i, x : [Seen(s, h, o, r, n, i) EXCEPT !.blocks = x] = Seen(s, h, o, r, n, x)
BY DEF Seen

LEMMA PrepareSeen ==
  ASSUME NEW s, NEW h, NEW o, NEW r, NEW n \in Nat, NEW i, n <= MaxEvents
  PROVE  Seen("awaiting_presentation", h, o, r, n, i) \in T!PrepareTarget(Seen(s, h, o, r, n, i))
<1> DEFINE t == Seen(s, h, o, r, n, i)
<1>1. /\ t.events = n
      /\ [t EXCEPT !.state = "awaiting_presentation"] = Seen("awaiting_presentation", h, o, r, n, i)
  BY SeenFields, SeenState, SeenEvents, SeenBlocks
<1> HIDE DEF t
<1>2. t.events < MaxEvents + 1
  BY <1>1, TimelineAssumption
<1>3. [t EXCEPT !.state = "awaiting_presentation"] \in T!PrepareTarget(t)
  BY <1>2 DEF T!PrepareTarget
<1> QED BY <1>1, <1>3 DEF t

LEMMA BlockEndSeen ==
  ASSUME NEW s, NEW h, NEW o, NEW r, NEW n \in Nat, NEW i \in Nat,
         NEW t, t = Seen(s, h, o, r, n, i)
  PROVE  /\ i + 1 = Len(Plan) => Seen("complete", h, o, r, n, i + 1) \in T!FromBlockEnd(t)
         /\ i + 1 # Len(Plan) => Seen("countdown", TRUE, o, r, n, i + 1) \in T!FromBlockEnd(t)
         /\ i + 1 # Len(Plan) /\ n <= MaxEvents =>
              Seen("awaiting_presentation", TRUE, o, r, n, i + 1) \in T!FromBlockEnd(t)
<1> DEFINE u == [t EXCEPT !.blocks = t.blocks + 1]
           c == T!CompleteBlock(t)
<1>1. u = Seen(s, h, o, r, n, i + 1)
  BY SeenFields, SeenState, SeenEvents, SeenBlocks
<1>2. u.blocks = i + 1
  BY <1>1, SeenFields, SeenState, SeenEvents, SeenBlocks
<1>3. c = IF u.blocks = Len(Plan) THEN [u EXCEPT !.state = "complete"]
          ELSE [u EXCEPT !.state = "countdown", !.fresh = TRUE]
  BY DEF T!CompleteBlock, T!StartBlockCountdown
<1>4. c \in T!FromBlockEnd(t)
  BY DEF T!FromBlockEnd
<1>5. c.state = "countdown" => T!PrepareTarget(c) \subseteq T!FromBlockEnd(t)
  BY DEF T!FromBlockEnd
<1> HIDE DEF u, c
<1>6. CASE i + 1 = Len(Plan)
  <2>1. c = [u EXCEPT !.state = "complete"]
    BY <1>2, <1>3, <1>6
  <2>2. c = Seen("complete", h, o, r, n, i + 1)
    BY <1>1, <2>1, SeenFields, SeenState, SeenEvents, SeenBlocks
  <2> QED BY <1>4, <1>6, <2>2
<1>7. CASE i + 1 # Len(Plan)
  <2>1. c = [u EXCEPT !.state = "countdown", !.fresh = TRUE]
    BY <1>2, <1>3, <1>7
  <2>2. c = Seen("countdown", TRUE, o, r, n, i + 1)
    <3> DEFINE k == [u EXCEPT !.state = "countdown"]
    <3>1. c = [k EXCEPT !.fresh = TRUE]
      BY <2>1
    <3>2. k = Seen("countdown", h, o, r, n, i + 1)
      BY <1>1, SeenState
    <3> HIDE DEF k
    <3>3. \A x : [k EXCEPT !.fresh = x] = Seen("countdown", x, o, r, n, i + 1)
      BY <3>2, SeenFresh
    <3>4. [k EXCEPT !.fresh = TRUE] = Seen("countdown", TRUE, o, r, n, i + 1)
      BY ONLY <3>3, Zenon
    <3> QED BY <3>1, <3>4
  <2>3. c.state = "countdown"
    BY <1>1, <2>1 DEF Seen
  <2>4. n <= MaxEvents =>
          Seen("awaiting_presentation", TRUE, o, r, n, i + 1) \in T!PrepareTarget(c)
    BY <2>2, PrepareSeen
  <2> QED BY <1>4, <1>5, <1>7, <2>2, <2>3, <2>4
<1> QED BY <1>6, <1>7

\* What ends an event or a delay further on leads where FromDelay does.
LEMMA FurtherSeen ==
  ASSUME NEW e, NEW f, Further(e, f), f.focused = e.focused, f.reason = e.reason,
         e.index \in Nat, Kept(e) \in Nat,
         NEW s, NEW t, t = Seen(s, Fresh(e), e.focused, e.reason, Kept(e), e.index)
  PROVE  Abstract(f) \in T!FromDelay(t)
<1> DEFINE u == [t EXCEPT !.state = "inter_target_delay"]
           n == Kept(e)
           i == e.index
           h == Fresh(e)
           o == e.focused
           r == e.reason
<1>1. u = Seen("inter_target_delay", h, o, r, n, i)
  BY SeenFields, SeenState, SeenEvents, SeenBlocks
<1>2. T!FromDelay(t) = {u} \cup T!PrepareTarget(u) \cup T!FromBlockEnd(u)
  BY DEF T!FromDelay
<1>3. Abstract(f) = Seen(f.state, Fresh(f), o, r, n, f.index)
  BY SeenIs DEF Further
<1>4. h \in BOOLEAN /\ Fresh(f) \in BOOLEAN
  BY SeenIs
<1>5. f.state = "awaiting_presentation" => n <= MaxEvents
  BY DEF Further
<1>6. \/ /\ f.index = i /\ (Fresh(f) <=> h)
         /\ f.state \in {"inter_target_delay", "awaiting_presentation"}
      \/ /\ f.index = i + 1
         /\ f.state \in {"complete", "countdown", "awaiting_presentation"}
         /\ f.state = "complete" => f.index = Len(Plan) /\ (Fresh(f) <=> h)
         /\ f.state # "complete" => f.index # Len(Plan) /\ Fresh(f)
  BY DEF Further
<1>7. n \in Nat /\ i \in Nat
  OBVIOUS
<1> HIDE DEF u, n, i, h, o, r
<1>8. CASE /\ f.index = i /\ (Fresh(f) <=> h)
           /\ f.state \in {"inter_target_delay", "awaiting_presentation"}
  <2>1. Fresh(f) = h
    BY <1>4, <1>8
  <2>2. CASE f.state = "inter_target_delay"
    BY <1>1, <1>2, <1>3, <1>8, <2>1, <2>2
  <2>3. CASE f.state = "awaiting_presentation"
    <3>1. Seen("awaiting_presentation", h, o, r, n, i) \in T!PrepareTarget(u)
      BY <1>1, <1>5, <1>7, <2>3, PrepareSeen
    <3> QED BY <1>2, <1>3, <1>8, <2>1, <2>3, <3>1
  <2> QED BY <1>8, <2>2, <2>3
<1>9. CASE /\ f.index = i + 1
           /\ f.state \in {"complete", "countdown", "awaiting_presentation"}
           /\ f.state = "complete" => f.index = Len(Plan) /\ (Fresh(f) <=> h)
           /\ f.state # "complete" => f.index # Len(Plan) /\ Fresh(f)
  <2>1. Abstract(f) \in T!FromBlockEnd(u)
    <3>1. CASE f.state = "complete"
      <4>1. Fresh(f) = h /\ i + 1 = Len(Plan)
        BY <1>4, <1>9, <3>1
      <4>2. Seen("complete", h, o, r, n, i + 1) \in T!FromBlockEnd(u)
        BY <1>1, <1>7, <4>1, BlockEndSeen
      <4> QED BY <1>3, <1>9, <3>1, <4>1, <4>2
    <3>2. CASE f.state \in {"countdown", "awaiting_presentation"}
      <4>1. Fresh(f) = TRUE /\ i + 1 # Len(Plan)
        BY <1>4, <1>9, <3>2
      <4>2. Seen("countdown", TRUE, o, r, n, i + 1) \in T!FromBlockEnd(u)
        BY <1>1, <1>7, <4>1, BlockEndSeen
      <4>3. f.state = "awaiting_presentation" =>
              Seen("awaiting_presentation", TRUE, o, r, n, i + 1) \in T!FromBlockEnd(u)
        BY <1>1, <1>5, <1>7, <4>1, BlockEndSeen
      <4>4. Abstract(f) = Seen(f.state, TRUE, o, r, n, i + 1)
        BY <1>3, <1>9, <4>1
      <4> QED BY <3>2, <4>2, <4>3, <4>4
    <3> QED BY <1>9, <3>1, <3>2
  <2> QED BY <1>2, <2>1
<1> QED BY <1>6, <1>8, <1>9

LEMMA ReachesSeen ==
  ASSUME NEW e, RunInv(e), NEW f, Reaches(e, f)
  PROVE  Abstract(f) \in T!AdvanceTo(Abstract(e))
<1> DEFINE a == Abstract(e)
           b == Abstract(f)
           n == Len(e.events)
<1>1. n \in Nat /\ e.index \in Nat /\ Kept(e) \in Nat
  <2>1. e.index \in 0..Len(Plan) /\ e.events \in Seq(Events) /\ Len(Plan) \in Nat
    BY EngineFields, PlanFacts DEF RunInv
  <2>2. n \in Nat /\ e.index \in Nat
    BY <2>1, SequenceFacts
  <2>3. Kept(e) = n + 1 \/ Kept(e) = n + 0
    BY DEF Kept
  <2> QED BY <2>2, <2>3
<1>2. f.focused = e.focused /\ f.reason = e.reason
  BY DEF Reaches
<1>3. /\ a = Seen(e.state, Fresh(e), e.focused, e.reason, n, e.index)
      /\ b = Seen(f.state, Fresh(f), e.focused, e.reason, Len(f.events), f.index)
      /\ Fresh(e) \in BOOLEAN /\ Fresh(f) \in BOOLEAN
  BY <1>2, SeenIs
<1>4. a.state = e.state /\ a.fresh = Fresh(e) /\ a.events = n
  BY <1>3, SeenFields, SeenState, SeenEvents, SeenBlocks
<1>5. Alike(e, f) => b = Seen(f.state, Fresh(e), e.focused, e.reason, n, e.index)
  <2> HAVE Alike(e, f)
  <2>1. Fresh(f) = Fresh(e) /\ Len(f.events) = n /\ f.index = e.index
    BY <1>3 DEF Alike
  <2> QED BY <1>3, <2>1
<1>6. T!AdvanceTo(a) =
        CASE a.state = "countdown"          -> T!FromCountdown(a)
          [] a.state = "event_active"       -> {a} \cup T!FromTail(a)
          [] a.state = "event_tail"         -> T!FromTail(a)
          [] a.state = "inter_target_delay" -> T!FromDelay(a)
          [] OTHER                          -> {a}
  BY DEF T!AdvanceTo
<1>7. /\ T!FromCountdown(a) = {a} \cup T!PrepareTarget(a)
           \cup (IF a.fresh THEN {} ELSE T!FromDelay(a) \cup T!FromBlockEnd(a))
      /\ [a EXCEPT !.state = "event_tail"] \in T!FromTail(a)
      /\ T!FromDelay([a EXCEPT !.events = a.events + 1]) \subseteq T!FromTail(a)
      /\ [a EXCEPT !.state = "inter_target_delay"] \in T!FromDelay(a)
  BY DEF T!FromCountdown, T!FromTail, T!StoreFinalizedEvent, T!FromDelay
<1>8. /\ [a EXCEPT !.state = "event_tail"] =
           Seen("event_tail", Fresh(e), e.focused, e.reason, n, e.index)
      /\ [a EXCEPT !.state = "inter_target_delay"] =
           Seen("inter_target_delay", Fresh(e), e.focused, e.reason, n, e.index)
      /\ [a EXCEPT !.events = a.events + 1] =
           Seen(e.state, Fresh(e), e.focused, e.reason, n + 1, e.index)
  BY <1>3, <1>4, SeenFields, SeenState, SeenEvents, SeenBlocks
<1> HIDE DEF a, b, n
<1>9. CASE Alike(e, f) /\ f.state = e.state
  <2>1. b = a
    BY <1>3, <1>5, <1>9
  <2>2. a \in T!AdvanceTo(a)
    <3>1. e.state = "event_tail" => a \in T!FromTail(a)
      BY <1>3, <1>7, <1>8
    <3>2. e.state = "inter_target_delay" => a \in T!FromDelay(a)
      BY <1>3, <1>7, <1>8
    <3> QED BY <1>4, <1>6, <1>7, <3>1, <3>2
  <2> QED BY <2>1, <2>2 DEF a, b
<1>10. CASE Alike(e, f) /\ e.state = "event_active" /\ f.state = "event_tail"
  <2>1. b \in T!FromTail(a)
    BY <1>5, <1>7, <1>8, <1>10
  <2>2. b \in T!AdvanceTo(a)
    BY <1>4, <1>6, <1>10, <2>1
  <2> QED BY <2>2 DEF a, b
<1>11. CASE /\ Alike(e, f) /\ e.state = "countdown" /\ f.state = "awaiting_presentation"
            /\ Len(e.events) <= MaxEvents
  <2>1. b \in T!PrepareTarget(a)
    BY <1>1, <1>3, <1>5, <1>11, PrepareSeen DEF n
  <2>2. b \in T!AdvanceTo(a)
    BY <1>4, <1>6, <1>7, <1>11, <2>1
  <2> QED BY <2>2 DEF a, b
<1>12. CASE Leaves(e) /\ Further(e, f)
  <2>1. CASE e.state \in {"event_active", "event_tail"}
    <3>1. Kept(e) = n + 1
      BY <2>1 DEF Kept, n
    <3>2. b \in T!FromDelay([a EXCEPT !.events = a.events + 1])
      BY ZenonT(40), <1>1, <1>2, <1>8, <1>12, <3>1, FurtherSeen DEF b
    <3>3. b \in T!AdvanceTo(a)
      BY <1>4, <1>6, <1>7, <2>1, <3>2
    <3> QED BY <3>3 DEF a, b
  <2>2. CASE e.state \notin {"event_active", "event_tail"}
    <3>1. Kept(e) = n
      <4>1. Kept(e) = n + 0
        BY <2>2 DEF Kept, n
      <4> QED BY <1>1, <4>1
    <3>2. b \in T!FromDelay(a)
      BY <1>1, <1>2, <1>3, <1>12, <3>1, FurtherSeen DEF b
    <3>3. e.state = "inter_target_delay" \/ (e.state = "countdown" /\ ~Fresh(e))
      BY <1>12, <2>2 DEF Leaves
    <3>4. b \in T!AdvanceTo(a)
      BY <1>4, <1>6, <1>7, <3>2, <3>3
    <3> QED BY <3>4 DEF a, b
  <2> QED BY <2>1, <2>2
<1> QED BY <1>9, <1>10, <1>11, <1>12 DEF Reaches

LEMMA AdvanceSeen ==
  ASSUME NEW e, RunInv(e), NEW d \in Nat, NEW f \in AdvanceTo(e, d)
  PROVE  RunInv(f) /\ Reaches(e, f) /\ Abstract(f) \in T!AdvanceTo(Abstract(e))
<1>1. RunInv(f) /\ Reaches(e, f)
  BY AdvanceKeeps
<1> QED BY <1>1, ReachesSeen

\* An engine that differs from another in state, reason and number of events.
LEMMA AlteredSeen ==
  ASSUME NEW e, NEW f, f.focused = e.focused, f.index = e.index, (Fresh(f) <=> Fresh(e))
  PROVE  Abstract(f) = Seen(f.state, Fresh(e), e.focused, f.reason, Len(f.events), e.index)
<1>1. Abstract(f) = Seen(f.state, Fresh(f), f.focused, f.reason, Len(f.events), f.index)
  BY SeenIs
<1>2. Fresh(f) = Fresh(e)
  BY SeenIs
<1> QED BY <1>1, <1>2

LEMMA PauseSeen ==
  ASSUME NEW e, RunInv(e), NEW outcome \in Technical, NEW f, f = PauseInternal(e, outcome)
  PROVE  /\ Abstract(f) = T!PauseInternal(Abstract(e), outcome) /\ RunInv(f)
         /\ f.focused = e.focused
<1> DEFINE a == Abstract(e)
           n == Len(e.events)
           h == Fresh(e)
           o == e.focused
           i == e.index
           stored == IF a.state \in T!Live THEN T!StoreFinalizedEvent(a) ELSE a
<1>1. a = Seen(e.state, h, o, e.reason, n, i)
  BY SeenIs
<1>2. a.state = e.state /\ a.events = n
  BY <1>1, SeenFields
<1>3. e.state \in States \ {"idle"}
  BY EngineFields DEF RunInv
<1>4. RunInv(f)
  BY PauseKeeps
<1>5. CASE e.state \in {"complete", "paused"}
  <2>1. f = e
    BY <1>5, PauseKeeps
  <2>2. a.state \notin T!Running
    BY <1>2, <1>5 DEF T!Running, T!Live
  <2>3. T!PauseInternal(a, outcome) = a
    BY <2>2 DEF T!PauseInternal
  <2> QED BY <1>4, <2>1, <2>3
<1>6. CASE e.state \notin {"complete", "paused"}
  <2>1. /\ f.state = "paused" /\ f.reason = outcome /\ f.focused = o
        /\ f.index = i /\ (Fresh(f) <=> h)
        /\ Len(f.events) = IF e.state \in Out THEN n + 1 ELSE n
    BY <1>6, PauseKeeps
  <2>2. a.state \in T!Running /\ (a.state \in T!Live <=> e.state \in Out)
    BY <1>2, <1>3, <1>6 DEF T!Running, T!Live, Out, States
  <2>3. T!PauseInternal(a, outcome) = [stored EXCEPT !.state = "paused", !.reason = outcome]
    BY <2>2 DEF T!PauseInternal
  <2>4. T!StoreFinalizedEvent(a) = [a EXCEPT !.events = a.events + 1]
    BY DEF T!StoreFinalizedEvent
  <2>5. Abstract(f) = Seen("paused", h, o, outcome, Len(f.events), i)
    BY <2>1, AlteredSeen
  <2> HIDE DEF a, n, h, o, i
  <2>6. stored = Seen(e.state, h, o, e.reason, Len(f.events), i)
    <3>1. CASE e.state \in Out
      <4>1. stored = [a EXCEPT !.events = n + 1] /\ Len(f.events) = n + 1
        BY <1>2, <2>1, <2>2, <2>4, <3>1
      <4> QED BY <1>1, <4>1, SeenEvents
    <3>2. CASE e.state \notin Out
      <4>1. stored = a /\ Len(f.events) = n
        BY <2>1, <2>2, <3>2
      <4> QED BY <1>1, <4>1
    <3> QED BY <3>1, <3>2
  <2> HIDE DEF stored
  <2> DEFINE k == [stored EXCEPT !.state = "paused"]
  <2>8. T!PauseInternal(a, outcome) = [k EXCEPT !.reason = outcome]
    BY <2>3
  <2>9. k = Seen("paused", h, o, e.reason, Len(f.events), i)
    BY <2>6, SeenState
  <2> HIDE DEF k
  <2>7. Abstract(f) = T!PauseInternal(a, outcome)
    BY <2>5, <2>8, <2>9, SeenReason
  <2> QED BY <1>4, <2>1, <2>7 DEF a, o
<1> QED BY <1>5, <1>6

LEMMA ResumeSeen ==
  ASSUME NEW e, RunInv(e), CanResume(e), NEW f, f = StartResumeCountdown(e)
  PROVE  /\ Abstract(f) = T!StartResumeCountdown(Abstract(e)) /\ T!CanResume(Abstract(e))
         /\ RunInv(f) /\ f.focused = e.focused
<1> DEFINE a == Abstract(e)
           n == Len(e.events)
           h == Fresh(e)
<1>1. a = Seen(e.state, h, e.focused, e.reason, n, e.index)
  BY SeenIs
<1>2. /\ RunInv(f) /\ f.state = "countdown" /\ f.reason = "none" /\ f.focused = e.focused
      /\ f.index = e.index /\ f.events = e.events /\ (Fresh(f) <=> h)
  BY ResumeKeeps
<1>3. Abstract(f) = Seen("countdown", h, e.focused, "none", n, e.index)
  BY <1>2, AlteredSeen
<1>4. T!StartResumeCountdown(a) = [a EXCEPT !.state = "countdown", !.reason = "none"]
  BY DEF T!StartResumeCountdown
<1>5. T!CanResume(a)
  <2>1. a.state = e.state /\ a.focused = e.focused
    BY <1>1, SeenFields
  <2> HIDE DEF a
  <2> QED BY <2>1 DEF CanResume, T!CanResume
<1> DEFINE k == [a EXCEPT !.state = "countdown"]
<1>7. T!StartResumeCountdown(a) = [k EXCEPT !.reason = "none"]
  BY <1>4
<1>8. k = Seen("countdown", h, e.focused, e.reason, n, e.index)
  BY <1>1, SeenState
<1> HIDE DEF a, n, h, k
<1>6. Abstract(f) = T!StartResumeCountdown(a)
  BY <1>3, <1>7, <1>8, SeenReason
<1> QED BY <1>2, <1>5, <1>6 DEF a

LEMMA FocusSeen ==
  ASSUME NEW e, RunInv(e), NEW focus \in BOOLEAN, NEW f, f = FocusTrainer(e, focus)
  PROVE  Abstract(f) = T!FocusTrainer(Abstract(e), focus) /\ f.focused = focus
<1> DEFINE g == [e EXCEPT !.focused = focus]
           a == Abstract(e)
           b == [a EXCEPT !.focused = focus]
<1>1. /\ RunInv(g) /\ g.focused = focus /\ g.state = e.state /\ g.reason = e.reason
      /\ g.index = e.index /\ g.events = e.events /\ (Fresh(g) <=> Fresh(e))
  BY FocusedKeeps
<1>2. a = Seen(e.state, Fresh(e), e.focused, e.reason, Len(e.events), e.index)
  BY SeenIs
<1>3. a.focused = e.focused
  BY <1>2, SeenFields
<1>4. Abstract(g) = b
  <2>1. b = Seen(e.state, Fresh(e), focus, e.reason, Len(e.events), e.index)
    BY <1>2, SeenFocused
  <2>2. Abstract(g) = Seen(g.state, Fresh(g), g.focused, g.reason, Len(g.events), g.index)
    BY SeenIs
  <2>3. Fresh(g) = Fresh(e)
    BY <1>1, SeenIs
  <2> HIDE DEF a, b, g
  <2> QED BY <1>1, <2>1, <2>2, <2>3
<1>5. b.state = g.state /\ b.reason = g.reason
  <2>1. Abstract(g) = Seen(g.state, Fresh(g), g.focused, g.reason, Len(g.events), g.index)
    BY SeenIs
  <2> HIDE DEF b, g
  <2> QED BY <1>4, <2>1, SeenFields
<1>6. f = IF e.focused = focus THEN e
          ELSE IF ~focus THEN PauseInternal(g, "focus_lost")
          ELSE IF g.state = "paused" /\ g.reason = "focus_lost" THEN StartResumeCountdown(g)
          ELSE g
  BY DEF FocusTrainer
<1>7. T!FocusTrainer(a, focus) =
        IF a.focused = focus THEN a
        ELSE IF ~focus THEN T!PauseInternal(b, "focus_lost")
        ELSE IF b.state = "paused" /\ b.reason = "focus_lost" THEN T!StartResumeCountdown(b)
        ELSE b
  BY DEF T!FocusTrainer
<1>8. "focus_lost" \in Technical
  BY DEF Technical
<1> HIDE DEF g, b
<1>9. CASE e.focused = focus
  BY <1>3, <1>6, <1>7, <1>9
<1>10. CASE e.focused # focus /\ ~focus
  <2>1. f = PauseInternal(g, "focus_lost")
    BY <1>6, <1>10
  <2>2. Abstract(f) = T!PauseInternal(b, "focus_lost") /\ f.focused = focus
    BY <1>1, <1>4, <1>8, <2>1, PauseSeen
  <2> QED BY <1>3, <1>7, <1>10, <2>2
<1>11. CASE e.focused # focus /\ focus /\ g.state = "paused" /\ g.reason = "focus_lost"
  <2>1. f = StartResumeCountdown(g)
    BY <1>6, <1>11
  <2>2. CanResume(g)
    BY <1>1, <1>11 DEF CanResume
  <2>3. Abstract(f) = T!StartResumeCountdown(b) /\ f.focused = focus
    BY <1>1, <1>4, <2>1, <2>2, ResumeSeen
  <2> QED BY <1>3, <1>5, <1>7, <1>11, <2>3
<1>12. CASE e.focused # focus /\ focus /\ ~(g.state = "paused" /\ g.reason = "focus_lost")
  <2>1. f = g
    BY <1>6, <1>12
  <2> QED BY <1>1, <1>3, <1>4, <1>5, <1>7, <1>12, <2>1
<1> QED BY <1>9, <1>10, <1>11, <1>12

\* A presentation and a packet, as TrainerEngine has them.
LEMMA PresentationSeen ==
  ASSUME NEW e, RunInv(e), NEW d \in Nat, NEW f \in AcknowledgeTargetPresented(e, d)
  PROVE  Abstract(f) \in T!AcknowledgeTargetPresented(Abstract(e))
<1>1. PICK k \in AdvanceTo(e, d) :
        f = IF k.state # "awaiting_presentation" THEN k
            ELSE [k EXCEPT !.live = Live(k.pending, k.over), !.pending = NoTarget,
                           !.state = "event_active"]
  BY DEF AcknowledgeTargetPresented
<1>2. RunInv(k) /\ Abstract(k) \in T!AdvanceTo(Abstract(e))
  BY <1>1, AdvanceSeen
<1> DEFINE u == Abstract(k)
           shown == IF u.state = "awaiting_presentation"
                      THEN [u EXCEPT !.state = "event_active", !.fresh = FALSE] ELSE u
<1>3. shown \in T!AcknowledgeTargetPresented(Abstract(e))
  BY <1>2 DEF T!AcknowledgeTargetPresented
<1>4. u = Seen(k.state, Fresh(k), k.focused, k.reason, Len(k.events), k.index)
  BY SeenIs
<1>5. u.state = k.state
  BY <1>4, SeenFields
<1> HIDE DEF u
<1>6. CASE k.state # "awaiting_presentation"
  <2>1. f = k /\ shown = u
    BY <1>1, <1>5, <1>6
  <2> QED BY <1>3, <2>1 DEF u
<1>7. CASE k.state = "awaiting_presentation"
  <2>1. f = [k EXCEPT !.live = Live(k.pending, k.over), !.pending = NoTarget,
                      !.state = "event_active"]
    BY <1>1, <1>7
  <2>2. /\ f.state = "event_active" /\ f.live # NoLive
        /\ f.index = k.index /\ f.events = k.events
        /\ f.focused = k.focused /\ f.reason = k.reason
    BY <1>2, <1>7, <2>1, PresentedKeeps
  <2>3. Fresh(f) = FALSE
    BY <2>2, LiveIsNotFresh, SeenIs
  <2>4. Abstract(f) = Seen(f.state, Fresh(f), f.focused, f.reason, Len(f.events), f.index)
    BY SeenIs
  <2>5. Abstract(f) = Seen("event_active", Fresh(f), k.focused, k.reason, Len(k.events), k.index)
    BY <2>2, <2>4
  <2> DEFINE v == [u EXCEPT !.state = "event_active"]
  <2>6. v = Seen("event_active", Fresh(k), k.focused, k.reason, Len(k.events), k.index)
    BY <1>4, SeenState
  <2>7. shown = [v EXCEPT !.fresh = FALSE]
    BY <1>5, <1>7
  <2> HIDE DEF v, shown
  <2>8. \A x : [v EXCEPT !.fresh = x]
                 = Seen("event_active", x, k.focused, k.reason, Len(k.events), k.index)
    BY <2>6, SeenFresh
  <2>9. [v EXCEPT !.fresh = Fresh(f)] = Abstract(f)
    BY <2>5, <2>8
  <2>10. [v EXCEPT !.fresh = FALSE] = [v EXCEPT !.fresh = Fresh(f)]
    BY ONLY <2>3, Zenon
  <2> QED BY <1>3, <2>7, <2>9, <2>10
<1> QED BY <1>6, <1>7

LEMMA PacketSeen ==
  ASSUME NEW e, RunInv(e), NEW d \in Nat, NEW k \in AdvanceTo(e, d),
         NEW size \in Nat, NEW inside \in BOOLEAN, NEW click,
         NEW f, f = SubmitPacket(k, size, inside, click)
  PROVE  Abstract(f) \in T!SubmitRawInput(Abstract(e))
<1> DEFINE u == Abstract(k)
<1>1. RunInv(k) /\ u \in T!AdvanceTo(Abstract(e))
  BY AdvanceSeen
<1>2. /\ f.index = k.index /\ f.events = k.events
      /\ f.focused = k.focused /\ f.reason = k.reason /\ (Fresh(f) <=> Fresh(k))
      /\ f.state = k.state \/ (k.state = "event_active" /\ f.state = "event_tail")
  BY <1>1, PacketKeeps
<1>3. Abstract(f) = Seen(f.state, Fresh(k), k.focused, f.reason, Len(f.events), k.index)
  BY <1>2, AlteredSeen
<1>4. u = Seen(k.state, Fresh(k), k.focused, k.reason, Len(k.events), k.index)
  BY SeenIs
<1>5. u.state = k.state
  BY <1>4, SeenFields
<1>6. /\ T!AdvanceTo(Abstract(e)) \subseteq T!SubmitRawInput(Abstract(e))
      /\ u.state = "event_active" =>
           [u EXCEPT !.state = "event_tail"] \in T!SubmitRawInput(Abstract(e))
  BY <1>1 DEF T!SubmitRawInput
<1> HIDE DEF u
<1>7. CASE f.state = k.state
  BY <1>1, <1>2, <1>3, <1>4, <1>6, <1>7
<1>8. CASE k.state = "event_active" /\ f.state = "event_tail"
  <2>1. [u EXCEPT !.state = "event_tail"]
          = Seen("event_tail", Fresh(k), k.focused, k.reason, Len(k.events), k.index)
    BY <1>4, SeenState
  <2> QED BY <1>2, <1>3, <1>5, <1>6, <1>8, <2>1
<1> QED BY <1>2, <1>7, <1>8

LEMMA StepsSeen ==
  ASSUME RunInv(engine), TimelineNext
  PROVE  TrainerStep
<1> DEFINE before == Abstract(engine)
           after == Abstract(engine')
<1>1. Times \subseteq Nat /\ Movements \subseteq Nat /\ engine.state # "idle"
  BY TimesAreNaturals, TimelineAssumption DEF RunInv
<1>2. engine.over \in BOOLEAN /\ engine.focused \in BOOLEAN
  BY EngineFields DEF RunInv
<1>3. SUFFICES \/ after \in T!SubmitRawInput(before) \cup T!AcknowledgeTargetPresented(before)
               \/ \E o \in Outcomes : after \in T!PauseForTechnicalInterruption(before, o)
               \/ after = T!StartResumeCountdown(before) /\ T!CanResume(before)
               \/ after \in T!SetFocused(before, after.focused)
  BY <1>3 DEF TrainerStep
<1>4. ASSUME Ticks PROVE after \in T!SubmitRawInput(before)
  <2>1. PICK d \in Times : engine' \in AdvanceTo(engine, d)
    BY <1>4 DEF Ticks
  <2>2. after \in T!AdvanceTo(before)
    BY <1>1, <2>1, AdvanceSeen
  <2> HIDE DEF before, after
  <2> QED BY <2>2 DEF T!SubmitRawInput
<1>5. ASSUME Presented PROVE after \in T!AcknowledgeTargetPresented(before)
  <2>1. PICK d \in Times : engine' \in AcknowledgeTargetPresented(engine, d)
    BY <1>5 DEF Presented
  <2> QED BY <1>1, <2>1, PresentationSeen
<1>6. ASSUME RawInput PROVE after \in T!SubmitRawInput(before)
  <2>1. PICK d \in Times, size \in Movements, click \in BOOLEAN :
          \E inside \in IF size = 0 THEN {engine.over} ELSE BOOLEAN :
             engine' \in SubmitRawInput(engine, d, size, inside, click)
    BY <1>6 DEF RawInput
  <2>2. PICK inside \in BOOLEAN : engine' \in SubmitRawInput(engine, d, size, inside, click)
    BY <1>2, <2>1
  <2>3. PICK k \in AdvanceTo(engine, d) : engine' = SubmitPacket(k, size, inside, click)
    BY <2>2 DEF SubmitRawInput
  <2>4. d \in Nat /\ size \in Nat
    BY <1>1, <2>1
  <2> QED BY <2>2, <2>3, <2>4, PacketSeen
<1>7. ASSUME Pauses
      PROVE  \E o \in Outcomes : after \in T!PauseForTechnicalInterruption(before, o)
  <2>1. PICK d \in Times, outcome \in Outcomes :
          engine' \in PauseForTechnicalInterruption(engine, d, outcome)
    BY <1>7 DEF Pauses
  <2>2. PICK k \in AdvanceTo(engine, d) : engine' = PauseInternal(k, outcome)
    BY <2>1 DEF PauseForTechnicalInterruption
  <2>3. RunInv(k) /\ Abstract(k) \in T!AdvanceTo(before) /\ outcome \in Technical
    BY <1>1, <2>1, <2>2, AdvanceSeen DEF Technical
  <2>4. after = T!PauseInternal(Abstract(k), outcome)
    BY <2>2, <2>3, PauseSeen
  <2> HIDE DEF before, after
  <2>5. after \in T!PauseForTechnicalInterruption(before, outcome)
    BY <2>3, <2>4 DEF T!PauseForTechnicalInterruption
  <2> QED BY <2>1, <2>5
<1>8. ASSUME Resumes
      PROVE  after = T!StartResumeCountdown(before) /\ T!CanResume(before)
  BY <1>8, ResumeSeen DEF Resumes
<1>9. ASSUME Focuses PROVE after \in T!SetFocused(before, after.focused)
  <2>1. PICK d \in Times : engine' \in SetFocused(engine, d, ~engine.focused)
    BY <1>9 DEF Focuses
  <2> DEFINE focus == ~engine.focused
  <2>2. PICK k \in AdvanceTo(engine, d) : engine' = FocusTrainer(k, focus)
    BY <2>1 DEF SetFocused
  <2>3. RunInv(k) /\ Abstract(k) \in T!AdvanceTo(before) /\ focus \in BOOLEAN
    BY <1>1, <2>1, <2>2, AdvanceSeen
  <2> HIDE DEF focus
  <2>4. after = T!FocusTrainer(Abstract(k), focus) /\ engine'.focused = focus
    BY <2>2, <2>3, FocusSeen
  <2>5. after.focused = engine'.focused
    BY SeenIs, SeenFields
  <2> HIDE DEF before, after
  <2>6. after \in T!SetFocused(before, focus)
    BY <2>3, <2>4 DEF T!SetFocused
  <2> QED BY <2>4, <2>5, <2>6
<1> HIDE DEF before, after
<1> QED BY <1>1, <1>4, <1>5, <1>6, <1>7, <1>8, <1>9 DEF TimelineNext, Start

LEMMA StartSeen ==
  ASSUME engine = NewEngine, engine' = StartBlockCountdown(NewEngine)
  PROVE  TrainerStep
<1> DEFINE before == Abstract(engine)
           after == Abstract(engine')
<1>1. /\ engine'.state = "countdown" /\ Fresh(engine') /\ engine'.index = 0
      /\ engine'.events = <<>> /\ engine'.focused = TRUE /\ engine'.reason = "none"
  BY StartKeeps
<1>2. /\ engine.state = "idle" /\ engine.index = 0
      /\ engine.events = <<>> /\ engine.focused = TRUE /\ engine.reason = "none"
  BY DEF NewEngine
<1>3. before = Seen("idle", Fresh(engine), engine.focused, "none", Len(engine.events), 0)
  BY <1>2, SeenIs
<1>4. after = Seen("countdown", Fresh(engine'), engine'.focused, "none", Len(engine'.events), 0)
  BY <1>1, SeenIs
<1>5. engine'.focused = engine.focused /\ Len(engine'.events) = Len(engine.events)
  BY <1>1, <1>2
<1>6. Fresh(engine') = TRUE
  BY <1>1, SeenIs
<1>7. T!StartTrainer(before) = [before EXCEPT !.state = "countdown", !.fresh = TRUE]
  BY DEF T!StartTrainer, T!StartBlockCountdown
<1>8. before.state = "idle"
  BY <1>3, SeenFields
<1> DEFINE v == [before EXCEPT !.state = "countdown"]
<1>9. T!StartTrainer(before) = [v EXCEPT !.fresh = TRUE]
  BY <1>7
<1>10. v = Seen("countdown", Fresh(engine), engine.focused, "none", Len(engine.events), 0)
  BY <1>3, SeenState
<1> HIDE DEF v
<1>11. [v EXCEPT !.fresh = Fresh(engine')] =
         Seen("countdown", Fresh(engine'), engine.focused, "none", Len(engine.events), 0)
  <2> DEFINE new == Fresh(engine')
  <2> HIDE DEF new
  <2>1. [v EXCEPT !.fresh = new] =
          Seen("countdown", new, engine.focused, "none", Len(engine.events), 0)
    BY <1>10, SeenFresh
  <2> QED BY <2>1 DEF new
<1>12. [v EXCEPT !.fresh = TRUE] = [v EXCEPT !.fresh = Fresh(engine')]
  BY ONLY <1>6, Zenon
<1> HIDE DEF before, after
<1>13. after = T!StartTrainer(before)
  BY <1>4, <1>5, <1>9, <1>11, <1>12
<1> QED BY <1>8, <1>13 DEF TrainerStep, before, after

\* The timed trainer implements TrainerEngine, with which the recording session is
\* modelled, under the mapping Abstract.
THEOREM TimelineImplementsTrainer == TimelineSpec => ImplementsTrainer
<1>1. EngineInOrder /\ [TimelineNext]_engine => [TrainerStep]_engine
  <2> SUFFICES ASSUME EngineInv(engine), TimelineNext PROVE TrainerStep
    BY DEF EngineInOrder
  <2>1. CASE RunInv(engine)
    BY <2>1, StepsSeen
  <2>2. CASE engine = NewEngine
    <3>1. engine.state = "idle"
      BY <2>2, NewEngineIsIdle
    <3>2. Start
      BY <3>1 DEF TimelineNext, Ticks, Presented, RawInput, Pauses, Resumes, Focuses, CanResume
    <3>3. engine' = StartBlockCountdown(NewEngine)
      BY <2>2, <3>2 DEF Start, StartTrainer
    <3> QED BY <2>2, <3>3, StartSeen
  <2> QED BY <2>1, <2>2 DEF EngineInv
<1> QED BY <1>1, EngineIsInvariant, PTL DEF TimelineSpec, ImplementsTrainer
==============================================================================
