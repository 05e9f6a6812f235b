--------------------------- MODULE TrainerTimeline ---------------------------
(***************************************************************************)
(* The trainer in time (trainer/TrainerEngine): deadlines, block time, the *)
(* dwell window, tails and the finalized events, over the generator of     *)
(* TargetProtocol. It implements TrainerEngine, the trainer the recording  *)
(* session is modelled with. Times are milliseconds relative to now: a     *)
(* deadline is what is left of it, a recorded moment is its age. Of the    *)
(* geometry only whether the camera is inside the target is kept.          *)
(***************************************************************************)
EXTENDS TargetProtocol, FiniteSets

CONSTANTS
  Plan,        \* block_ordinals_, strictly increasing
  BlockMs,     \* block_duration_ms of the configuration
  Draws,       \* ends of the sampled ranges that are drawn: "low", "high"
  Elapses,     \* times that may pass before a call while a target is live
  Movements,   \* magnitudes of a raw input packet, 0 among them
  MaxMoves,    \* bound: movements inside a target that a run keeps
  MaxEvents    \* bound: targets a run takes to their end; one more is prepared

ASSUME TimelineAssumption ==
  /\ BlockMs \in MinimumUsefulSpawn..BlockDuration
  /\ Draws \subseteq {"low", "high"}
  /\ Elapses \subseteq Nat /\ Movements \subseteq Nat /\ MaxEvents \in Nat /\ MaxMoves \in Nat
  /\ Plan \in Seq(DOMAIN Pattern) /\ Plan # <<>>
  /\ \A i, j \in DOMAIN Plan : i < j => Plan[i] < Plan[j]

VARIABLE engine

Countdown == 5000
Never     == -1          \* an empty optional

Outcomes == {"manual_pause", "display_changed"}

NoTarget == [event |-> Never]
NoLive   == [target |-> NoTarget]

NoPlan   == [scored |-> FALSE, ends |-> FALSE, tail |-> TailOf(0, 0, 0), delay |-> 0]

\* active_: the age of the event, since when the camera is inside, the
\* movements while inside, and after the resolution how long ago it was and how
\* long ago the mouse last moved.
Live(target, inside) ==
  [target |-> target, age |-> 0, inside |-> IF inside THEN 0 ELSE Never,
   streak |-> 0, moves |-> <<>>, natural |-> "none", resolved |-> Never,
   quiet |-> 0, plan |-> NoPlan]

NewResult(ordinal) == [block |-> ordinal, score |-> 0, events |-> 0,
                       technical |-> 0, consumed |-> 0, completed |-> FALSE]

NewEngine ==
  [state |-> "idle", reason |-> "none", focused |-> TRUE, countdown |-> 0, left |-> 0,
   delay |-> 0, index |-> 0, over |-> FALSE, pending |-> NoTarget, live |-> NoLive,
   generator |-> NewGenerator, events |-> <<>>, results |-> <<>>, refused |-> FALSE]

\* What the code refuses by throwing.
Refuse(e) == [e EXCEPT !.refused = TRUE]

Consumes(e) == e.state \in {"event_active", "event_tail", "inter_target_delay"}

NotBelowZero(n) == IF n < 0 THEN 0 ELSE n
Least(a, b)     == IF a <= b THEN a ELSE b
Greatest(a, b)  == IF a >= b THEN a ELSE b
Aged(age, d)    == IF age = Never THEN Never ELSE age + d

\* The live event some time later.
OlderMoves(moves, d) == [i \in DOMAIN moves |-> [moves[i] EXCEPT !.age = @ + d]]

Older(l, d) ==
  IF l = NoLive THEN NoLive
  ELSE [l EXCEPT !.age = @ + d, !.inside = Aged(@, d), !.moves = OlderMoves(@, d),
                 !.resolved = Aged(@, d), !.quiet = @ + d]

MoveClockTo(e, d) ==
  [e EXCEPT !.left = IF Consumes(e) THEN NotBelowZero(@ - d) ELSE @,
            !.countdown = NotBelowZero(@ - d), !.delay = NotBelowZero(@ - d),
            !.live = Older(@, d)]

(***************************************************************************)
(* The dwell window. A dwell hit needs the camera inside for the required  *)
(* time and then a window of DwellQuietWindow in which it moved by no more *)
(* than DwellQuietSum; only movement after the required time counts.       *)
(***************************************************************************)
Dwelling(e) ==
  e.state = "event_active" /\ e.live.target.dwell > 0 /\ e.live.inside # Never

\* What the movements of a window add up to.
SumOfMoves(l, window) ==
  LET sum[n \in 0..Len(l.moves)] ==
        IF n = 0 THEN 0
        ELSE IF n \in window THEN sum[n - 1] + l.moves[n].size ELSE sum[n - 1]
  IN sum[Len(l.moves)]

Quiet(l, window) == SumOfMoves(l, window) <= DwellQuietSum

\* Movements of the window that ends at a moment, given how far off it is.
InWindow(l, moment) ==
  LET satisfied == l.target.dwell - l.inside
      at(i) == -l.moves[i].age
  IN {i \in DOMAIN l.moves :
        at(i) > satisfied /\ at(i) > moment - DwellQuietWindow /\ at(i) <= moment}

\* The first movement after which the rest of the window is quiet.
LastLoud(l, window) ==
  CHOOSE k \in window : /\ Quiet(l, {j \in window : j > k})
                        /\ \A i \in window : i < k => ~Quiet(l, {j \in window : j > i})

\* A window that is not quiet moves on to the moment that movement leaves it.
Later(l, candidate) ==
  LET window == InWindow(l, candidate)
      expiry == DwellQuietWindow - l.moves[LastLoud(l, window)].age
  IN IF Quiet(l, window) \/ expiry <= candidate THEN candidate ELSE expiry

\* The loop makes one round more than there are movements.
QuietFrom(l, earliest) ==
  LET rounds == Len(l.moves) + 1
      candidate[n \in 0..rounds] ==
        IF n = 0 THEN earliest ELSE Later(l, candidate[n - 1])
  IN candidate[rounds]

\* Mutant: movement does not delay the hit.
FirstFullWindow(l) == l.target.dwell - l.inside + DwellQuietWindow

NextDwellCompletion(l) == QuietFrom(l, l.target.dwell - l.inside + DwellQuietWindow)

TailLeft(l) ==
  Least(Greatest(l.plan.tail.minimum - l.resolved, l.plan.tail.settle - l.quiet),
        l.plan.tail.maximum - l.resolved)

EventDeadline(e) ==
  LET boundary == Least(e.left, e.live.target.timeout - e.live.age)
  IN IF Dwelling(e) THEN Least(boundary, NextDwellCompletion(e.live)) ELSE boundary

NextDeadline(e) ==
  CASE e.state = "countdown"          -> e.countdown
    [] e.state = "event_active"       -> NotBelowZero(EventDeadline(e))
    [] e.state = "event_tail"         -> NotBelowZero(TailLeft(e.live))
    [] e.state = "inter_target_delay" -> NotBelowZero(Least(e.delay, e.left))
    [] OTHER                          -> Never

(***************************************************************************)
(* Blocks.                                                                 *)
(***************************************************************************)
\* Blocks the plan leaves out are begun and ended at once; what is left of them is
\* what the last one leaves.
SkipTo(g, ordinal) ==
  IF g.expected >= ordinal THEN g
  ELSE EndBlock(BeginBlock([g EXCEPT !.expected = ordinal - 1], ordinal - 1))

StartBlockCountdown(e) ==
  LET ordinal == Plan[e.index + 1]
      g == SkipTo(e.generator, ordinal)
  IN IF ~CanBeginBlock(g, ordinal) THEN Refuse(e)
     ELSE [e EXCEPT !.generator = BeginBlock(g, ordinal),
                    !.results = Append(@, NewResult(ordinal)),
                    !.left = BlockMs, !.delay = 0,
                    !.countdown = Countdown, !.state = "countdown"]

CompleteBlock(e) ==
  LET done == [e EXCEPT !.results[Len(e.results)].consumed = BlockMs - e.left,
                        !.results[Len(e.results)].completed = TRUE,
                        !.left = 0, !.delay = 0, !.index = @ + 1,
                        !.generator = EndBlock(@)]
  IN IF e.live # NoLive \/ e.pending # NoTarget \/ ~CanEndBlock(e.generator) THEN Refuse(e)
     ELSE IF done.index >= Len(Plan) THEN [done EXCEPT !.state = "complete"]
          ELSE StartBlockCountdown(done)

(***************************************************************************)
(* Targets.                                                                *)
(***************************************************************************)
\* The bound on events ends the behaviours that would pass it.
PrepareTarget(e) ==
  LET g == e.generator
  IN IF e.pending # NoTarget \/ e.live # NoLive \/ ~CanGenerate(g, e.left) THEN {Refuse(e)}
     ELSE IF Len(e.events) > MaxEvents THEN {}
     ELSE {[e EXCEPT !.pending = Target(g.current, g.index, g.nextSmall,
                                        Len(e.events), end),
                     !.generator = Generate(g), !.over = FALSE,
                     !.delay = 0, !.state = "awaiting_presentation"] : end \in Draws}

\* With too little time for another target the block waits for its end.
WaitForBlockEnd(e) == [e EXCEPT !.state = "inter_target_delay", !.delay = e.left]

FinishCountdown(e) ==
  IF CanSpawnTargetV1(e.left) THEN PrepareTarget(e)
  ELSE IF e.left = 0 THEN {CompleteBlock(e)} ELSE {WaitForBlockEnd(e)}

CloseInsideInterval(l) ==
  [l EXCEPT !.streak = IF l.inside = Never THEN @ ELSE Greatest(@, l.inside),
            !.inside = Never]

ResolveNatural(e, outcome, resolution) ==
  LET plan == ResolutionPlan(e.live.target, resolution)
  IN IF e.live.natural # "none" \/ ~CanResolve(e.generator, e.live.target, resolution)
       THEN Refuse(e)
     ELSE [e EXCEPT !.live = [CloseInsideInterval(@) EXCEPT
                                !.natural = outcome, !.plan = plan,
                                !.resolved = 0, !.quiet = 0],
                    !.generator = Resolve(@, e.live.target, resolution),
                    !.results[Len(e.results)].score = @ + (IF plan.scored THEN 1 ELSE 0),
                    !.state = "event_tail"]

\* Mutant: an event whose tail is interrupted loses its hit.
FinalizedUnscored(target, l, technical) ==
  LET natural == IF l = NoLive THEN "none" ELSE l.natural
      ended   == natural # "none" /\ technical = "none"
  IN [target |-> target, technical |-> technical, presented |-> l # NoLive,
      natural |-> natural, scored |-> ended /\ l.plan.scored,
      streak  |-> IF natural = "hit_dwell" THEN l.streak ELSE Never,
      tail    |-> IF ended THEN l.resolved ELSE Never,
      quiet   |-> IF ended THEN l.quiet ELSE Never]

\* The record of an event, with those of its times that its outcome rests on.
Finalized(target, l, technical) ==
  LET natural == IF l = NoLive THEN "none" ELSE l.natural
      ended   == natural # "none" /\ technical = "none"
  IN [target |-> target, technical |-> technical, presented |-> l # NoLive,
      natural |-> natural, scored |-> natural # "none" /\ l.plan.scored,
      streak  |-> IF natural = "hit_dwell" THEN l.streak ELSE Never,
      tail    |-> IF ended THEN l.resolved ELSE Never,
      quiet   |-> IF ended THEN l.quiet ELSE Never]

StoreFinalizedEvent(e, event) ==
  [e EXCEPT !.events = Append(@, event), !.pending = NoTarget, !.live = NoLive,
            !.results[Len(e.results)].events = @ + 1,
            !.results[Len(e.results)].technical =
               @ + (IF event.technical = "none" THEN 0 ELSE 1)]

FinalizeNaturalTail(e) ==
  LET stored == StoreFinalizedEvent(e, Finalized(e.live.target, e.live, "none"))
  IN IF e.live.plan.ends \/ e.left = 0 THEN CompleteBlock(stored)
     ELSE [stored EXCEPT !.state = "inter_target_delay", !.delay = e.live.plan.delay]

\* Mutant: an event in its tail is aborted in the generator as well.
InterruptAborts(e, outcome) ==
  LET target == IF e.state = "awaiting_presentation" THEN e.pending ELSE e.live.target
      stored == StoreFinalizedEvent(e, Finalized(target, e.live, outcome))
  IN IF ~CanAbort(e.generator) THEN Refuse(e)
     ELSE [stored EXCEPT !.generator = AbortTechnical(@)]

\* A pending target and an active one are aborted in the generator; an event in
\* its tail was resolved there already.
FinalizeForTechnicalInterruption(e, outcome) ==
  LET target == IF e.state = "awaiting_presentation" THEN e.pending ELSE e.live.target
      stored == StoreFinalizedEvent(e, Finalized(target, e.live, outcome))
  IN IF e.state = "event_tail" THEN stored
     ELSE IF ~CanAbort(e.generator) THEN Refuse(e)
     ELSE [stored EXCEPT !.generator = AbortTechnical(@)]
------------------------------------------------------------------------------
(***************************************************************************)
(* Time. A deadline is processed at its own moment; the results are a set, *)
(* for the targets the generator may draw.                                 *)
(***************************************************************************)
ProcessDeadline(e) ==
  CASE e.state = "countdown" -> FinishCountdown(e)
    [] e.state = "event_active" ->
         {IF Dwelling(e) /\ NextDwellCompletion(e.live) <= 0
            THEN ResolveNatural(e, "hit_dwell", "dwell_hit")
          ELSE IF e.left = 0
            THEN ResolveNatural(e, "challenge_end_timeout", "challenge_end_timeout")
          ELSE ResolveNatural(e, "timeout", "timeout")}
    [] e.state = "event_tail" -> {FinalizeNaturalTail(e)}
    [] e.state = "inter_target_delay" ->
         IF e.left = 0 THEN {CompleteBlock(e)}
         ELSE IF CanSpawnTargetV1(e.left) THEN PrepareTarget(e) ELSE {WaitForBlockEnd(e)}
    [] OTHER -> {e}

\* A call under way: the trainer so far, and the time left to the call.
Call(e, d) == [engine |-> e, time |-> d]

Due(c) ==
  LET next == NextDeadline(c.engine)
  IN ~c.engine.refused /\ next # Never /\ next <= c.time

Transition(c) ==
  LET next == NextDeadline(c.engine)
  IN IF Due(c) THEN {Call(f, c.time - next) : f \in ProcessDeadline(MoveClockTo(c.engine, next))}
     ELSE {c}

Transitions(calls) == UNION {Transition(c) : c \in calls}

\* The code refuses a call after 128 transitions and one whose deadline does not
\* move; no call has more than five.
AdvanceTo(e, d) ==
  LET calls == Transitions(Transitions(Transitions(Transitions(Transitions({Call(e, d)})))))
  IN {IF Due(c) THEN Refuse(c.engine) ELSE MoveClockTo(c.engine, c.time) : c \in calls}

(***************************************************************************)
(* Operations. Before each the clock moves to the moment of the call.      *)
(***************************************************************************)
StartTrainer(e) == {StartBlockCountdown(e)}

AcknowledgeTargetPresented(e, d) ==
  {IF f.state # "awaiting_presentation" THEN f
   ELSE [f EXCEPT !.live = Live(f.pending, f.over), !.pending = NoTarget,
                  !.state = "event_active"] : f \in AdvanceTo(e, d)}

\* Where a packet leaves the camera, and what the event keeps of it.
UpdateActiveGeometry(l, size, inside) ==
  IF l.inside # Never /\ ~inside THEN [CloseInsideInterval(l) EXCEPT !.moves = <<>>]
  ELSE IF l.inside = Never /\ inside THEN [l EXCEPT !.inside = 0, !.moves = <<>>]
  ELSE IF inside /\ size > 0
         THEN [l EXCEPT !.moves = Append(@, [age |-> 0, size |-> size])]
  ELSE l

\* Either end of the packet's movement may hit.
Clicked(e, before) ==
  IF e.live.target.dwell > 0 THEN e
  ELSE IF before \/ e.over THEN ResolveNatural(e, "hit_click", "hit")
  ELSE IF e.live.target.behavior.missClickEnds
         THEN ResolveNatural(e, "miss_click", "miss_click")
  ELSE e

SubmitPacket(f, size, inside, click) ==
  LET over  == IF size = 0 THEN f.over ELSE inside
      moved == [f EXCEPT
        !.over = IF f.state \in {"awaiting_presentation", "event_active"} THEN over ELSE FALSE,
        !.live = IF f.state = "event_active" THEN UpdateActiveGeometry(@, size, over)
                 ELSE IF f.state = "event_tail" /\ size > 0 THEN [@ EXCEPT !.quiet = 0]
                 ELSE @]
  IN IF click /\ f.state = "event_active" THEN Clicked(moved, f.over) ELSE moved

SubmitRawInput(e, d, size, inside, click) ==
  {SubmitPacket(f, size, inside, click) : f \in AdvanceTo(e, d)}

PauseInternal(e, outcome) ==
  IF e.state \in {"idle", "complete", "paused"} THEN e
  ELSE LET stored == IF e.state \in {"awaiting_presentation", "event_active", "event_tail"}
                       THEN FinalizeForTechnicalInterruption(e, outcome) ELSE e
       IN [stored EXCEPT !.state = "paused", !.countdown = 0, !.delay = 0,
                         !.reason = outcome]

PauseForTechnicalInterruption(e, d, outcome) ==
  {PauseInternal(f, outcome) : f \in AdvanceTo(e, d)}

CanResume(e) == e.state = "paused" /\ e.focused

StartResumeCountdown(e) ==
  IF ~CanResume(e) THEN Refuse(e)
  ELSE [e EXCEPT !.reason = "none", !.countdown = Countdown, !.state = "countdown"]

\* Mutant: the focus coming back ends whatever pause there is.
FocusResumesAlways(e, focus) ==
  LET f == [e EXCEPT !.focused = focus]
  IN IF e.focused = focus THEN e
     ELSE IF ~focus THEN PauseInternal(f, "focus_lost")
     ELSE IF f.state = "paused" THEN StartResumeCountdown(f) ELSE f

FocusTrainer(e, focus) ==
  LET f == [e EXCEPT !.focused = focus]
  IN IF e.focused = focus THEN e
     ELSE IF ~focus THEN PauseInternal(f, "focus_lost")
     ELSE IF f.state = "paused" /\ f.reason = "focus_lost" THEN StartResumeCountdown(f)
     ELSE f

SetFocused(e, d, focus) == {FocusTrainer(f, focus) : f \in AdvanceTo(e, d)}
------------------------------------------------------------------------------
(***************************************************************************)
(* The trainer used in every order its owner may use it in. Before a call  *)
(* no time, exactly the time to the next deadline, or while a target is    *)
(* live some other time passes.                                            *)
(***************************************************************************)
Times == (IF engine.live = NoLive THEN {0} ELSE Elapses)
           \cup ({NextDeadline(engine)} \ {Never})

TimelineInit == ValidateProtocolV1 /\ engine = NewEngine

Start == engine.state = "idle" /\ engine' \in StartTrainer(engine)

Ticks == engine.state # "idle" /\ \E d \in Times : engine' \in AdvanceTo(engine, d)

Presented ==
  /\ engine.state = "awaiting_presentation" /\ Len(engine.events) < MaxEvents
  /\ \E d \in Times : engine' \in AcknowledgeTargetPresented(engine, d)

RawInput ==
  /\ engine.state # "idle"
  /\ engine.live # NoLive => Len(engine.live.moves) < MaxMoves
  /\ \E d \in Times, size \in Movements, click \in BOOLEAN :
       \E inside \in IF size = 0 THEN {engine.over} ELSE BOOLEAN :
          engine' \in SubmitRawInput(engine, d, size, inside, click)

Pauses ==
  /\ engine.state \notin {"idle", "complete"}
  /\ \E d \in Times, outcome \in Outcomes :
        engine' \in PauseForTechnicalInterruption(engine, d, outcome)

Resumes == CanResume(engine) /\ engine' = StartResumeCountdown(engine)

Focuses ==
  /\ engine.state # "idle"
  /\ \E d \in Times : engine' \in SetFocused(engine, d, ~engine.focused)

TimelineNext == Start \/ Ticks \/ Presented \/ RawInput \/ Pauses \/ Resumes \/ Focuses

TimelineSpec == TimelineInit /\ [][TimelineNext]_engine
------------------------------------------------------------------------------
(***************************************************************************)
(* Properties.                                                             *)
(***************************************************************************)
\* No order of calls makes the trainer ask the generator for something it
\* refuses, or resolve an event twice: the two state machines stay in step.
GeneratorNeverRefuses ==
  /\ ~engine.refused
  /\ engine.generator.targetActive <=>
       engine.state \in {"awaiting_presentation", "event_active"}
  /\ engine.generator.endPending => engine.left = 0

\* The journal accepts every target the trainer hands it (ValidateEvent), at whatever
\* sensitivity was locked: what the protocol promises, refuted at the coarse ones below.
TargetsAreAccepted ==
  \A i \in DOMAIN engine.events : RealizedTargetAccepted(engine.events[i].target)

\* The sensitivities the protocol accepts (0.01 to 0.31, 0.34 and 0.38) at which a target
\* drawn from the exact range of its radius can lie outside the rounded one the journal
\* validates against: one count at sensitivity 1 is then several counts.
CoarseSensitivities == 1..31 \cup {34, 38}

\* At every other sensitivity the journal accepts every target the trainer hands it.
AcceptedUnlessCoarse == Sensitivity \notin CoarseSensitivities => TargetsAreAccepted

\* The rolling dwell window (NextDwellCompletionQpc) finds the first moment from
\* which the camera has been inside long enough and then quiet.
DwellEndsAtFirstQuiet ==
  Dwelling(engine) =>
    LET l == engine.live
        earliest == l.target.dwell - l.inside + DwellQuietWindow
        found == NextDwellCompletion(l)
    IN /\ found >= earliest /\ Quiet(l, InWindow(l, found))
       /\ \A moment \in earliest..(found - 1) : ~Quiet(l, InWindow(l, moment))

\* Whatever interrupted it, an event recorded as a dwell hit was held for the
\* time its target required and the quiet window; a natural tail lasts its
\* minimum and no more than its maximum, and ends early only when settled.
EventsAreEarned ==
  \A i \in DOMAIN engine.events :
    LET e == engine.events[i]
        tail == ResolutionPlan(e.target, IF e.scored THEN "hit" ELSE "timeout").tail
    IN /\ e.natural = "hit_dwell" => e.streak >= e.target.dwell + DwellQuietWindow
       /\ e.natural # "none" /\ e.technical = "none" =>
            /\ tail.minimum <= e.tail /\ e.tail <= tail.maximum
            /\ e.tail < tail.maximum => e.quiet >= tail.settle

\* "reset hit or dwell_hit -> one small target; every other reset result and every
\* small result -> reset", across misses, timeouts, interruptions and pauses.
TickleAlternates ==
  LET fits(target, i) ==
        Pattern[target.block] = "tickle_fast" =>
          (target.role = "tickle_small" <=>
             /\ i > 1 /\ engine.events[i - 1].target.block = target.block
             /\ engine.events[i - 1].target.role = "tickle_reset"
             /\ engine.events[i - 1].scored)
      next == Len(engine.events) + 1
  IN /\ \A i \in DOMAIN engine.events : fits(engine.events[i].target, i)
     /\ engine.pending # NoTarget => fits(engine.pending, next)
     /\ engine.live # NoLive => fits(engine.live.target, next)

\* Trainer and generator agree about whether a target is out, and about its role.
GeneratorAgrees == GeneratorNeverRefuses /\ TickleAlternates

\* What the trainer, the generator and the journal each keep of a target agree: the
\* generator is never asked out of turn, roles alternate, and at every sensitivity
\* but the coarse ones, where CoarseIsRefused shows that it may not, the journal's
\* validation takes every target that was presented.
TargetsAgree == GeneratorAgrees /\ AcceptedUnlessCoarse

\* A block that completed used all of its time, however often it was paused, and
\* its score and counts are those of the events recorded for it.
ResultsAddUp ==
  \A i \in DOMAIN engine.results :
    LET r == engine.results[i]
        mine == {n \in DOMAIN engine.events : engine.events[n].target.block = r.block}
        scored == {n \in mine : engine.events[n].scored}
        cut == {n \in mine : engine.events[n].technical # "none"}
        open == i = Len(engine.results) /\ engine.live # NoLive /\ engine.live.plan.scored
    IN /\ r.completed => r.consumed = BlockMs
       /\ r.score = Cardinality(scored) + (IF open THEN 1 ELSE 0)
       /\ r.events = Cardinality(mine) /\ r.technical = Cardinality(cut)

\* Nothing is won for free, and the totals are those of what was won.
ResultsAreEarned == EventsAreEarned /\ ResultsAddUp

\* The trainer as the recording session sees it.
T == INSTANCE TrainerEngine WITH Blocks <- Len(Plan), MaxEvents <- MaxEvents + 1

\* No target of the current block was presented yet.
Fresh(e) ==
  LET block == Plan[Least(e.index + 1, Len(Plan))]
  IN /\ e.live = NoLive
     /\ \A i \in DOMAIN e.events :
           e.events[i].target.block = block => ~e.events[i].presented

Abstract(e) ==
  [state |-> e.state, fresh |-> Fresh(e), focused |-> e.focused, reason |-> e.reason,
   events |-> Len(e.events), blocks |-> e.index]

\* What an operation leaves behind, some operation of TrainerEngine leaves too.
TrainerStep ==
  LET before == Abstract(engine)
      after  == Abstract(engine')
  IN \/ after = T!StartTrainer(before) /\ before.state = "idle"
     \/ after \in T!SubmitRawInput(before) \cup T!AcknowledgeTargetPresented(before)
     \/ \E o \in Outcomes : after \in T!PauseForTechnicalInterruption(before, o)
     \/ after = T!StartResumeCountdown(before) /\ T!CanResume(before)
     \/ after \in T!SetFocused(before, after.focused)

\* Every step of the timed trainer is one of the trainer the recording session is
\* modelled with.
ImplementsTrainer == [][TrainerStep]_engine
=============================================================================
