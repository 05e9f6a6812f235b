--------------------------- MODULE TargetProtocol ---------------------------
(***************************************************************************)
(* The challenge protocol (protocol/protocol_v1): the ordered blocks, the  *)
(* target generator with its lifecycle, and the validator every realized   *)
(* target passes on its way into the gameplay journal. Times are in        *)
(* milliseconds. A target keeps what the trainer and the validator read;   *)
(* the random placement is abstracted to the radii it can end with.        *)
(***************************************************************************)
EXTENDS Integers, SequencesExt

CONSTANT Sensitivity   \* the locked trainer sensitivity, in hundredths

ASSUME SensitivityAssumption == Sensitivity \in 1..300

MinimumUsefulSpawn == 250
NoTargetTimeout    == 600000
FadingGrace        == 60
DwellQuietWindow   == 40
DwellQuietSum      == 2
BlockDuration      == 60000

ChallengeDefinitionsV1 ==
  << <<"default_static", 3>>, <<"chain_links", 2>>, <<"tickle_fast", 3>>,
     <<"accuracy", 3>>, <<"precision_big", 1>>, <<"precision_small", 2>>,
     <<"dwell_control", 2>>, <<"overshoot_recovery", 2>>,
     <<"micro_adjustments", 1>>, <<"fast_flicker", 2>> >>

\* Number of blocks the first n definitions expand to.
BlocksBefore(n) ==
  FoldLeft(LAMBDA blocks, definition : blocks + definition[2], 0,
           SubSeq(ChallengeDefinitionsV1, 1, n))
BlockCount == BlocksBefore(Len(ChallengeDefinitionsV1))

\* OrderedBlocksV1: the pattern of every block, each definition repeated in turn.
Pattern == [ordinal \in 0..(BlockCount - 1) |->
              LET i == CHOOSE n \in DOMAIN ChallengeDefinitionsV1 :
                         BlocksBefore(n - 1) <= ordinal /\ ordinal < BlocksBefore(n)
              IN ChallengeDefinitionsV1[i][1]]

\* Every ordinal falls to one of the definitions.
ASSUME PatternAssumption ==
  \A ordinal \in DOMAIN Pattern : \E n \in DOMAIN ChallengeDefinitionsV1 :
     BlocksBefore(n - 1) <= ordinal /\ ordinal < BlocksBefore(n)

QuickTestBlockOrdinalsV1 ==
  {o \in DOMAIN Pattern : o = 0 \/ Pattern[o - 1] # Pattern[o]}

CanSpawnTargetV1(remaining) == remaining >= MinimumUsefulSpawn

(***************************************************************************)
(* Counts. A size at sensitivity 1 is a fraction <<n, d>>; the scale of    *)
(* the locked sensitivity is 100 / Sensitivity.                            *)
(***************************************************************************)
AtLeastOne(n) == IF n < 1 THEN 1 ELSE n

Rounded(f)  == (200 * f[1] + f[2] * Sensitivity) \div (2 * f[2] * Sensitivity)
\* The sample stays below the upper bound of its range.
RoundedBelow(f) ==
  (200 * f[1] + f[2] * Sensitivity - 1) \div (2 * f[2] * Sensitivity)

\* CountSpaceCalibrationForSensitivity refuses a margin below one count.
SpawnMargin == Rounded(<<5, 1>>)

\* floor(n * scale - 1/2) and ceil(n * scale + 1/2), at least one count.
FloorScaled(n) == AtLeastOne((200 * n - Sensitivity) \div (2 * Sensitivity))
CeilScaled(n)  == AtLeastOne((200 * n + 3 * Sensitivity - 1) \div (2 * Sensitivity))

(***************************************************************************)
(* Behaviour of a target once it is resolved.                              *)
(***************************************************************************)
TailOf(minimum, settle, maximum) ==
  [minimum |-> minimum, settle |-> settle, maximum |-> maximum]

DefaultBehavior ==
  [missClickEnds |-> FALSE, fade |-> 0, hitDelay |-> 300, missDelay |-> 500,
   timeoutDelay |-> 300, hitTail |-> TailOf(160, 60, 350),
   nonhitTail |-> TailOf(120, 60, 220)]

ValidTail(t) == /\ 0 <= t.minimum /\ t.minimum <= t.maximum
                /\ 0 <= t.settle  /\ t.settle  <= t.maximum

ValidateBehavior(b) ==
  /\ b.fade >= 0 /\ b.hitDelay >= 0 /\ b.missDelay >= 0 /\ b.timeoutDelay >= 0
  /\ ValidTail(b.hitTail) /\ ValidTail(b.nonhitTail)

(***************************************************************************)
(* BuildTarget: what each pattern realizes. A draw gives the role, the     *)
(* behaviour, the ranges the radius and the times of the target are        *)
(* sampled from and the attempts it may take; that an attempt finds a      *)
(* visible place within them is assumed.                                   *)
(***************************************************************************)
Always(n) == <<n, n>>

Draw(role, behavior, radius, timeouts, dwells, attempts) ==
  [role |-> role, behavior |-> behavior, radius |-> radius,
   timeouts |-> timeouts, dwells |-> dwells, attempts |-> attempts]

General(behavior, radius, attempts) ==
  Draw("general", behavior, radius, Always(NoTargetTimeout), Always(0), attempts)

Fading(role, behavior, radius, timeout, attempts) ==
  Draw(role, [behavior EXCEPT !.fade = timeout], radius, Always(timeout), Always(0), attempts)

DefaultStatic == General(DefaultBehavior, <<<<50, 1>>, <<850, 9>>>>, 128)

ChainLinks ==
  General([DefaultBehavior EXCEPT !.hitDelay = 150], <<<<35, 1>>, <<90, 1>>>>, 160)

TickleBehavior ==
  [DefaultBehavior EXCEPT !.hitDelay = 120, !.missDelay = 500, !.timeoutDelay = 500]

\* Mutant: the grace of a fading target is forgotten where it is drawn.
TickleResetUngraced ==
  Fading("tickle_reset", TickleBehavior, <<<<78, 1>>, <<325, 2>>>>, 270, 128)

TickleReset ==
  Fading("tickle_reset", TickleBehavior, <<<<78, 1>>, <<325, 2>>>>, 270 + FadingGrace, 128)

TickleSmall ==
  Draw("tickle_small", [TickleBehavior EXCEPT !.missClickEnds = TRUE],
       <<<<250, 13>>, <<700, 13>>>>, Always(NoTargetTimeout), Always(0), 128)

Accuracy ==
  General([DefaultBehavior EXCEPT !.missClickEnds = TRUE],
          <<<<250, 9>>, <<250, 3>>>>, 128)

Precision(small) ==
  Fading("general", DefaultBehavior,
         IF small THEN <<<<25, 1>>, <<70, 1>>>> ELSE <<<<60, 1>>, <<110, 1>>>>,
         (IF small THEN 450 ELSE 400) + FadingGrace, 128)

DwellControl ==
  Draw("general", [DefaultBehavior EXCEPT !.hitDelay = 250],
       <<<<50, 3>>, <<875, 12>>>>, Always(NoTargetTimeout), <<90, 130>>, 128)

OvershootRecovery ==
  Draw("general", [DefaultBehavior EXCEPT !.missClickEnds = TRUE, !.missDelay = 400,
                                          !.timeoutDelay = 400,
                                          !.hitTail = TailOf(180, 60, 400)],
       <<<<25, 1>>, <<275, 3>>>>, <<1200, 1600>>, Always(0), 160)

MicroAdjustments ==
  General([DefaultBehavior EXCEPT !.hitDelay = 200], <<<<15, 1>>, <<70, 1>>>>, 160)

FastFlicker ==
  Fading("general", [DefaultBehavior EXCEPT !.hitDelay = 275, !.timeoutDelay = 275],
         <<<<50, 1>>, <<350, 3>>>>, 450 + FadingGrace, 160)

DrawFor(pattern, nextSmall) ==
  CASE pattern = "default_static"     -> DefaultStatic
    [] pattern = "chain_links"        -> ChainLinks
    [] pattern = "tickle_fast"        -> IF nextSmall THEN TickleSmall ELSE TickleReset
    [] pattern = "accuracy"           -> Accuracy
    [] pattern = "precision_big"      -> Precision(FALSE)
    [] pattern = "precision_small"    -> Precision(TRUE)
    [] pattern = "dwell_control"      -> DwellControl
    [] pattern = "overshoot_recovery" -> OvershootRecovery
    [] pattern = "micro_adjustments"  -> MicroAdjustments
    [] pattern = "fast_flicker"       -> FastFlicker

\* The end of a range the random number falls on.
EndOf(end, range) == IF end = "low" THEN range[1] ELSE range[2]

\* make_target; the time left of the block, which CanGenerate has checked, is left
\* out. The radius is sampled, scaled and rounded to counts; the times
\* are whole milliseconds.
Target(ordinal, index, nextSmall, event, end) ==
  LET draw == DrawFor(Pattern[ordinal], nextSmall)
  IN [event |-> event, block |-> ordinal, index |-> index,
      role |-> draw.role, behavior |-> draw.behavior, attempts |-> draw.attempts,
      radius |-> AtLeastOne(IF end = "low" THEN Rounded(draw.radius[1])
                                           ELSE RoundedBelow(draw.radius[2])),
      timeout |-> EndOf(end, draw.timeouts), dwell |-> EndOf(end, draw.dwells)]

(***************************************************************************)
(* ValidateRealizedScenario: the same table, written a second time by the  *)
(* code for the evidence it is about to publish.                           *)
(***************************************************************************)
Scenario(role, behavior, low, high, timeouts, dwells, attempts) ==
  [role |-> role, behavior |-> behavior, low |-> low, high |-> high,
   timeouts |-> timeouts, dwells |-> dwells, attempts |-> attempts]

\* The scenario starts from no miss click and no fade.
Untimed(behavior, low, high, attempts) ==
  Scenario("general", behavior, low, high, {NoTargetTimeout}, {0}, attempts)

ScenarioFor(pattern, role) ==
  LET base == DefaultBehavior
      tickle == [base EXCEPT !.hitDelay = 120, !.timeoutDelay = 500]
      timed(b, r, low, high, timeout, attempts) ==
        Scenario(r, [b EXCEPT !.fade = timeout], low, high, {timeout}, {0}, attempts)
  IN CASE pattern = "default_static" -> Untimed(base, 50, 94, 128)
       [] pattern = "chain_links"    -> Untimed([base EXCEPT !.hitDelay = 150], 35, 90, 160)
       [] pattern = "tickle_fast"    ->
            IF role = "tickle_reset"
              THEN timed(tickle, "tickle_reset", 78, 163, 330, 128)
              ELSE Scenario("tickle_small", [tickle EXCEPT !.missClickEnds = TRUE],
                            19, 54, {NoTargetTimeout}, {0}, 128)
       [] pattern = "accuracy" ->
            Untimed([base EXCEPT !.missClickEnds = TRUE], 28, 83, 128)
       [] pattern = "precision_big"   -> timed(base, "general", 60, 110, 460, 128)
       [] pattern = "precision_small" -> timed(base, "general", 25, 70, 510, 128)
       [] pattern = "dwell_control"   ->
            Scenario("general", [base EXCEPT !.hitDelay = 250], 17, 73,
                     {NoTargetTimeout}, 90..130, 128)
       [] pattern = "overshoot_recovery" ->
            Scenario("general", [base EXCEPT !.missClickEnds = TRUE, !.missDelay = 400,
                                   !.timeoutDelay = 400, !.hitTail = TailOf(180, 60, 400)],
                     25, 92, 1200..1600, {0}, 160)
       [] pattern = "micro_adjustments" -> Untimed([base EXCEPT !.hitDelay = 200], 15, 70, 160)
       [] pattern = "fast_flicker" ->
            timed([base EXCEPT !.hitDelay = 275, !.timeoutDelay = 275], "general",
                  50, 117, 510, 160)

ValidateRealizedScenario(t) ==
  LET s == ScenarioFor(Pattern[t.block], t.role)
  IN /\ t.role = s.role /\ t.behavior = s.behavior /\ t.attempts <= s.attempts
     /\ t.timeout \in s.timeouts /\ t.dwell \in s.dwells
     /\ FloorScaled(s.low) <= t.radius /\ t.radius <= CeilScaled(s.high)

\* SerializeRealizedTargetJson refuses a target unless this holds, and
\* ParseRealizedTargetJson what does not serialize to itself.
RealizedTargetAccepted(t) ==
  /\ t.block \in DOMAIN Pattern /\ t.event >= 0 /\ SpawnMargin >= 1
  /\ t.timeout > 0 /\ t.dwell >= 0 /\ t.radius >= 1
  /\ ValidateBehavior(t.behavior)
  /\ ValidateRealizedScenario(t)

(***************************************************************************)
(* The generator. Every operation has a condition under which the code     *)
(* does it; otherwise it throws a ProtocolError.                           *)
(***************************************************************************)
NewGenerator == [blockActive |-> FALSE, targetActive |-> FALSE, endPending |-> FALSE,
                 expected |-> 0, current |-> 0, index |-> 0,
                 hasPrevious |-> FALSE, nextSmall |-> FALSE]

CanBeginBlock(g, ordinal) ==
  ~g.blockActive /\ ~g.targetActive /\ ordinal = g.expected /\ ordinal \in DOMAIN Pattern

BeginBlock(g, ordinal) ==
  [g EXCEPT !.blockActive = TRUE, !.endPending = FALSE, !.current = ordinal,
            !.index = 0, !.hasPrevious = FALSE, !.nextSmall = FALSE]

CanEndBlock(g) == g.blockActive /\ ~g.targetActive

EndBlock(g) ==
  [g EXCEPT !.blockActive = FALSE, !.endPending = FALSE, !.hasPrevious = FALSE,
            !.nextSmall = FALSE, !.expected = @ + 1]

\* ValidateContext.
CanGenerate(g, remaining) ==
  /\ g.blockActive /\ ~g.targetActive /\ ~g.endPending
  /\ 0 <= remaining /\ remaining <= BlockDuration /\ CanSpawnTargetV1(remaining)

Generate(g) == [g EXCEPT !.targetActive = TRUE, !.index = @ + 1]

Hits == {"hit", "dwell_hit"}

CanResolve(g, target, resolution) ==
  /\ g.blockActive /\ g.targetActive
  /\ resolution = "miss_click" => target.behavior.missClickEnds
  /\ resolution = "dwell_hit"  => target.dwell > 0
  /\ resolution = "hit"        => target.dwell = 0

ResolutionPlan(target, resolution) ==
  LET b == target.behavior
  IN [scored |-> resolution \in Hits, ends |-> resolution = "challenge_end_timeout",
      tail   |-> IF resolution \in Hits THEN b.hitTail ELSE b.nonhitTail,
      delay  |-> IF resolution \in Hits THEN b.hitDelay
                 ELSE IF resolution = "miss_click" THEN b.missDelay ELSE b.timeoutDelay]

\* Mutant: a small target follows every reset target.
ResolveAlternating(g, target, resolution) ==
  [g EXCEPT !.nextSmall = IF target.role = "tickle_reset" THEN TRUE
                          ELSE IF target.role = "tickle_small" THEN FALSE ELSE @,
            !.hasPrevious = TRUE,
            !.endPending = resolution = "challenge_end_timeout",
            !.targetActive = FALSE]

Resolve(g, target, resolution) ==
  [g EXCEPT !.nextSmall = IF target.role = "tickle_reset" THEN resolution \in Hits
                          ELSE IF target.role = "tickle_small" THEN FALSE ELSE @,
            !.hasPrevious = TRUE,
            !.endPending = resolution = "challenge_end_timeout",
            !.targetActive = FALSE]

CanAbort(g) == g.blockActive /\ g.targetActive

AbortTechnical(g) ==
  [g EXCEPT !.hasPrevious = FALSE, !.targetActive = FALSE,
            !.nextSmall = @ /\ Pattern[g.current] # "tickle_fast"]

(***************************************************************************)
(* ValidateProtocolV1, which the generator's constructor calls.            *)
(***************************************************************************)
ValidateProtocolV1 ==
  /\ Len(ChallengeDefinitionsV1) = 10 /\ BlockCount = 21
  /\ \A i, j \in DOMAIN ChallengeDefinitionsV1 :
        i # j => ChallengeDefinitionsV1[i][1] # ChallengeDefinitionsV1[j][1]
  /\ ValidateBehavior(DefaultBehavior)
  /\ CanSpawnTargetV1(250) /\ ~CanSpawnTargetV1(249)
=============================================================================
