SPECIFICATION TimelineSpec
CHECK_DEADLOCK FALSE

CONSTANTS
  Sensitivity = 37
  Plan <- TickleThenDwell
  BlockMs = 600
  Draws = {"low", "high"}
  Elapses = {0, 150}
  Movements = {2}
  MaxMoves = 2
  MaxEvents = 2

INVARIANT TargetsAgree
INVARIANT DwellEndsAtFirstQuiet
INVARIANT ResultsAreEarned
PROPERTY ImplementsTrainer
