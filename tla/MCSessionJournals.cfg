SPECIFICATION JournalSpec

CONSTANTS
  TrainerEvents <- Events
  BlockResults <- Blocks
  MaxEvents = 2
  MaxLines = 1

INVARIANT RecoveryKeepsCheckpoints
INVARIANT RecordsAreAccountedFor
INVARIANT WitnessNeverGates
