SPECIFICATION SessionSpec

CONSTANTS
  Blocks = 2
  MaxEvents = 2
  CaptureFaults <- MCFaults

INVARIANT SealTellsTheTruth
INVARIANT SealedJournalIsWhole
INVARIANT PlayIsGuarded
PROPERTY PauseOutlivesFocus
PROPERTY SessionEnds
