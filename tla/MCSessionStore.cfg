SPECIFICATION StoreSpec

CONSTANTS
  Launches = {l1, l2, l3}
  MaxRecords = 1

INVARIANT SealedIsTrue
INVARIANT RecoveryIsAlone
INVARIANT LaunchRepairs
PROPERTY RecordsSurvive
PROPERTY ImplementsPublication
