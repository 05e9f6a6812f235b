SPECIFICATION AppSpec

CONSTANTS
  Blocks = 1
  MaxEvents = 1
  CaptureFaults = {}
  Interruptions = 1

INVARIANT ToldTheTruth
INVARIANT ClosedMeansSettled
INVARIANT FlowFollowsSession
PROPERTY CloseEnds
