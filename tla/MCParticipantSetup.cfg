SPECIFICATION SetupSpec
CONSTANTS
  Streams <- MCStreams
  Endpoints = {1, 2}
  Hint <- MCHint
  Routes <- MCRoutes
  Chunks = {"burst", "glimpse", "header", "noise"}
  Seen <- MCSeen
  End <- MCEnd
  MaxChunks = 1
  SourceMax = 1
  Inventories <- MCInventories
  MaxChecks = 2

INVARIANT CertifiedIsEarned
INVARIANT ProbeAndFlowAgree
INVARIANT ProbeLeavesNothing
PROPERTY CheckEnds
