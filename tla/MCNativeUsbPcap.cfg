SPECIFICATION NativeSpec
CONSTANTS
  MaxBytes = 4
  ReadChunkBytes = 2
  QueueBytes = 3
INVARIANTS
  UndeliveredIsQueued
  CleanEndLeavesNothing
PROPERTIES
  FirstFailureKept
  StopEndsReader
