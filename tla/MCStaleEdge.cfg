SPECIFICATION NativeSpec

CONSTANTS
  MaxBytes = 2
  ReadChunkBytes = 2
  QueueBytes = 3

INVARIANT CleanStopIsLossless
