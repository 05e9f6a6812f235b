SPECIFICATION WorkerSpec
CONSTANTS
  MaxBytes = 6
  ReadChunkBytes = 3
  QueueBytes = 4
  UnitBytes = 2
  Streams <- MCStreams
INVARIANTS
  ProductsFollowStream
  CompleteIsWhatIsPublished
PROPERTY RunReturns
