SPECIFICATION AfterSessionSpec

CONSTANTS
  BinWidth = 3
  MinInt <- Smallest
  MaxInt = 13
  Timestamps <- Instants
  Moves <- OneDown
  Increments <- Increases
  Origins <- Persisted
  MaxReports = 4
  Exporters = {"first", "second"}
  Outputs <- SomeOutputs
  Sources <- SomeSources
  Session <- TheSource
  Standing <- Already
  MayDie = TRUE

CHECK_DEADLOCK FALSE

INVARIANT RowsAreExact
INVARIANT UncertaintyIsMarked
INVARIANT PublishedIsWhole
INVARIANT FailuresLeaveNothing
PROPERTY PublishedStays
