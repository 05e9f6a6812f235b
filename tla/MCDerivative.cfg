SPECIFICATION SessionSpec

CONSTANTS
  Blocks = 1
  MaxEvents = 1
  CaptureFaults <- MCFaults

INVARIANT DerivativesKeepSession
