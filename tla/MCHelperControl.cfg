SPECIFICATION HelperSpec

CONSTANT WorkerReasons <- MCReasons

INVARIANT WriterIsKnown
PROPERTY ImplementsCaptureControl
PROPERTY HelperEndsUnforced
