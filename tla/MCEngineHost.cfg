CONSTANTS
  Requests = {sync, async}
  Async = {async}
  Importing = {async}
SPECIFICATION EngineSpec
INVARIANTS NoWaiterIsForgotten TimeoutStopsTheEngine
PROPERTIES CloseStopsTheIsolate RequestsEnd
CHECK_DEADLOCK FALSE
