CONSTANTS
  Requests = {async}
  Async = {async}
  Importing = {}
SPECIFICATION EngineSpec
INVARIANT CancellationClosesTheEngine
CHECK_DEADLOCK FALSE
