CONSTANTS
  Failures = {"resolve", "render", "mount", "view"}
  MaxMounts = 2
  MaxInput = 0
  MaxUpdates = 1
  MaxCalls = 1
  MaxWire = 1
SPECIFICATION Spec
INVARIANT ReadyReflectsUpdates
PROPERTY InputNeverFalls
CHECK_DEADLOCK FALSE
