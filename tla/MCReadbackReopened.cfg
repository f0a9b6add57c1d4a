CONSTANTS
  Failures = {"resolve", "render", "mount", "view"}
  MaxMounts = 2
  MaxInput = 1
  MaxUpdates = 0
  MaxCalls = 0
  MaxWire = 1
SPECIFICATION Spec
PROPERTY SettledIsFinal
CHECK_DEADLOCK FALSE
