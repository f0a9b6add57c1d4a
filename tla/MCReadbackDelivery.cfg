CONSTANTS
  Failures = {}
  MaxMounts = 2
  MaxInput = 1
  MaxUpdates = 0
  MaxCalls = 1
  MaxWire = 1
SPECIFICATION Spec
PROPERTY PythonCatchesUp
PROPERTY ReadyEnds
PROPERTY SettledIsFinal
CHECK_DEADLOCK FALSE
