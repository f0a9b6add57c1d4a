CONSTANTS
  a = a
  b = b
  v1 = v1
  v2 = v2
  file = file
  SharedNames <- Two
  Values = {1, 2}
  Local = {}
  Views = {v1}
  Default = 0
  MaxUpdates = 2
  MaxInputs = 2
  MaxMounts = 1
SPECIFICATION SharedSpec
INVARIANT RepeatedUpdateApplies
CHECK_DEADLOCK FALSE
