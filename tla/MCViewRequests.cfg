CONSTANTS
  Calls = {describe}
  Describes = {describe}
  MaxMounts = 2
  MaxReports = 1
  MaxUpdates = 1
SPECIFICATION Spec
INVARIANTS NothingIsLeftBehind DiagnosticsAgree
PROPERTY RequestsEnd
CHECK_DEADLOCK FALSE
