CONSTANTS
  reader = reader
  rival = rival
  catalog = catalog
  Callers = {reader, rival, catalog}
  Coroutines = {reader, rival}
  Wanted <- OneCellOrBoth
  Reusing = {reader}
  None = None
  MaxEdits = 1
SPECIFICATION Spec
INVARIANTS SharedBySelection CancelledLeavesNothing NothingOutlivesTheNotebook
PROPERTY CancellationEnds
CHECK_DEADLOCK FALSE
