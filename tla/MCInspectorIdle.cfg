CONSTANTS
  Callers = {a, b}
  MaxEngines = 3
SPECIFICATION InspectorSpec
INVARIANT IdleEngineCloses
CHECK_DEADLOCK FALSE
