CONSTANTS
  Names = {x, y}
  Calls = {first, second}
  MaxWrites = 2
  MaxFailures = 0
SPECIFICATION BindingsSpec
INVARIANT ReturnsCurrentBindings
CHECK_DEADLOCK FALSE
