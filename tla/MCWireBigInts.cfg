CONSTANTS
  Texts = {"x", "long"}
  JsValues <- MCJsValues
  PyValues <- MCPyValues
  Budgets = {4, 9, 40}
  MaxDepth = 3
  Long = 5
SPECIFICATION Spec
INVARIANT EverythingIsReadable
CHECK_DEADLOCK FALSE
