CONSTANTS
  source = source
  shown = shown
  other = other
  Channels <- MCChannels
  Cells <- Two
  Upstream <- ShownUsesSource
  Selected <- Two
  Exposing = {source}
  Apart = {source}
  Views = {source}
  Generators = {}
  Broken = {}
  Marred = {}
  InputRoots <- EachInput
  Ownable = {}
  Surprises = {"view fails"}
  MaxChanges = 2
SPECIFICATION Spec
INVARIANT PendingMeansEvaluating
CHECK_DEADLOCK FALSE
