CONSTANTS
  source = source
  shown = shown
  other = other
  Channels <- MCChannels
  Cells <- Three
  Upstream <- ShownUsesBoth
  Selected <- Two
  Exposing = {source, other}
  Apart = {source}
  Views = {source}
  Generators = {other}
  Broken = {}
  Marred = {shown}
  InputRoots <- ShownInput
  Ownable = {}
  Surprises = {"write fails", "override"}
  MaxChanges = 2
SPECIFICATION Spec
INVARIANTS PendingMeansEvaluating ResultsMatchOutcomes
PROPERTY EventuallySettled
CHECK_DEADLOCK FALSE
