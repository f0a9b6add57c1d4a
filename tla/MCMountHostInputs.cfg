CONSTANTS
  source = source
  shown = shown
  other = other
  Channels <- MCChannels
  Cells <- Three
  Upstream <- ShownUsesSourceOnly
  Selected <- Three
  Exposing = {source, shown}
  Apart = {}
  Views = {}
  Generators = {}
  Broken = {other}
  Marred = {}
  InputRoots <- ShownInput
  Ownable = {source}
  Surprises = {}
  MaxChanges = 3
SPECIFICATION Spec
INVARIANT SettledMeansFresh
PROPERTY EventuallySettled
CHECK_DEADLOCK FALSE
