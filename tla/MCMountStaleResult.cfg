CONSTANTS
  source = source
  shown = shown
  other = other
  Channels <- MCChannels
  Cells <- Two
  Upstream <- ShownUsesSource
  Selected <- Two
  Exposing = {source}
  Apart = {source}
  Views = {source}
  Generators = {}
  Broken = {}
  Marred = {}
  InputRoots <- EachInput
  Ownable = {}
  Surprises = {}
  MaxChanges = 2
SPECIFICATION Spec
INVARIANT OldWorkIsIgnored
CHECK_DEADLOCK FALSE
