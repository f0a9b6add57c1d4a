CONSTANTS
  source = source
  shown = shown
  other = other
  Channels <- MCChannels
  Cells <- Three
  Upstream <- ShownUsesSource
  Selected <- Three
  Exposing = {source}
  Apart = {}
  Views = {}
  Generators = {}
  Broken = {}
  Marred = {}
  InputRoots <- ShownInput
  Ownable = {}
  Reads = {read}
  Checkpoints = {checkpoint}
  MaxChanges = 0
SPECIFICATION Spec
PROPERTY RefusalsAreAccepted
CHECK_DEADLOCK FALSE
