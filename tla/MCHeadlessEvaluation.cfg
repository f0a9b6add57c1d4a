CONSTANTS
  source = source
  shown = shown
  other = other
  Channels <- MCChannels
  Cells <- Three
  Upstream <- ShownUsesBoth
  Selected <- Three
  Exposing = {source, other}
  Apart = {source}
  Views = {source}
  Generators = {}
  Broken = {}
  Marred = {}
  InputRoots <- ShownInput
  Ownable = {source, other}
  Reads = {read}
  Checkpoints = {checkpoint}
  MaxChanges = 1
SPECIFICATION Spec
INVARIANTS RecordsAgree
PROPERTIES ReadsAreCurrent ReadyIsFresh RequestsEnd
CHECK_DEADLOCK FALSE
