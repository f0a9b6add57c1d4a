CONSTANTS
  c1 = c1
  c2 = c2
  hidden = hidden
  display = display
  variable = variable
  Cells <- MCCells
  Selected <- MCSelected
  Channels <- MCChannels
  AffectedSets <- MCReachingSets
  MaxAttempt = 3
  MaxRevision = 2
  MaxGeneration = 2
SPECIFICATION Spec
SYMMETRY MCSymmetry
INVARIANT SettledIsCurrent
CHECK_DEADLOCK FALSE
