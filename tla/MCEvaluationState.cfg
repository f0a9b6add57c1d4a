CONSTANTS
  c1 = c1
  c2 = c2
  hidden = hidden
  display = display
  variable = variable
  Cells <- MCCells
  Selected <- MCSelected
  Channels <- MCChannels
  AffectedSets <- MCAffectedSets
  MaxAttempt = 3
  MaxRevision = 3
  MaxGeneration = 2
SPECIFICATION Spec
SYMMETRY MCSymmetry
INVARIANTS PublishedIsAccepted ResultsAreCurrent SettlementIsCertain
PROPERTIES DisjointWorkSurvives ImplementsProgress
CHECK_DEADLOCK FALSE
