CONSTANTS
  file = file
  v1 = v1
  v2 = v2
  a = a
  b = b
  x = x
  y = y
  latest = latest
  pinned = pinned
  ring = ring
  free = free
  bound = bound
  other = other
  p = p
  q = q
  first = first
  second = second
  left = left
  right = right
SPECIFICATION Spec
SYMMETRY PartsSymmetry
INVARIANTS InputsAgree BindingsAreCurrent CachedAsDeclared NetworkPolicyHolds LeaseKeepsEngine
INVARIANTS FilesAreServed ValuesArrive GraphsAgree ComparesContents
PROPERTY SnapshotsAdvance
CHECK_DEADLOCK FALSE
