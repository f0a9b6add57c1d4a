CONSTANTS
  Objects = {1, 2, 3}
  Heaps <- MCHeaps
  Pairs <- MCPairs
  MaxDepth = 4
  MaxNodes = 5
SPECIFICATION Spec
INVARIANT TopologyIsPreserved
CHECK_DEADLOCK FALSE
