CONSTANTS
  c1 = c1
  c2 = c2
  n1 = n1
  a1 = a1
  a2 = a2
  Nothing = Nothing
  Calls <- MCCalls
  Names <- MCNames
  NodeIDs <- MCNodeIDs
  Addresses <- MCAddresses
  SeedNodes <- MCSeedNodes
  PageSize = 2
  Overlap = FALSE
SYMMETRY MCSymmetry
SPECIFICATION Spec
INVARIANTS TypeOK UnnamedNodesUnique PagesComplete
PROPERTIES ImplementsDirectory
