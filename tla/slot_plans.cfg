CONSTANTS
  Nothing = Nothing
  N = 4
  MaxSlots = 5
  Stamp = 100
  Epoch = 1
  Subjects <- MCSubjects
  HalfMoved <- MCHalfMoved
SPECIFICATION Spec
INVARIANTS TypeOK ExceptNodeEnds
PROPERTIES ExceptNodeEmpties MergeNodeEmpties ReshardAllFills
