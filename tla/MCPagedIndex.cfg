CONSTANTS
  Ids = {1, 2, 3, 4, 5}
  PageSize = 2
SPECIFICATION Spec
INVARIANTS PagesPacked PositionsMatchSlots
PROPERTY ImplementsSet
