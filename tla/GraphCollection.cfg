SPECIFICATION Spec
CONSTANTS
  Order <- FourFiles
  MaxInputs = 2
  MaxOddities = 1
  Rows = {5, 6, 7}
INVARIANTS
  OrderExact
  RefusedForCause
  TreeShown
