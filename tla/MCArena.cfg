CONSTANTS
  N = 4
  Value = {v1, v2}
  FREE_LIST_END = 99
SPECIFICATION Spec
INVARIANTS TypeOK FreeListIntact LenIsExact ValidateExact
PROPERTY ImplementsStore
