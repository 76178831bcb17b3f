SPECIFICATION Spec
CONSTANTS
  Null <- NullCell
  Key <- ThreeKeys
  MaxInsert = 4
INVARIANT PairsAligned
INVARIANT DestroyedOnce
PROPERTY ImplementsMap
CHECK_DEADLOCK FALSE
