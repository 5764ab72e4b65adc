SPECIFICATION Spec
CONSTANTS
  Files <- MCFiles
  Memory = 43
INVARIANTS
  BitsInOrder
  RestoresPlain
  InPlace
CHECK_DEADLOCK FALSE
