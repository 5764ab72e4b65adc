SPECIFICATION Spec
CONSTANTS
  NumThreads = 2
  StackLimit = 7
  CodeSize = 2
  CallDepth = 3
  FirstPart <- MCFirstPart
  LastPart <- MCLastPart
  PartIds <- MCPartIds
PROPERTIES
  SliceIsolation
