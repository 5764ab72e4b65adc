SPECIFICATION FairSpec
CONSTANTS
  NumThreads = 2
  StackLimit = 7
  CodeSize = 2
  CallDepth = 0
  FirstPart <- MCFirstPart
  LastPart = 2
  PartIds = {2}
PROPERTIES
  JumpsAreMade
