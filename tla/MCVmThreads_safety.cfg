SPECIFICATION Spec
CONSTANTS
  NumThreads = 2
  StackLimit = 7
  CodeSize = 2
  CallDepth = 2
  FirstPart <- MCFirstPart
  LastPart <- MCLastPart
  PartIds <- MCPartIds
INVARIANTS
  FrameRunsEligible
PROPERTIES
  SliceIsolation
  ReturnsToCaller
  NoRequestCrossesParts
  ImplementsFrameScheduler
