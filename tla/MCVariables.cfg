SPECIFICATION Spec
CONSTANTS
  Half = 4
  Targets = {"x"}
  Expected <- MCExpected
  FirstSymbol = "entered"
  Counters <- MCCounters
  MusMark = "mark"
  Moves <- MCMoves
  Words = {3, 6, 7}
  Bytes = {3}
  Shifts = {1, 5}
  Marks = {5}
  Parts = {"first", "cave", "last"}
  FirstPart = "first"
  LastPart = "last"
  Held <- MCHeld
INVARIANTS
  JumpsFollowOrder
PROPERTIES
  LoopsEnd
  ProtectionPasses
  LettersGo
