SPECIFICATION FairSpec
CONSTANTS
  Directions = {left}
  A = A
  C_up = C_up
  Start = Start
  Parts = {first, intro, cave, last}
  FirstPart = first
  IntroPart = intro
  LastPart = last
  NoPart = NoPart
  Slices = {1, 2}
  SliceTicks = 1
  MaxTicks = 2
INVARIANTS
  TypeOK
  InputTracks
PROPERTIES
  OnePressOneEffect
  FrameLives
  GameGoesOn
