SPECIFICATION FairSpec
CONSTANTS
  W = 6
  H = 3
  Colors = {0, 1, 8, 9}
  CharW = 2
  CharH = 2
  Strings <- MC_Strings
  TextPlaces <- MC_TextPlaces
  ShapeIds = {"rhombus", "bar", "hat", "bow", "point", "group"}
  Shapes <- MC_Shapes
  Zooms = {64, 96}
  Places <- MC_Places
  Palettes = {3}
  Group = 6
  Pictures <- MC_Pictures
  PageIds = {0, 2, 7, 254, 255}
  Sources = {0, 65, 128, 194, 254, 255}
  MaxInstructions = 2
INVARIANTS
  TypeOK
  EdgesMeet
PROPERTIES
  ImplementsScreen
  DrawingEnds
CHECK_DEADLOCK FALSE
