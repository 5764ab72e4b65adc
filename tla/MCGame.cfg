SPECIFICATION MCSpec
CONSTANTS
  NumMemList = 11
  Type <- MCType
  Size <- MCSize
  Rank <- MCRank
  BankId <- MCBankId
  MemSize = 6
  FirstPart = 21
  LastPart = 22
  MemListParts <- MCMemListParts
  Demanded <- MCDemanded
  PartIds <- MCPartIds
  Instruments <- MCInstruments
  Played = {3, 6}
  PaletteIds <- MCPaletteIds
INVARIANTS
  LoadedIntact
  NoGaps
  SegmentsIntact
  HeldIsIntact
PROPERTIES
  LoadingEnds
  ImplementsResourceStore
  ColoursOfThePart
