SPECIFICATION AudioSpec
CONSTANTS
  NumChannels = 1
  NumSamples = 2
  Rate = 11025
  Chunks <- MCChunks
  Frequencies = {5593, 10559}
  Volumes = {0, 255}
  Samples <- MCSamples
  Notes <- MCNotes
  Effects <- MCEffects
  Bytes <- MCBytes
INVARIANTS
  TypeOK
  ReadsInChunk
  NoClipping
  MixesUnheard
PROPERTIES
  SoundsEnd
