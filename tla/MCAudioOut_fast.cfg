SPECIFICATION AudioSpec
CONSTANTS
  NumChannels = 1
  NumSamples = 2
  Rate = 11025
  Chunks <- MCWithoutLoop
  Frequencies = {31677}
  Volumes = {0, 32, 255}
  Samples <- MCSamples
  Notes <- MCNotes
  Effects <- MCEffects
  Bytes <- MCBytes
INVARIANTS
  ReadsInChunk
