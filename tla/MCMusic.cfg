SPECIFICATION MCSpec
CONSTANTS
  s1 = s1
  s2 = s2
  m1 = m1
  None = None
  NumChannels = 2
  Sounds = {s1, s2}
  Musics = {m1}
  Instruments <- MCInstruments
  Looping = {s1}
  Timers = {t1, t2}
  MusicChannels = {1}
  EffectChannels = {0}
  OrderTable = 2
  NumOrder <- MCNumOrder
  Rows = 2
  Positions <- MCPositions
INVARIANTS
  NothingStale
  TimersOwned
  ChannelsCoherent
  OrderIsOfMusic
PROPERTIES
  RemovedTwiceOnlyByLateStop
  SongsEnd
