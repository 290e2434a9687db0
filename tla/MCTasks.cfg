CONSTANTS
  BANK_START = 1
  BANK_STOP = 5
  TickMod = 16
  MaxSleep = 7
  Programs <- CounterReaderWriter
  Screen <- CursorAndText
  Values = {v1, v2}
  NoValue = NoValue
  BufferSize = 3
  LongSleep = 1
SPECIFICATION Spec
INVARIANTS TaskTypeOK ScreenExclusion BufferExclusion ScreenShowsWhatWasSent
PROPERTIES BufferIsFifo
VIEW Relative
SYMMETRY ValueSymmetry
