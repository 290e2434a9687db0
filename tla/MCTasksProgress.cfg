CONSTANTS
  BANK_START = 1
  BANK_STOP = 5
  TickMod = 16
  MaxSleep = 7
  Programs <- CounterReaderWriter
  Screen <- OneByte
  Values = {v1}
  NoValue = NoValue
  BufferSize = 2
  LongSleep = 1
SPECIFICATION FairSpec

PROPERTIES BufferProgress ScreenProgress
VIEW Relative

