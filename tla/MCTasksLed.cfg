CONSTANTS
  BANK_START = 1
  BANK_STOP = 5
  TickMod = 16
  MaxSleep = 7
  Programs <- CountersAndLed
  Screen <- ShortTexts
  Values = {v1}
  NoValue = NoValue
  BufferSize = 2
  LongSleep = 1
SPECIFICATION Spec

VIEW Relative

INVARIANT ScreenNeverMixesTasks
