CONSTANTS
  BANK_START = 1
  BANK_STOP = 4
  TickMod = 6
  MaxSleep = 2
SPECIFICATION TimingSpec
INVARIANTS TypeOK FrameMatchesSleeping WakesInTime
PROPERTIES EveryTaskRuns NeverWakesEarly
