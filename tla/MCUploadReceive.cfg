SPECIFICATION Spec
CONSTANTS
  PageSize = 8
  Limit = 26
  Owned = {1, 2}
  MaxEntries = 3
  SumStep = 2
  AddressMod = 96
  Tables <- ProperTables
  Uploads <- BadOrSpoiled
INVARIANTS UploadTypeOK VerdictIsRight HandsOver ReadsOnlyWhatArrived
PROPERTIES EveryUploadEnds DisplayCatchesUp
