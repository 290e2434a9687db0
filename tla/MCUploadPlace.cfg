SPECIFICATION PlaceSpec
CONSTANTS
  PageSize = 8
  Limit = 24
  Owned = {1, 2}
  MaxEntries = 3
  Tables <- ProperTables
INVARIANTS EverythingInPlace LoaderKeepsItsZeroPage
