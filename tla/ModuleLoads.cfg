SPECIFICATION LoadsSpec
CONSTANTS
  File <- MCFile
  Imports <- MCImports
  Width = 1
  MfeEntry <- MCMfeEntry
  Together <- MCPages
  Handler <- MCHandler
  Exposed <- MCExposed
  Lazy <- MCLazy
  Shared <- MCShared
  SharedUrl <- MCSharedUrl
  Timed <- MCTimed
  RetriesOf <- MCRetries
  MaxBuilds = 4
INVARIANTS
  NobodyWaitsForever
  FailsForItsOwnReason
PROPERTIES
  ReleasedWithItsAttempt
CHECK_DEADLOCK FALSE
