SPECIFICATION LoadsSpec
CONSTANTS
  File <- LimitFile
  Imports <- LimitImports
  Width = 2
  MfeEntry <- LimitEntry
  Together <- RingPage
  Handler <- LimitHandler
  Exposed <- LimitExposed
  Lazy <- LimitLazy
  Shared <- LimitShared
  SharedUrl <- LimitSharedUrl
  Timed <- LimitTimed
  RetriesOf <- LimitRetries
  MaxBuilds = 4
INVARIANT
  NobodyWaitsForever
CHECK_DEADLOCK FALSE
