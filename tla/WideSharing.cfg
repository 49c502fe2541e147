SPECIFICATION LoadsSpec
CONSTANTS
  File <- LimitFile
  Imports <- LimitImports
  Width = 1
  MfeEntry <- LimitEntry
  Together <- WidePage
  Handler <- LimitHandler
  Exposed <- LimitExposed
  Lazy <- LimitLazy
  Shared <- LimitShared
  SharedUrl <- LimitSharedUrl
  Timed <- LimitTimed
  RetriesOf <- LimitRetries
  MaxBuilds = 4
PROPERTY
  ReleasedWithItsAttempt
CHECK_DEADLOCK FALSE
