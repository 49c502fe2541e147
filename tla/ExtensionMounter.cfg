CONSTANTS
  a = a
  b = b
  Subject <- MCSubject
  Removable <- MCRemovable
SPECIFICATION FairSpec
INVARIANTS
  ContainersAccountedFor
  NothingLeftMounted
PROPERTIES
  DetachEmptiesTheSlot
