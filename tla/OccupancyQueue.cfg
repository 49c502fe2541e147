CONSTANTS
  a = a
  b = b
  Subject <- MCSubject
  MaxCallers = 4
SPECIFICATION TimerSpec
INVARIANTS
  PendingHasLiveCallers
PROPERTIES
  PlacementPredicted
  SettledByOwnTask
  ImplementsPromise
  EveryCallerSettles
