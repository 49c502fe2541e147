CONSTANTS
  k = k
  l = l
  m = m
  global = global
  instance = instance
  Key <- MCKey
  Alias <- MCAlias
  StaleTime <- MCStaleTime
  MaxCalls = 3
  MaxAge = 1
  Plugin <- MCPlugin
  Own <- MCOwn
  MaxRetryDepth = 3
  MaxChanges = 2
SPECIFICATION ApiSpec
INVARIANTS
  FetchInFlightIsShared
  AliasesReachTheirEntry
  DataIsProcessed
  CancellationPasses
