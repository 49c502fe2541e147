SPECIFICATION RoutingSpec
CONSTANTS
  Routed <- MCRouted
  Extensions <- MCExtensions
  Host <- MCHost
  TopRuntime <- MCTopRuntime
  Adopted <- MCAdopted
  DeclaresUnmount <- MCDeclaresUnmount
  Engine <- MCEngine
  Sessions <- MCSessions
  Rendered <- MCRendered
  Targets <- MCTargets
  MaxEntries = 3
  RoundLimit = 2
  MaxTasks = 3
INVARIANTS
  ObserversKeepUp
  NoWriteLeftWaiting
  EngineInStep
PROPERTIES
  LeavingTakesTheNested
  StepsKeepTheWayForward
CHECK_DEADLOCK FALSE
