CONSTANTS
  d = d
  e = e
  x = x
  y = y
  Domain <- MCDomain
  Extension <- MCExtension
  MaxCalls = 4
  MaxRegistrations = 2
SPECIFICATION RegistryFairSpec
INVARIANTS
  RouterAgrees
PROPERTIES
  HandlersStayWithTheDomain
  EveryCallReturns
CHECK_DEADLOCK FALSE
