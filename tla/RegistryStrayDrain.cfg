CONSTANTS
  d = d
  e = e
  x = x
  y = y
  Domain <- MCDomains
  Extension <- MCSingle
  MaxCalls = 4
  MaxRegistrations = 2
SPECIFICATION RegistrySpec
PROPERTIES
  DrainTakesItsOwn
CHECK_DEADLOCK FALSE
