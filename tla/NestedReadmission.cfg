SPECIFICATION NestingSpec
CONSTANTS
  shell = shell
  mid = mid
  leaf = leaf
  deep = deep
  Registry = {shell, mid, leaf}
  Shell = shell
  Parent <- MCParent
  Target = {deep}
  Holder <- MCHolder
  MaxBridges <- MCMaxBridges
  Standing = {}
  Disposable = {}
PROPERTY
  AdmissionReachesTheShell
CHECK_DEADLOCK FALSE
