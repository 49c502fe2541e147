SPECIFICATION Spec
CONSTANTS
  shell = shell
  mid = mid
  leaf = leaf
  deep = deep
  top = top
  root = root
  onward = onward
  instead = instead
  NoNode = NoNode
  Registry = {shell, mid, leaf}
  Shell = shell
  Parent <- MCParent
  Target = {deep, top}
  Holder <- MCHolder
  MaxBridges <- MCMaxBridges
  Standing = {top}
  Disposable = {mid, leaf}
  Dispatch = {1}
  Node = {root, onward, instead}
  NextOf <- MCNextOf
  FallbackOf <- MCFallbackOf
  TargetOf <- MCTargetOf
  DispatchedBy <- MCDispatchedBy
  Inadmissible = {instead}
INVARIANTS
  EachActionOnce
  RoutesLeadToTheTarget
CHECK_DEADLOCK FALSE
PROPERTIES
  EveryChainEnds
