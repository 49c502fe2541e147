CONSTANTS
  Pages = 2
  MaxMounts = 2
  MaxLoads = 3
SPECIFICATION GridFairSpec
PROPERTIES
  CoreSaysWhatIsSo
  GridComesUp
CHECK_DEADLOCK FALSE
