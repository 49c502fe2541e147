CONSTANTS
  a = a
  b = b
  Subject <- MCSubject
  MaxCallers = 2
  Removable <- MCRemovable
SPECIFICATION FairSpec
INVARIANTS
  UrlShowsTheOccupants
PROPERTIES
  UsesTheMounterWell
  EveryRequestSettles
