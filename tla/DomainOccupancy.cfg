CONSTANTS
  a = a
  b = b
  Subject <- MCSubject
  MaxCallers = 3
  Removable = {}
SPECIFICATION Spec
SYMMETRY Interchangeable
INVARIANTS
  AtMostOneOccupant
  UrlShowsTheOccupant
PROPERTIES
  SuccessMeansDone
