SPECIFICATION Spec
CONSTANTS
  Operation = Operation
  Checker = {c1}
  Cap = 1
  MaxOps = 2
  MaxBreaks = 1
INVARIANTS
  TypeOK
  EndIsOnItsWay
PROPERTIES
  PageSettles
  WaitEnds
CHECK_DEADLOCK FALSE
