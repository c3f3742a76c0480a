SPECIFICATION Spec
CONSTANTS
  Tab = {t1}
  Op = {o1, o2}
  None = None
  Editable <- Typable
  Config <- OldConfig
  MaxSaves = 2
  Faults = TRUE
SYMMETRY Symmetry
INVARIANTS
  TypeOK
  DrawnStaysSealed
PROPERTIES
  KeysOutliveContainers
  SaveIsExact
CHECK_DEADLOCK FALSE
