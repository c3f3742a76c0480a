SPECIFICATION Spec
CONSTANTS
  Tab = {t1}
  Op = {o1, o2}
  None = None
  Editable <- Typable
  Config <- OldConfig
  MaxSaves = 1
  Faults = FALSE
PROPERTIES
  CredentialsAreNoObstacle
CHECK_DEADLOCK FALSE
