SPECIFICATION Spec
CONSTANTS
  Router = {r1}
  Container = {c1, c2}
  Task = {t1, t2, t3}
  None = None
  Kinds = {"start", "stop", "restart", "restore"}
  Allowed = {r1}
  Faults = {}
  Exits = FALSE
INVARIANTS
  TypeOK
  MutualExclusion
  RunningIsRouted
  StoppedIsUnrouted
PROPERTIES
  FreshContainerSafe
  IsService
SYMMETRY Symmetry
CHECK_DEADLOCK FALSE
