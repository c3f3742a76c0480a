SPECIFICATION Spec
CONSTANTS
  Router = {r1}
  Container = {c1, c2}
  Task = {t1, t2, t3}
  None = None
  Kinds = {"boot", "stop"}
  Allowed = {r1}
  Faults = {}
  Exits = TRUE
INVARIANTS
  RunningIsRouted
  StoppedIsUnrouted
SYMMETRY Symmetry
CHECK_DEADLOCK FALSE
