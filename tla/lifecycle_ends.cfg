SPECIFICATION FairSpec
CONSTANTS
  Router = {r1}
  Container = {c1}
  Task = {t1, t2}
  None = None
  Kinds = {"start", "stop", "restart", "delete", "ask"}
  Allowed = {r1}
  Faults = {"store", "redis", "docker"}
  Exits = FALSE
INVARIANT HeldIsAtWork
PROPERTY EveryOperationEnds
CHECK_DEADLOCK FALSE
