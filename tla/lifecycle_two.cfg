SPECIFICATION Spec
CONSTANTS
  Router = {r1, r2}
  Container = {c1, c2}
  Task = {t1, t2}
  None = None
  Kinds = {"start", "stop", "restart", "delete", "wipe", "check", "proxy"}
  Allowed = {r1}
  Faults = {"store", "redis", "docker"}
  Exits = FALSE
INVARIANTS
  RouteIsolation
  RowCoherent
SYMMETRY Symmetry
CHECK_DEADLOCK FALSE
