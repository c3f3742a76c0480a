SPECIFICATION Spec
CONSTANTS
  r1 = r1
  r2 = r2
  alice = alice
  omni = omni
  lite = lite
  Router = {r1, r2}
  Name = {alice, omni, lite}
  Slug <- SlugOf
  Adapter <- AdapterOf
  Task = {t1, t2}
  None = None
  Kinds = {"restart", "sync"}
  Faults = {}
  Losses = FALSE
  MaxVersion = 1
INVARIANT HydratesOwn
SYMMETRY Symmetry
CHECK_DEADLOCK FALSE
