SPECIFICATION Spec
CONSTANTS
  r1 = r1
  r2 = r2
  alice = alice
  omni = omni
  lite = lite
  Router = {r1}
  Name = {alice, omni, lite}
  Slug <- SlugOf
  Adapter <- AdapterOf
  Task = {t1, t2, t3}
  None = None
  Kinds = {"restart", "restore", "wipe", "sync", "sweep"}
  Faults = {"docker"}
  Losses = TRUE
  MaxVersion = 2
INVARIANTS
  TypeOK
  RunningNotBehind
  LocksAreUsed
PROPERTIES
  BackupNeverOlder
  GuardHolds
SYMMETRY Symmetry
CHECK_DEADLOCK FALSE
