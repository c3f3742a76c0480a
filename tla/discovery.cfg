SPECIFICATION Spec
CONSTANTS
  Discovery = {d1, d2}
  Nobody = Nobody
  Bodies <- SmallBodies
  Faults = TRUE
INVARIANTS
  TypeOK
  ProviderNamed
  CountsAgree
PROPERTIES
  IsRegister
  EveryDiscoveryEnds
CHECK_DEADLOCK FALSE
