SPECIFICATION FairSpec
CONSTANTS
  k1 = k1
  k2 = k2
  Key = {k1, k2}
  Request = {q1, q2}
  None = None
  Rpm <- Limited
  Budget <- Unlimited
  Window = 2
  CacheTtl = 2
  Faults = {"store", "redis"}
INVARIANTS
  TypeOK
  RateBounded
  RevokedExpires
PROPERTIES
  RevokedStaysOut
  LimitIsTemporary
CHECK_DEADLOCK FALSE
