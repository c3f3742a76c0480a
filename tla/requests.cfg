SPECIFICATION Spec
CONSTANTS
  Tab = {t1}
  Slug <- Slugs
  Look <- LookOf
  k1 = k1
  admin = admin
  Key = {k1}
  Allow <- AllowOf
  Session = {admin}
  None = None
  Pages <- Paths
  MaxSends = 3
  MaxChanges = 1
  Limit = 1
  MaxBody = 2
INVARIANTS
  TypeOK
  KeyStaysInAllowlist
  FindsItsWay
  RedirectsEnd
  UsageCaptured
CHECK_DEADLOCK FALSE
