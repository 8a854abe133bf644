SPECIFICATION Spec
CONSTANTS
  k1 = k1
  k2 = k2
  Key <- MCKey
  NoKey = NoKey
  NoToken = NoToken
  Torn = Torn
  Window <- MCWindow
  Expiry <- MCExpiry
  TTL = 4
  MinInterval = 1
  MaxTime = 8
  MaxStops = 2
  MaxImports = 3
INVARIANTS
  TypeOK
  RefusalJustified
  RenewedInTime
PROPERTY AdmittedOnNewestToken
CHECK_DEADLOCK FALSE
