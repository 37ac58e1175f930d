SPECIFICATION FairSpec
CONSTANTS
  k1 = k1
  k2 = k2
  k3 = k3
  t1 = t1
  t2 = t2
  Absent = Absent
  Tasks = {t1, t2}
  Keys = {k1, k2, k3}
  Alg <- MCAlg
  Algorithms = {"RS256", "ES256"}
  Connected = {k1, k3}
  Incoming = {k2}
  Outgoing = {k1}
  TTL = 1
  Timeout = 1
  MaxTime = 3
CHECK_DEADLOCK FALSE
INVARIANTS
  TypeOK
PROPERTIES
  WithdrawnKeysExpire
  SettledKeysKnown
  ValidationsEnd
