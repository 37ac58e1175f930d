SPECIFICATION FairSpec
CONSTANTS
  c1 = c1
  a = a
  s = s
  t = t
  Absent = Absent
  Callers = {c1}
  Names = {a, s, t}
  Tools = {t}
  Static <- MCStatic
  Urls <- MCUrls
  Records <- MCRecords
  Workloads <- MCWorkloads
  Hazards = {"storeError", "providerError", "policyError", "garbled", "disconnect"}
CHECK_DEADLOCK FALSE
INVARIANTS
  TypeOK
  RoutedByLiveState
  ForwardsAudited
  ForwardedUnderGrant
PROPERTIES
  CallsEnd
