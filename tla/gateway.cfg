SPECIFICATION GatewaySpec
CONSTANTS
  c1 = c1
  u1 = u1
  a1 = a1
  i1 = i1
  i2 = i2
  Absent = Absent
  Unknown = Unknown
  Clients = {c1}
  Resources = {a1}
  Tools = {}
  Images = {i1, i2}
  Notes = {"open", "closed"}
  Grants <- AllGrants
  Hazards = {"delete", "storeError", "providerError", "imageRefused", "disconnect", "crash"}
  MaxRev = 2
  Callers = {u1}
  Static <- NoStatic
  Urls <- MCUrls
  Says <- MCSays
  Endpoint <- MCEndpoint
  CallHazards = {"disconnect"}
CHECK_DEADLOCK FALSE
SYMMETRY Symmetry
CONSTRAINT OvertakenOnce
INVARIANTS
  TypeOK
  NoUntrackedWorkload
  AcknowledgedInForce
PROPERTIES
  RevisionAdvances
  ReachesNewImage
