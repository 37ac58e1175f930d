SPECIFICATION Spec
CONSTANTS
  c1 = c1
  c2 = c2
  a1 = a1
  t1 = t1
  i1 = i1
  i2 = i2
  Absent = Absent
  Clients = {c1, c2}
  Resources = {t1}
  Tools = {t1}
  Images = {i1, i2}
  Notes = {"n1"}
  Grants <- AllGrants
  Hazards = {"overlap"}
  MaxRev = 2
CHECK_DEADLOCK FALSE
PROPERTIES
  IfMatchProtects
