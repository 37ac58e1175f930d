SPECIFICATION Spec
CONSTANTS
  a1 = a1
  t1 = t1
  x = x
  Absent = Absent
  Callers = {"c1"}
  Resources = {a1, t1}
  Images <- MCImages
  Bare <- MCBare
  Meaning <- MCMeaning
  RequireDigestPinning = FALSE
  AllowedRegistries = {}
  Hazards = {"respec"}
CHECK_DEADLOCK FALSE
PROPERTIES
  ApplyInstallsSpec
