SPECIFICATION Spec
CONSTANTS
  a1 = a1
  t1 = t1
  x = x
  Absent = Absent
  Callers = {"c1", "c2"}
  Resources = {a1}
  Images <- MCImages
  Bare <- MCBare
  Meaning <- MCMeaning
  RequireDigestPinning = TRUE
  AllowedRegistries <- MCAllowed
  Hazards = {"overlap", "respec", "bareHandle", "inspectError", "pullError", "createError", "startError", "stopError", "removeError", "drop", "exit"}
CHECK_DEADLOCK FALSE
INVARIANTS
  TypeOK
  OnlyAdmittedImages
  OnlyMeantImages
  PolicyByMeaning
PROPERTIES
  ImplementsProvider
