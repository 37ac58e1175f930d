SPECIFICATION FairSpec
CONSTANTS
  c1 = c1
  Absent = Absent
  AnyRole = AnyRole
  ListTarget = ListTarget
  Clients = {c1}
  RolesOf <- MCRolesOf
  Names = {1, 2, 3}
  Records <- MCRecords
  Rules <- MCRules
  Default = "deny"
  Requested = {0, 1, 5}
  MaxPageSize = 2
  Wrap = 8
  Hazards = {"storeError", "policyError", "disconnect"}
INVARIANTS
  TypeOK
  SliceInBounds
  OnlyCallableListed
  NothingSkipped
  NothingRepeated
  MoreRolesSeeMore
PROPERTIES
  PagesAdvance
  WalksEnd
