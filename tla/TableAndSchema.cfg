SPECIFICATION OrderFairSpec
CONSTANTS
  Nil = Nil
  A = A
  offline = offline
  x1 = x1
  x2 = x2
  CRs = {c1}
  Docs = {x1, x2}
  Names = {A}
  Roles = {offline}
  NameOf <- NameOfAll
  RoleOf <- RoleOfAll
  MaxLag = 2
  MaxFaults = 1
INVARIANTS
  OrderTypeOK
  RecordedTableIsServed
PROPERTIES
  ImplementsLifecycle
  RemovalLeavesNothing
  ServedOnceBacked
