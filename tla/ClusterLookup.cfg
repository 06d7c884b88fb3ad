SPECIFICATION LookupSpec
CONSTANTS
  Nil = Nil
  A = A
  a1 = a1
  a2 = a2
  only = only
  CRs = {c1}
  Docs = {a1, a2}
  Names = {A}
  Roles = {only}
  NameOf <- NameOfAll
  RoleOf <- RoleOfAll
  MaxLag = 1
  MaxFaults = 1
INVARIANTS
  LookupTypeOK
PROPERTIES
  ImplementsLifecycle
  RemovalLeavesNothing
  ServedOnceUsable
  DeletionResumes
