SPECIFICATION FreshSpec
CONSTANTS
  Nil = Nil
  A = A
  B = B
  a1 = a1
  b1 = b1
  only = only
  CRs = {c1}
  Docs = {a1, b1}
  Names = {A, B}
  Roles = {only}
  NameOf <- NameOfBoth
  RoleOf <- RoleOfAll
  MaxLag = 1
  MaxFaults = 0
  MaxWrites = 3
  MaxOverlap = 1
CHECK_DEADLOCK FALSE
SYMMETRY Swap
INVARIANTS
  TypeOK
  BothCopiesAreVersions
PROPERTIES
  BothKeepSpec
  TogetherImplementLifecycle
