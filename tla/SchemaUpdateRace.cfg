SPECIFICATION Spec
CONSTANTS
  Nil = Nil
  A = A
  B = B
  a1 = a1
  a2 = a2
  b1 = b1
  only = only
  CRs = {c1}
  Docs = {a1, a2}
  Names = {A}
  Roles = {only}
  NameOf <- NameOfOne
  RoleOf <- RoleOfAll
  MaxLag = 2
  MaxFaults = 0
INVARIANTS
  UpdateSuccessIsApplied
