SPECIFICATION Spec
CONSTANTS
  Nil = Nil
  A = A
  B = B
  a1 = a1
  a2 = a2
  b1 = b1
  only = only
  CRs = {c1}
  Docs = {a1, a2, b1}
  Names = {A, B}
  Roles = {only}
  NameOf <- NameOfValid
  RoleOf <- RoleOfAll
  MaxLag = 2
  MaxFaults = 1
SYMMETRY Versions
INVARIANTS
  TypeOK
  CopiesAreVersions
  NoSilentDivergence
  CreateSuccessIsServed
PROPERTIES
  ControllerKeepsSpec
  CleanRemoval
  RemovalLeavesNothing
