SPECIFICATION FairSpec
CONSTANTS
  Nil = Nil
  c1 = c1
  c2 = c2
  A = A
  broker = broker
  server = server
  x1 = x1
  x2 = x2
  y1 = y1
  bad = bad
  CRs = {c1}
  Docs = {x1}
  Names = {A}
  Roles = {broker}
  NameOf <- NameOfAll
  RoleOf <- RoleOfAll
  MaxLag = 1
  MaxFaults = 0
PROPERTIES
  ServedEventually
