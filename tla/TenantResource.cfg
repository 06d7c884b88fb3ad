SPECIFICATION FairSpec
CONSTANTS
  Nil = Nil
  c1 = c1
  c2 = c2
  A = A
  broker = broker
  server = server
  x1 = x1
  x2 = x2
  y1 = y1
  bad = bad
  CRs = {c1}
  Docs = {x1, x2, bad}
  Names = {A}
  Roles = {broker, server}
  NameOf <- NameOfAll
  RoleOf <- RoleOfAll
  MaxLag = 1
  MaxFaults = 1
INVARIANTS
  TypeOK
  NoSilentDivergence
  RecordedParses
PROPERTIES
  ImplementsLifecycle
  RemovalLeavesNothing
  CalmServedEventually
