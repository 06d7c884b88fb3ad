SPECIFICATION FairSpec
CONSTANTS
  Nil = Nil
  n1 = n1
  n2 = n2
  controller = controller
  broker = broker
  server = server
  minion = minion
  g1 = g1
  g2 = g2
  g3 = g3
  k1 = k1
  d1 = d1
  d2 = d2
  NodeNames = {n1, n2}
  Types = {controller, broker, server, minion}
  Groups = {g1, g2, g3}
  K8sGroups = {k1}
  Data = {d1, d2}
  Specs <- SpecsOfAll
  MaxFaults = 2
INVARIANTS
  TypeOK
  MountsBacked
PROPERTIES
  ReconcileDeploys
  HashesFollow
  LastTypeWins
  DeploymentOrderKept
  Converges
