------------------------- MODULE PinotCluster_proofs -------------------------
(***************************************************************************)
(* Safety of the Pinot cluster controller for any specs, node names,       *)
(* groups, configurations and number of failures: what a reconcile leaves, *)
(* in which order it gets there, and that no workload lacks the config map *)
(* it mounts in between.                                                   *)
(***************************************************************************)
EXTENDS PinotCluster, WellFoundedInduction, TLAPS

-----------------------------------------------------------------------------
(* The last of some positions *)

LEMMA Least ==
    ASSUME NEW S \in SUBSET Nat, S # {}
    PROVE  \E m \in S : \A n \in S : m <= n
<1> DEFINE R == OpToRel(<, Nat)
<1>1. \A x, y \in Nat : x < y => <<x, y>> \in R
  BY DEF OpToRel
<1>2. IsWellFoundedOn(R, Nat)
  BY NatLessThanWellFounded
<1> HIDE DEF R
<1>3. PICK m \in S : \A n \in S : <<n, m>> \notin R
  BY <1>2, WFMin
<1>4. ASSUME NEW n \in S
      PROVE  m <= n
  <2>1. n \in Nat /\ m \in Nat /\ ~(n < m)
    BY <1>1, <1>3
  <2> QED
    BY <2>1
<1> QED
  BY <1>4

LEMMA Greatest ==
    ASSUME NEW b \in Nat, NEW S \in SUBSET (1..b), S # {}
    PROVE  \E m \in S : \A n \in S : n <= m
<1> DEFINE T == {b - n : n \in S}
<1>1. T \in SUBSET Nat /\ T # {}
  <2>1. ASSUME NEW n \in S
        PROVE  b - n \in Nat
    OBVIOUS
  <2>2. PICK n \in S : TRUE
    OBVIOUS
  <2>3. b - n \in T
    BY <2>2
  <2>4. T \subseteq Nat
    BY <2>1
  <2> QED
    BY <2>3, <2>4
<1>2. PICK t \in T : \A u \in T : t <= u
  <2> HIDE DEF T
  <2> QED
    BY <1>1, Least
<1>3. PICK m \in S : t = b - m
  OBVIOUS
<1>4. ASSUME NEW n \in S
      PROVE  n <= m
  <2>1. b - m <= b - n
    BY <1>2, <1>3
  <2>2. m \in Nat /\ n \in Nat
    OBVIOUS
  <2> QED
    BY <2>1, <2>2
<1> QED
  BY <1>4

\* Positions come one after the other, so some positions have a last one.
LEMMA LastIs ==
    ASSUME NEW b \in Nat, NEW ps \in SUBSET ((1..4) \X (1..b)), ps # {}
    PROVE  Last(ps) \in ps /\ \A q \in ps : UpTo(q, Last(ps))
<1> DEFINE I == {p[1] : p \in ps}
<1>1. I \in SUBSET (1..4) /\ I # {}
  OBVIOUS
<1>2. PICK i \in I : \A k \in I : k <= i
  BY <1>1, Greatest
<1> DEFINE J == {p[2] : p \in {p \in ps : p[1] = i}}
<1>3. J \in SUBSET (1..b) /\ J # {}
  OBVIOUS
<1>4. PICK j \in J : \A k \in J : k <= j
  BY <1>3, Greatest
<1>5. <<i, j>> \in ps
  OBVIOUS
<1>6. ASSUME NEW q \in ps
      PROVE  UpTo(q, <<i, j>>)
  <2>1. q[1] \in I /\ q[1] \in 1..4 /\ i \in 1..4 /\ q[1] <= i
    BY <1>1, <1>2
  <2>2. CASE q[1] = i
    BY <1>4, <2>2 DEF UpTo
  <2>3. CASE q[1] # i
    BY <2>1, <2>3 DEF UpTo
  <2> QED
    BY <2>2, <2>3
<1>7. \E p \in ps : \A q \in ps : UpTo(q, p)
  BY <1>5, <1>6
<1> QED
  BY <1>7 DEF Last

-----------------------------------------------------------------------------
(* The lists of a spec *)

LEMMA SpecTypes ==
    ASSUME NEW s \in Specs
    PROVE  /\ s.order \in Seq(Types) /\ s.nodes \in Seq(Nodes)
           /\ DOMAIN s.configs \subseteq Groups /\ s.configs \in [DOMAIN s.configs -> Data]
           /\ s.k8s \subseteq K8sGroups
           /\ Len(s.nodes) \in Nat
           /\ Positions(s) = (1..4) \X (1..Len(s.nodes))
BY PinotClusterAssumption DEF Positions

LEMMA NodeAt ==
    ASSUME NEW s \in Specs, NEW p \in DOMAIN NodeSpecs(s)
    PROVE  /\ p \in Positions(s)
           /\ NodeSpecs(s)[p] = s.nodes[p[2]]
           /\ NodeSpecs(s)[p] \in Nodes
           /\ NodeSpecs(s)[p] \in Range(s.nodes)
           /\ NodeSpecs(s)[p].type = s.order[p[1]]
<1>1. p \in Positions(s) /\ NodeSpecs(s)[p] = s.nodes[p[2]] /\ s.nodes[p[2]].type = s.order[p[1]]
  BY DEF NodeSpecs
<1>2. p[2] \in 1..Len(s.nodes) /\ s.nodes \in Seq(Nodes)
  BY <1>1, SpecTypes
<1> QED
  BY <1>1, <1>2 DEF Range

LEMMA NodeTypes ==
    ASSUME NEW n \in Nodes
    PROVE  /\ n.name \in NodeNames /\ n.type \in Types /\ n.group \in Groups /\ n.k8s \in K8sGroups
           /\ Key(n) \in Keys /\ Service(n) \in ServiceObjects /\ Service(n).name = Key(n)
BY DEF Nodes, Key, Keys, Service, ServiceObjects

LEMMA ConfigMapType ==
    ASSUME NEW s \in Specs, NEW p \in Configured(s)
    PROVE  /\ ConfigMap(s, NodeSpecs(s)[p]) \in ConfigMapObjects
           /\ ConfigMap(s, NodeSpecs(s)[p]).name = NodeSpecs(s)[p].group
<1>1. p \in DOMAIN NodeSpecs(s) /\ NodeSpecs(s)[p].group \in DOMAIN s.configs
  BY DEF Configured
<1>2. s.configs[NodeSpecs(s)[p].group] \in Data
  BY <1>1, SpecTypes
<1>3. NodeSpecs(s)[p].type \in Types /\ NodeSpecs(s)[p].group \in Groups
  BY <1>1, NodeAt, NodeTypes
<1> QED
  BY <1>2, <1>3 DEF ConfigMap, ConfigMapObjects

LEMMA WorkloadType ==
    ASSUME NEW s \in Specs, NEW p \in Placed(s)
    PROVE  /\ Workload(s, p) \in WorkloadObjects
           /\ Workload(s, p).name = Key(NodeSpecs(s)[p])
           /\ Workload(s, p).type = NodeSpecs(s)[p].type
           /\ Workload(s, p).mount = NodeSpecs(s)[p].group
           /\ Workload(s, p).hashes = Hashes(s, p)
<1>1. p \in Configured(s) /\ p \in DOMAIN NodeSpecs(s)
  BY DEF Placed, Configured
<1>2. Hashes(s, p) \in SUBSET ConfigMapObjects
  BY ConfigMapType DEF Hashes
<1>3. /\ Key(NodeSpecs(s)[p]) \in Keys
      /\ NodeSpecs(s)[p].type \in Types /\ NodeSpecs(s)[p].group \in Groups
  BY <1>1, NodeAt, NodeTypes
<1> QED
  BY <1>2, <1>3 DEF Workload, WorkloadObjects, Mount

\* The three lists: what they hold, and at which positions.
LEMMA PlanTypes ==
    ASSUME NEW s \in Specs
    PROVE  /\ ConfigMaps(s) \in [Configured(s) -> ConfigMapObjects]
           /\ Services(s) \in [Placed(s) -> ServiceObjects]
           /\ Workloads(s) \in [Placed(s) -> WorkloadObjects]
           /\ Configured(s) \subseteq Positions(s)
           /\ Placed(s) \subseteq Configured(s)
<1>1. Configured(s) \subseteq Positions(s) /\ Placed(s) \subseteq Configured(s)
  BY NodeAt DEF Configured, Placed
<1>2. ConfigMaps(s) \in [Configured(s) -> ConfigMapObjects]
  BY ConfigMapType DEF ConfigMaps
<1>3. Services(s) \in [Placed(s) -> ServiceObjects]
  BY NodeAt, NodeTypes DEF Services, Placed, Configured
<1>4. Workloads(s) \in [Placed(s) -> WorkloadObjects]
  BY WorkloadType DEF Workloads
<1> QED
  BY <1>1, <1>2, <1>3, <1>4

\* Every workload mounts a config map of its spec.
LEMMA MountListed ==
    ASSUME NEW s \in Specs, NEW p \in Placed(s)
    PROVE  Workloads(s)[p].mount \in Listed(ConfigMaps(s))
<1>1. p \in Configured(s)
  BY DEF Placed
<1>2. Workloads(s)[p].mount = NodeSpecs(s)[p].group
  BY WorkloadType DEF Workloads
<1>3. ConfigMaps(s)[p].name = NodeSpecs(s)[p].group /\ DOMAIN ConfigMaps(s) = Configured(s)
  BY <1>1, ConfigMapType DEF ConfigMaps
<1> QED
  BY <1>1, <1>2, <1>3 DEF Listed

-----------------------------------------------------------------------------
(* Applying a list *)

\* What a list of b nodes is.
IsList(list, b) == DOMAIN list \subseteq (1..4) \X (1..b)

At(list, x) == {p \in DOMAIN list : list[p].name = x}

\* Each name of the list has the last object of that name.
InPlace(have, list) == \A x \in Listed(list) : have[x] = list[Last(At(list, x))]

LEMMA PlanLists ==
    ASSUME NEW s \in Specs
    PROVE  \E b \in Nat : IsList(ConfigMaps(s), b) /\ IsList(Services(s), b) /\ IsList(Workloads(s), b)
<1>1. /\ DOMAIN ConfigMaps(s) \subseteq Positions(s)
      /\ DOMAIN Services(s) \subseteq Positions(s)
      /\ DOMAIN Workloads(s) \subseteq Positions(s)
  BY PlanTypes
<1>2. Len(s.nodes) \in Nat /\ Positions(s) = (1..4) \X (1..Len(s.nodes))
  BY SpecTypes
<1> QED
  BY <1>1, <1>2 DEF IsList

\* The last object of a name in the list has that name and its position comes
\* after those of all others of the name.
LEMMA LastAt ==
    ASSUME NEW b \in Nat, NEW list, IsList(list, b), NEW x \in Listed(list)
    PROVE  /\ Last(At(list, x)) \in DOMAIN list
           /\ list[Last(At(list, x))].name = x
           /\ \A p \in At(list, x) : UpTo(p, Last(At(list, x)))
<1>1. At(list, x) \in SUBSET ((1..4) \X (1..b)) /\ At(list, x) # {}
  BY DEF At, Listed, IsList
<1>2. Last(At(list, x)) \in At(list, x)
  BY <1>1, LastIs
<1>3. \A p \in At(list, x) : UpTo(p, Last(At(list, x)))
  BY <1>1, LastIs
<1> QED
  BY <1>2, <1>3 DEF At

LEMMA PrefixOf ==
    ASSUME NEW list, NEW done \in Prefixes(list)
    PROVE  done \subseteq DOMAIN list
BY DEF Prefixes

\* An object of which none was applied is what it was; else it is one of its
\* name that was.
LEMMA Untouched ==
    ASSUME NEW list, NEW done, NEW have, NEW x \in DOMAIN have,
           \A p \in done : list[p].name # x
    PROVE  Apply(have, list, done)[x] = have[x]
BY DEF Apply

LEMMA Touched ==
    ASSUME NEW b \in Nat, NEW list, IsList(list, b), NEW done \in SUBSET DOMAIN list,
           NEW have, NEW x \in DOMAIN have, NEW q \in done, list[q].name = x
    PROVE  \E p \in done : list[p].name = x /\ Apply(have, list, done)[x] = list[p]
<1> DEFINE hits == {p \in done : list[p].name = x}
<1>1. Apply(have, list, done)[x] = IF hits = {} THEN have[x] ELSE list[Last(hits)]
  BY DEF Apply
<1>2. hits \in SUBSET ((1..4) \X (1..b)) /\ hits # {}
  BY DEF IsList
<1>3. Last(hits) \in hits
  <2> HIDE DEF hits
  <2> QED
    BY <1>2, LastIs
<1> QED
  BY <1>1, <1>2, <1>3

LEMMA AppliedType ==
    ASSUME NEW b \in Nat, NEW D, NEW O, NEW list \in [D -> O], IsList(list, b),
           NEW done \in SUBSET DOMAIN list,
           NEW X, NEW have \in [X -> O \cup {Nil}]
    PROVE  Apply(have, list, done) \in [X -> O \cup {Nil}]
<1>1. ASSUME NEW x \in X
      PROVE  Apply(have, list, done)[x] \in O \cup {Nil}
  <2>1. x \in DOMAIN have
    OBVIOUS
  <2>2. \A p \in done : list[p] \in O
    OBVIOUS
  <2>3. \/ Apply(have, list, done)[x] = have[x]
        \/ \E p \in done : Apply(have, list, done)[x] = list[p]
    <3>1. CASE \E q \in done : list[q].name = x
      BY <2>1, <3>1, Touched
    <3>2. CASE \A q \in done : list[q].name # x
      BY <2>1, <3>2, Untouched
    <3> QED
      BY <3>1, <3>2
  <2> QED
    BY <2>2, <2>3
<1>2. Apply(have, list, done) = [x \in X |-> Apply(have, list, done)[x]]
  BY DEF Apply
<1> QED
  BY <1>1, <1>2

LEMMA AppliedToTheEnd ==
    ASSUME NEW list, NEW have, Listed(list) \subseteq DOMAIN have
    PROVE  InPlace(Apply(have, list, DOMAIN list), list)
BY DEF InPlace, Apply, Listed, At

\* Clean-up leaves what is listed.
LEMMA DropKeeps ==
    ASSUME NEW list, NEW have, NEW left \in Drop(have, list)
    PROVE  /\ DOMAIN left = DOMAIN have
           /\ \A x \in DOMAIN have : left[x] = have[x] \/ left[x] = Nil
           /\ \A x \in DOMAIN have \cap Listed(list) : left[x] = have[x]
BY DEF Drop, Unlisted

LEMMA DropKeepsInPlace ==
    ASSUME NEW list, NEW have, NEW left \in Drop(have, list), Listed(list) \subseteq DOMAIN have,
           InPlace(have, list)
    PROVE  InPlace(left, list)
BY DropKeeps DEF InPlace

\* What exists still exists.
LEMMA AppliedStays ==
    ASSUME NEW b \in Nat, NEW D, NEW O, NEW list \in [D -> O], IsList(list, b), Nil \notin O,
           NEW done \in SUBSET DOMAIN list, NEW have, NEW x \in DOMAIN have, have[x] # Nil
    PROVE  Apply(have, list, done)[x] # Nil
<1>1. \A p \in done : list[p] # Nil
  OBVIOUS
<1>2. CASE \E q \in done : list[q].name = x
  BY <1>1, <1>2, Touched
<1>3. CASE \A q \in done : list[q].name # x
  BY <1>3, Untouched
<1> QED
  BY <1>2, <1>3

\* The lists name objects that Kubernetes may have.
LEMMA ListedNames ==
    ASSUME NEW s \in Specs
    PROVE  /\ Listed(ConfigMaps(s)) \subseteq Groups
           /\ Listed(Services(s)) \subseteq Keys
           /\ Listed(Workloads(s)) \subseteq Keys
BY PlanTypes DEF Listed, ConfigMapObjects, ServiceObjects, WorkloadObjects

\* Config maps of a list that is in place exist.
LEMMA ListedExists ==
    ASSUME NEW s \in Specs, NEW have, InPlace(have, ConfigMaps(s)), NEW x \in Listed(ConfigMaps(s))
    PROVE  have[x] # Nil
<1>1. PICK b \in Nat : IsList(ConfigMaps(s), b)
  BY PlanLists
<1>2. Last(At(ConfigMaps(s), x)) \in DOMAIN ConfigMaps(s)
  BY <1>1, LastAt
<1>3. ConfigMaps(s)[Last(At(ConfigMaps(s), x))] \in ConfigMapObjects
  BY <1>2, PlanTypes
<1>4. have[x] = ConfigMaps(s)[Last(At(ConfigMaps(s), x))]
  BY DEF InPlace
<1> QED
  BY <1>3, <1>4, PinotClusterAssumption

-----------------------------------------------------------------------------
(* The inductive invariant *)

\* The lists are those of the spec that the reconcile read.
Planned == ctl # Idle => Expands(ctl.spec) /\ ctl.plan = Plan(ctl.spec)

\* What has been applied so far is in place: nobody else writes the objects.
Progress ==
    /\ ctl.pc \in {"services", "workloads", "store"} => InPlace(configMaps, ctl.plan.configMaps)
    /\ ctl.pc \in {"workloads", "store"} => InPlace(services, ctl.plan.services)
    /\ ctl.pc = "store" => InPlace(workloads, ctl.plan.workloads)

IInv == TypeOK /\ Planned /\ Progress /\ MountsBacked

\* A reconcile under way has the three lists of its spec.
LEMMA UnderWay ==
    ASSUME TypeOK, Planned, ctl.pc # "idle"
    PROVE  /\ ctl # Idle /\ ctl.spec \in Specs /\ Expands(ctl.spec)
           /\ ctl.pc \in {"configMaps", "services", "workloads", "store"}
           /\ ctl = [pc |-> ctl.pc, spec |-> ctl.spec, plan |-> Plan(ctl.spec)]
           /\ ctl.plan = Plan(ctl.spec)
           /\ ctl.plan.configMaps = ConfigMaps(ctl.spec)
           /\ ctl.plan.services = Services(ctl.spec)
           /\ ctl.plan.workloads = Workloads(ctl.spec)
<1>1. ctl # Idle /\ Idle.pc = "idle"
  BY DEF Idle
<1>2. ctl \in [pc : {"configMaps", "services", "workloads", "store"}, spec : Specs, plan : Plans]
  BY <1>1 DEF TypeOK
<1>3. Expands(ctl.spec) /\ ctl.plan = Plan(ctl.spec)
  BY <1>1 DEF Planned
<1> QED
  BY <1>1, <1>2, <1>3 DEF Plan

\* The end of a call: the next one is due, or the reconcile is over.
LEMMA Advances ==
    ASSUME TypeOK, NEW list, NEW done, Advance(list, done)
    PROVE  /\ faults' \in 0..MaxFaults
           /\ \/ done = DOMAIN list /\ ctl' = [ctl EXCEPT !.pc = Following(ctl.pc)]
              \/ ctl' = Idle
BY PinotClusterAssumption DEF TypeOK, Advance

LEMMA InitInvariant == Init => IInv
<1> SUFFICES ASSUME Init PROVE IInv
  OBVIOUS
<1>1. TypeOK
  BY PinotClusterAssumption DEF Init, TypeOK
<1>2. Planned /\ Progress
  BY DEF Init, Planned, Progress, Idle
<1>3. MountsBacked
  BY DEF Init, MountsBacked
<1> QED
  BY <1>1, <1>2, <1>3 DEF IInv

\* A reconcile that begins has its lists, and nothing applied.
LEMMA StartKeeps == IInv /\ Start => IInv'
<1> SUFFICES ASSUME IInv, Start PROVE IInv'
  OBVIOUS
<1> USE DEF IInv
<1>1. CASE Expands(spec)
  <2>1. ctl' = [pc |-> "configMaps", spec |-> spec, plan |-> Plan(spec)] /\ spec \in Specs
    BY <1>1 DEF Start, TypeOK
  <2>2. Plan(spec) \in Plans
    BY <1>1, <2>1 DEF Plans
  <2>3. TypeOK'
    BY <2>1, <2>2 DEF Start, TypeOK, objects
  <2>4. Planned' /\ Progress'
    BY <1>1, <2>1 DEF Planned, Progress
  <2> QED
    BY <2>3, <2>4 DEF Start, MountsBacked, objects
<1>2. CASE ~Expands(spec)
  <2>1. ctl' = Idle
    BY <1>2 DEF Start
  <2> QED
    BY <2>1 DEF Start, TypeOK, Planned, Progress, Idle, MountsBacked, objects
<1> QED
  BY <1>1, <1>2

\* Config maps are created or set, never deleted: no mount loses its own.
LEMMA ConfigMapsKeep == IInv /\ ReconcileConfigMap => IInv'
<1> SUFFICES ASSUME IInv, ReconcileConfigMap PROVE IInv'
  OBVIOUS
<1>1. ctl.pc = "configMaps" /\ UNCHANGED <<spec, services, workloads, orphans>>
  BY DEF ReconcileConfigMap
<1>2. TypeOK /\ Planned /\ Progress /\ MountsBacked
  BY DEF IInv
<1>3. PICK s \in Specs : ctl = [pc |-> "configMaps", spec |-> s, plan |-> Plan(s)] /\ Expands(s)
  BY <1>1, <1>2, UnderWay
<1>4. PICK list : list = ConfigMaps(s)
  OBVIOUS
<1>5. PICK done \in Prefixes(list) : configMaps' = Apply(configMaps, list, done) /\ Advance(list, done)
  BY <1>3, <1>4 DEF ReconcileConfigMap, Plan
<1>6. PICK b \in Nat : IsList(list, b)
  BY <1>4, PlanLists
<1>7. done \in SUBSET DOMAIN list
  BY PrefixOf
<1>8. /\ list \in [Configured(s) -> ConfigMapObjects]
      /\ Listed(list) \subseteq Groups
      /\ configMaps \in [Groups -> ConfigMapObjects \cup {Nil}]
  BY <1>2, <1>4, PlanTypes, ListedNames DEF TypeOK
<1>9. configMaps' \in [Groups -> ConfigMapObjects \cup {Nil}]
  BY <1>5, <1>6, <1>7, <1>8, AppliedType
<1>10. /\ faults' \in 0..MaxFaults
       /\ \/ done = DOMAIN list /\ ctl' = [pc |-> "services", spec |-> s, plan |-> Plan(s)]
          \/ ctl' = Idle
  BY <1>2, <1>3, <1>5, Advances DEF Following
<1>11. TypeOK'
  BY <1>1, <1>2, <1>3, <1>9, <1>10 DEF TypeOK, Plans
<1>12. Planned'
  BY <1>3, <1>10 DEF Planned
<1>13. Progress'
  <2>1. CASE done = DOMAIN list /\ ctl' = [pc |-> "services", spec |-> s, plan |-> Plan(s)]
    <3>1. InPlace(configMaps', list)
      BY <1>5, <1>8, <2>1, AppliedToTheEnd
    <3>2. ctl'.plan.configMaps = list
      BY <1>4, <2>1 DEF Plan
    <3> QED
      BY <2>1, <3>1, <3>2 DEF Progress
  <2>2. CASE ctl' = Idle
    BY <2>2 DEF Progress, Idle
  <2> QED
    BY <1>10, <2>1, <2>2
<1>14. MountsBacked'
  <2> SUFFICES ASSUME NEW k \in Keys \ orphans, workloads[k] # Nil
               PROVE  configMaps'[workloads[k].mount] # Nil
    BY <1>1 DEF MountsBacked
  <2>1. configMaps[workloads[k].mount] # Nil
    BY <1>2 DEF MountsBacked
  <2>2. workloads[k].mount \in DOMAIN configMaps
    BY <1>2 DEF TypeOK, WorkloadObjects
  <2>3. Nil \notin ConfigMapObjects
    BY PinotClusterAssumption
  <2> QED
    BY <1>5, <1>6, <1>7, <1>8, <2>1, <2>2, <2>3, AppliedStays
<1> QED
  BY <1>11, <1>12, <1>13, <1>14 DEF IInv

\* Services concern no mount.
LEMMA ServicesKeep == IInv /\ ReconcileService => IInv'
<1> SUFFICES ASSUME IInv, ReconcileService PROVE IInv'
  OBVIOUS
<1>1. ctl.pc = "services" /\ UNCHANGED <<spec, configMaps, workloads, orphans>>
  BY DEF ReconcileService
<1>2. TypeOK /\ Planned /\ Progress /\ MountsBacked
  BY DEF IInv
<1>3. PICK s \in Specs : ctl = [pc |-> "services", spec |-> s, plan |-> Plan(s)] /\ Expands(s)
  BY <1>1, <1>2, UnderWay
<1>4. PICK list : list = Services(s)
  OBVIOUS
<1>5. PICK done \in Prefixes(list) : services' = Apply(services, list, done) /\ Advance(list, done)
  BY <1>3, <1>4 DEF ReconcileService, Plan
<1>6. PICK b \in Nat : IsList(list, b)
  BY <1>4, PlanLists
<1>7. done \in SUBSET DOMAIN list
  BY PrefixOf
<1>8. /\ list \in [Placed(s) -> ServiceObjects]
      /\ Listed(list) \subseteq Keys
      /\ services \in [Keys -> ServiceObjects \cup {Nil}]
  BY <1>2, <1>4, PlanTypes, ListedNames DEF TypeOK
<1>9. services' \in [Keys -> ServiceObjects \cup {Nil}]
  BY <1>5, <1>6, <1>7, <1>8, AppliedType
<1>10. /\ faults' \in 0..MaxFaults
       /\ \/ done = DOMAIN list /\ ctl' = [pc |-> "workloads", spec |-> s, plan |-> Plan(s)]
          \/ ctl' = Idle
  BY <1>2, <1>3, <1>5, Advances DEF Following
<1>11. TypeOK'
  BY <1>1, <1>2, <1>3, <1>9, <1>10 DEF TypeOK, Plans
<1>12. Planned'
  BY <1>3, <1>10 DEF Planned
<1>13. Progress'
  <2>1. CASE done = DOMAIN list /\ ctl' = [pc |-> "workloads", spec |-> s, plan |-> Plan(s)]
    <3>1. InPlace(services', list)
      BY <1>5, <1>8, <2>1, AppliedToTheEnd
    <3>2. ctl'.plan.services = list /\ ctl'.plan = ctl.plan
      BY <1>3, <1>4, <2>1 DEF Plan
    <3>3. InPlace(configMaps, ctl.plan.configMaps)
      BY <1>1, <1>2 DEF Progress
    <3> QED
      BY <1>1, <2>1, <3>1, <3>2, <3>3 DEF Progress
  <2>2. CASE ctl' = Idle
    BY <2>2 DEF Progress, Idle
  <2> QED
    BY <1>10, <2>1, <2>2
<1>14. MountsBacked'
  BY <1>1, <1>2 DEF MountsBacked
<1> QED
  BY <1>11, <1>12, <1>13, <1>14 DEF IInv

\* A workload is applied when the config maps of its list are in place, with
\* the one that it mounts among them.
LEMMA WorkloadsKeep == IInv /\ ReconcileDeployOrSts => IInv'
<1> SUFFICES ASSUME IInv, ReconcileDeployOrSts PROVE IInv'
  OBVIOUS
<1>1. ctl.pc = "workloads" /\ UNCHANGED <<spec, configMaps, services>>
  BY DEF ReconcileDeployOrSts
<1>2. TypeOK /\ Planned /\ Progress /\ MountsBacked
  BY DEF IInv
<1>3. PICK s \in Specs : ctl = [pc |-> "workloads", spec |-> s, plan |-> Plan(s)] /\ Expands(s)
  BY <1>1, <1>2, UnderWay
<1>4. PICK list : list = Workloads(s)
  OBVIOUS
<1>5. PICK done \in Prefixes(list) :
        /\ workloads' = Apply(workloads, list, done)
        /\ orphans' = orphans \ {list[p].name : p \in done}
        /\ Advance(list, done)
  BY <1>3, <1>4 DEF ReconcileDeployOrSts, Plan
<1>6. PICK b \in Nat : IsList(list, b)
  BY <1>4, PlanLists
<1>7. done \in SUBSET DOMAIN list
  BY PrefixOf
<1>8. /\ list \in [Placed(s) -> WorkloadObjects]
      /\ Listed(list) \subseteq Keys
      /\ workloads \in [Keys -> WorkloadObjects \cup {Nil}]
  BY <1>2, <1>4, PlanTypes, ListedNames DEF TypeOK
<1>9. workloads' \in [Keys -> WorkloadObjects \cup {Nil}]
  BY <1>5, <1>6, <1>7, <1>8, AppliedType
<1>10. /\ faults' \in 0..MaxFaults
       /\ \/ done = DOMAIN list /\ ctl' = [pc |-> "store", spec |-> s, plan |-> Plan(s)]
          \/ ctl' = Idle
  BY <1>2, <1>3, <1>5, Advances DEF Following
<1>11. TypeOK'
  BY <1>1, <1>2, <1>3, <1>5, <1>9, <1>10 DEF TypeOK, Plans
<1>12. Planned'
  BY <1>3, <1>10 DEF Planned
<1>13. InPlace(configMaps, ConfigMaps(s)) /\ InPlace(services, Services(s))
  BY <1>1, <1>2, <1>3 DEF Progress, Plan
<1>14. Progress'
  <2>1. CASE done = DOMAIN list /\ ctl' = [pc |-> "store", spec |-> s, plan |-> Plan(s)]
    <3>1. InPlace(workloads', list)
      BY <1>5, <1>8, <2>1, AppliedToTheEnd
    <3> QED
      BY <1>1, <1>4, <1>13, <2>1, <3>1 DEF Progress, Plan
  <2>2. CASE ctl' = Idle
    BY <2>2 DEF Progress, Idle
  <2> QED
    BY <1>10, <2>1, <2>2
<1>15. MountsBacked'
  <2> SUFFICES ASSUME NEW k \in Keys \ orphans', workloads'[k] # Nil
               PROVE  configMaps[workloads'[k].mount] # Nil
    BY <1>1 DEF MountsBacked
  <2>1. k \in DOMAIN workloads
    BY <1>8
  <2>2. CASE \E q \in done : list[q].name = k
    <3>1. PICK p \in done : workloads'[k] = list[p]
      BY <1>5, <1>6, <1>7, <2>1, <2>2, Touched
    <3>2. p \in Placed(s)
      BY <1>7, <1>8
    <3>3. list[p].mount \in Listed(ConfigMaps(s))
      BY <1>4, <3>2, MountListed
    <3> QED
      BY <1>13, <3>1, <3>3, ListedExists
  <2>3. CASE \A q \in done : list[q].name # k
    <3>1. workloads'[k] = workloads[k]
      BY <1>5, <2>1, <2>3, Untouched
    <3>2. k \in Keys \ orphans
      BY <1>5, <2>3
    <3> QED
      BY <1>2, <3>1, <3>2 DEF MountsBacked
  <2> QED
    BY <2>2, <2>3
<1> QED
  BY <1>11, <1>12, <1>14, <1>15 DEF IInv

\* Clean-up takes what is not listed: a workload that it spares, and that is
\* listed, mounts a config map that is listed too.
LEMMA StoreKeeps == IInv /\ ReconcileStore => IInv'
<1> SUFFICES ASSUME IInv, ReconcileStore PROVE IInv'
  OBVIOUS
<1>1. ctl.pc = "store" /\ ctl' = Idle /\ UNCHANGED <<spec, faults>>
  BY DEF ReconcileStore
<1>2. TypeOK /\ Planned /\ Progress
  BY DEF IInv
<1>3. PICK s \in Specs : ctl = [pc |-> "store", spec |-> s, plan |-> Plan(s)] /\ Expands(s)
  BY <1>1, <1>2, UnderWay
<1>4. /\ configMaps' \in Drop(configMaps, ConfigMaps(s))
      /\ services' \in Drop(services, Services(s))
      /\ workloads' \in Drop(workloads, Workloads(s))
      /\ orphans' = Unlisted(workloads, Workloads(s))
  BY <1>3 DEF ReconcileStore, Plan
<1>5. /\ configMaps' \in [Groups -> ConfigMapObjects \cup {Nil}]
      /\ services' \in [Keys -> ServiceObjects \cup {Nil}]
      /\ workloads' \in [Keys -> WorkloadObjects \cup {Nil}]
  BY <1>2, <1>4 DEF TypeOK, Drop
<1>6. orphans' \subseteq Keys
  BY <1>2, <1>4 DEF TypeOK, Unlisted
<1>7. TypeOK'
  BY <1>1, <1>2, <1>5, <1>6 DEF TypeOK
<1>8. Planned' /\ Progress'
  BY <1>1 DEF Planned, Progress, Idle
<1>9. MountsBacked'
  <2> SUFFICES ASSUME NEW k \in Keys \ orphans', workloads'[k] # Nil
               PROVE  configMaps'[workloads'[k].mount] # Nil
    BY DEF MountsBacked
  <2>1. k \in DOMAIN workloads /\ DOMAIN configMaps = Groups
    BY <1>2 DEF TypeOK
  <2>2. workloads'[k] = workloads[k]
    BY <1>4, <2>1, DropKeeps
  <2>3. k \in Listed(Workloads(s))
    BY <1>4, <2>1, <2>2 DEF Unlisted
  <2>4. PICK p \in Placed(s) : workloads[k] = Workloads(s)[p]
    <3>1. PICK b \in Nat : IsList(Workloads(s), b)
      BY PlanLists
    <3>2. workloads[k] = Workloads(s)[Last(At(Workloads(s), k))]
      BY <1>1, <1>2, <1>3, <2>3 DEF Progress, InPlace, Plan
    <3>3. Last(At(Workloads(s), k)) \in DOMAIN Workloads(s)
      BY <2>3, <3>1, LastAt
    <3>4. DOMAIN Workloads(s) = Placed(s)
      BY DEF Workloads
    <3> QED
      BY <3>2, <3>3, <3>4
  <2>5. workloads[k].mount \in Listed(ConfigMaps(s))
    BY <2>4, MountListed
  <2>6. configMaps'[workloads[k].mount] = configMaps[workloads[k].mount]
    BY <1>4, <2>1, <2>5, ListedNames, DropKeeps
  <2>7. InPlace(configMaps, ConfigMaps(s))
    BY <1>1, <1>2, <1>3 DEF Progress, Plan
  <2> QED
    BY <2>2, <2>5, <2>6, <2>7, ListedExists
<1> QED
  BY <1>7, <1>8, <1>9 DEF IInv

\* An edit does not reach the reconcile under way.
LEMMA EditKeeps == IInv /\ EditSpec => IInv'
BY DEF IInv, EditSpec, objects, TypeOK, Planned, Progress, MountsBacked

\* A manager that stops leaves the objects as they are.
LEMMA RestartKeeps == IInv /\ Restart => IInv'
<1> SUFFICES ASSUME IInv, Restart PROVE IInv'
  OBVIOUS
<1>1. ctl' = Idle /\ UNCHANGED <<spec, configMaps, services, workloads, orphans>>
  BY DEF Restart, objects
<1>2. faults' \in 0..MaxFaults
  BY PinotClusterAssumption DEF Restart, IInv, TypeOK
<1>3. TypeOK'
  BY <1>1, <1>2 DEF IInv, TypeOK
<1>4. Planned' /\ Progress'
  BY <1>1 DEF Planned, Progress, Idle
<1>5. MountsBacked'
  BY <1>1 DEF IInv, MountsBacked
<1> QED
  BY <1>3, <1>4, <1>5 DEF IInv

LEMMA NextInvariant == IInv /\ [Next]_vars => IInv'
<1> SUFFICES ASSUME IInv, [Next]_vars PROVE IInv'
  OBVIOUS
<1>1. CASE EditSpec
  BY <1>1, EditKeeps
<1>2. CASE Start
  BY <1>2, StartKeeps
<1>3. CASE ReconcileConfigMap
  BY <1>3, ConfigMapsKeep
<1>4. CASE ReconcileService
  BY <1>4, ServicesKeep
<1>5. CASE ReconcileDeployOrSts
  BY <1>5, WorkloadsKeep
<1>6. CASE ReconcileStore
  BY <1>6, StoreKeeps
<1>7. CASE Restart
  BY <1>7, RestartKeeps
<1>8. CASE UNCHANGED vars
  BY <1>8 DEF vars, IInv, TypeOK, Planned, Progress, MountsBacked
<1> QED
  BY <1>1, <1>2, <1>3, <1>4, <1>5, <1>6, <1>7, <1>8 DEF Next, Step

\* The reconcile's lists and the objects agree as far as it has got, and every
\* workload that was ever listed since its clean-up has its config map.
THEOREM Invariance == Spec => []IInv
BY InitInvariant, NextInvariant, PTL DEF Spec

\* What Kubernetes has is of the form that the operator makes, by name.
THEOREM TypeCorrect == Spec => []TypeOK
<1>1. IInv => TypeOK
  BY DEF IInv
<1> QED
  BY <1>1, Invariance, PTL

\* The config map that a workload mounts exists between any two calls of do(),
\* after a call that failed half-way, after a restart and after a clean-up.
THEOREM MountsAreBacked == Spec => []MountsBacked
<1>1. IInv => MountsBacked
  BY DEF IInv
<1> QED
  BY <1>1, Invariance, PTL

-----------------------------------------------------------------------------
(* What a reconcile leaves *)

\* deploymentOrder names no more than the four types that do() looks at.
OrdersOfFour == \A s \in Specs : Len(s.order) <= 4

\* No type is in deploymentOrder twice.
OrdersApart ==
    \A s \in Specs : \A i, j \in 1..Len(s.order) : s.order[i] = s.order[j] => i = j

\* A node whose type is the i-th of the order has a position there.
LEMMA NodePosition ==
    ASSUME OrdersOfFour, NEW s \in Specs, NEW n \in Range(s.nodes),
           NEW i \in 1..Len(s.order), s.order[i] = n.type
    PROVE  \E p \in DOMAIN NodeSpecs(s) : p[1] = i /\ NodeSpecs(s)[p] = n
<1>1. PICK j \in DOMAIN s.nodes : n = s.nodes[j]
  BY DEF Range
<1>2. i \in 1..4
  <2>1. Len(s.order) \in Nat /\ Len(s.order) <= 4
    BY SpecTypes DEF OrdersOfFour
  <2> QED
    BY <2>1
<1>3. <<i, j>> \in Positions(s)
  BY <1>2 DEF Positions
<1>4. <<i, j>> \in DOMAIN NodeSpecs(s) /\ NodeSpecs(s)[<<i, j>>] = n
  BY <1>1, <1>3 DEF NodeSpecs
<1> QED
  BY <1>4

\* A node that is wanted has a place in the lists.
LEMMA WantedPlaced ==
    ASSUME OrdersOfFour, NEW s \in Specs, NEW n \in Wanted(s)
    PROVE  \E p \in Placed(s) : NodeSpecs(s)[p] = n
<1>1. n \in Range(s.nodes) /\ n.type \in Range(s.order) /\ n.group \in DOMAIN s.configs /\ n.k8s \in s.k8s
  BY DEF Wanted
<1>2. PICK i \in 1..Len(s.order) : s.order[i] = n.type
  BY <1>1, SpecTypes DEF Range
<1>3. PICK p \in DOMAIN NodeSpecs(s) : NodeSpecs(s)[p] = n
  BY <1>1, <1>2, NodePosition
<1> QED
  BY <1>1, <1>3 DEF Placed, Configured

\* What a list that is in place says about the name of one of its objects.
LEMMA InPlaceAt ==
    ASSUME NEW b \in Nat, NEW list, IsList(list, b), NEW have, InPlace(have, list),
           NEW p \in DOMAIN list
    PROVE  \E q \in DOMAIN list :
             list[q].name = list[p].name /\ have[list[p].name] = list[q] /\ UpTo(p, q)
<1>1. list[p].name \in Listed(list) /\ p \in At(list, list[p].name)
  BY DEF Listed, At
<1>2. PICK q : q = Last(At(list, list[p].name))
  OBVIOUS
<1>3. q \in DOMAIN list /\ list[q].name = list[p].name /\ UpTo(p, q)
  BY <1>1, <1>2, LastAt
<1>4. have[list[p].name] = list[q]
  BY <1>1, <1>2 DEF InPlace
<1> QED
  BY <1>3, <1>4

\* Nodes of one group have one config map, if no other type shares it.
LEMMA OneConfigMap ==
    ASSUME NEW s \in Specs, Separate(s), NEW p \in DOMAIN NodeSpecs(s), NEW q \in DOMAIN NodeSpecs(s),
           NodeSpecs(s)[p].group = NodeSpecs(s)[q].group
    PROVE  ConfigMap(s, NodeSpecs(s)[p]) = ConfigMap(s, NodeSpecs(s)[q])
<1>1. NodeSpecs(s)[p].type = NodeSpecs(s)[q].type
  BY NodeAt DEF Separate
<1> QED
  BY <1>1 DEF ConfigMap

LEMMA ConfigMapInPlace ==
    ASSUME NEW s \in Specs, Separate(s), NEW have, InPlace(have, ConfigMaps(s)), NEW p \in Configured(s)
    PROVE  have[NodeSpecs(s)[p].group] = ConfigMap(s, NodeSpecs(s)[p])
<1>1. PICK b \in Nat : IsList(ConfigMaps(s), b)
  BY PlanLists
<1>2. DOMAIN ConfigMaps(s) = Configured(s)
  BY DEF ConfigMaps
<1>3. PICK q \in Configured(s) :
        /\ ConfigMaps(s)[q].name = ConfigMaps(s)[p].name
        /\ have[ConfigMaps(s)[p].name] = ConfigMaps(s)[q]
  BY <1>1, <1>2, InPlaceAt
<1>4. /\ ConfigMaps(s)[p].name = NodeSpecs(s)[p].group
      /\ ConfigMaps(s)[q].name = NodeSpecs(s)[q].group
      /\ ConfigMaps(s)[q] = ConfigMap(s, NodeSpecs(s)[q])
  BY ConfigMapType DEF ConfigMaps
<1>5. ConfigMap(s, NodeSpecs(s)[p]) = ConfigMap(s, NodeSpecs(s)[q])
  BY <1>3, <1>4, OneConfigMap DEF Configured
<1> QED
  BY <1>3, <1>4, <1>5

\* Two places of one key are places of one node.
LEMMA OneNode ==
    ASSUME NEW s \in Specs, Separate(s), NEW p \in Placed(s), NEW q \in Placed(s),
           Key(NodeSpecs(s)[p]) = Key(NodeSpecs(s)[q])
    PROVE  NodeSpecs(s)[p] = NodeSpecs(s)[q]
<1>1. p \in DOMAIN NodeSpecs(s) /\ q \in DOMAIN NodeSpecs(s)
  BY DEF Placed, Configured
<1> QED
  BY <1>1, NodeAt DEF Separate

LEMMA ServiceInPlace ==
    ASSUME NEW s \in Specs, Separate(s), NEW have, InPlace(have, Services(s)), NEW p \in Placed(s)
    PROVE  have[Key(NodeSpecs(s)[p])] = Service(NodeSpecs(s)[p])
<1>1. PICK b \in Nat : IsList(Services(s), b)
  BY PlanLists
<1>2. DOMAIN Services(s) = Placed(s) /\ \A q \in Placed(s) : Services(s)[q] = Service(NodeSpecs(s)[q])
  BY DEF Services
<1>3. PICK q \in Placed(s) :
        /\ Services(s)[q].name = Services(s)[p].name
        /\ have[Services(s)[p].name] = Services(s)[q]
  BY <1>1, <1>2, InPlaceAt
<1>4. /\ Services(s)[p].name = Key(NodeSpecs(s)[p])
      /\ Services(s)[q].name = Key(NodeSpecs(s)[q])
  BY <1>2 DEF Service
<1>5. NodeSpecs(s)[p] = NodeSpecs(s)[q]
  BY <1>3, <1>4, OneNode
<1> QED
  BY <1>2, <1>3, <1>4, <1>5

LEMMA WorkloadInPlace ==
    ASSUME NEW s \in Specs, Separate(s), NEW have, InPlace(have, Workloads(s)), NEW p \in Placed(s)
    PROVE  \E q \in Placed(s) :
             NodeSpecs(s)[q] = NodeSpecs(s)[p] /\ have[Key(NodeSpecs(s)[p])] = Workload(s, q)
<1>1. PICK b \in Nat : IsList(Workloads(s), b)
  BY PlanLists
<1>2. DOMAIN Workloads(s) = Placed(s) /\ \A q \in Placed(s) : Workloads(s)[q] = Workload(s, q)
  BY DEF Workloads
<1>3. PICK q \in Placed(s) :
        /\ Workloads(s)[q].name = Workloads(s)[p].name
        /\ have[Workloads(s)[p].name] = Workloads(s)[q]
  BY <1>1, <1>2, InPlaceAt
<1>4. /\ Workloads(s)[p].name = Key(NodeSpecs(s)[p])
      /\ Workloads(s)[q].name = Key(NodeSpecs(s)[q])
  BY <1>2, WorkloadType
<1>5. NodeSpecs(s)[p] = NodeSpecs(s)[q]
  BY <1>3, <1>4, OneNode
<1> QED
  BY <1>2, <1>3, <1>4, <1>5

LEMMA OneHash ==
    ASSUME NEW s \in Specs, Separate(s), NEW p \in Configured(s)
    PROVE  Hashes(s, p) = {ConfigMap(s, NodeSpecs(s)[p])}
<1>1. ASSUME NEW q \in Configured(s), NodeSpecs(s)[q].group = NodeSpecs(s)[p].group
      PROVE  ConfigMap(s, NodeSpecs(s)[q]) = ConfigMap(s, NodeSpecs(s)[p])
  BY <1>1, OneConfigMap DEF Configured
<1>2. UpTo(p, p)
  <2>1. p \in Positions(s)
    BY PlanTypes
  <2>2. p[2] \in Nat
    BY <2>1, SpecTypes
  <2> QED
    BY <2>2 DEF UpTo
<1> QED
  BY <1>1, <1>2 DEF Hashes

\* A reconcile gets to its end by the clean-up alone, which leaves the three
\* lists in place.
LEMMA Finished ==
    ASSUME IInv, [Next]_vars, Finishes
    PROVE  /\ ctl.spec \in Specs /\ Expands(ctl.spec)
           /\ InPlace(configMaps', ConfigMaps(ctl.spec))
           /\ InPlace(services', Services(ctl.spec))
           /\ InPlace(workloads', Workloads(ctl.spec))
<1>1. ctl.pc = "store" /\ ctl' = Idle /\ faults' = faults
  BY DEF Finishes
<1>2. TypeOK /\ Planned /\ Progress
  BY DEF IInv
<1>3. ctl.spec \in Specs /\ Expands(ctl.spec) /\ ctl.plan = Plan(ctl.spec)
  BY <1>1, <1>2, UnderWay
<1>4. ctl # Idle
  BY <1>1 DEF Idle
<1>5. ReconcileStore
  <2>1. ~EditSpec /\ ~UNCHANGED vars
    BY <1>1, <1>4 DEF EditSpec, vars
  <2>2. ~Start
    BY <1>4 DEF Start
  <2>3. ~ReconcileConfigMap /\ ~ReconcileService /\ ~ReconcileDeployOrSts
    BY <1>1 DEF ReconcileConfigMap, ReconcileService, ReconcileDeployOrSts
  <2>4. ~Restart
    <3>1. faults \in Nat
      BY <1>2, PinotClusterAssumption DEF TypeOK
    <3> QED
      BY <1>1, <3>1 DEF Restart
  <2> QED
    BY <2>1, <2>2, <2>3, <2>4 DEF Next, Step
<1>6. PICK s \in Specs : s = ctl.spec
  BY <1>3
<1>7. /\ configMaps' \in Drop(configMaps, ConfigMaps(s))
      /\ services' \in Drop(services, Services(s))
      /\ workloads' \in Drop(workloads, Workloads(s))
  BY <1>3, <1>5, <1>6 DEF ReconcileStore, Plan
<1>8. /\ InPlace(configMaps, ConfigMaps(s))
      /\ InPlace(services, Services(s))
      /\ InPlace(workloads, Workloads(s))
  BY <1>1, <1>2, <1>3, <1>6 DEF Progress, Plan
<1>9. /\ Listed(ConfigMaps(s)) \subseteq DOMAIN configMaps
      /\ Listed(Services(s)) \subseteq DOMAIN services
      /\ Listed(Workloads(s)) \subseteq DOMAIN workloads
  BY <1>2, ListedNames DEF TypeOK
<1>10. /\ InPlace(configMaps', ConfigMaps(s))
       /\ InPlace(services', Services(s))
       /\ InPlace(workloads', Workloads(s))
  BY <1>7, <1>8, <1>9, DropKeepsInPlace
<1> QED
  BY <1>3, <1>6, <1>10

\* Every node that the spec asks for has its config map, its service and its
\* workload when a reconcile ends, whatever was there before and whichever
\* calls of earlier reconciles failed; ReconcileDeploys is the property.
THEOREM EndDeploys ==
    ASSUME OrdersOfFour
    PROVE  Spec => ReconcileDeploys
<1> DEFINE Deploys ==
      Finishes /\ Separate(ctl.spec) =>
        \A n \in Wanted(ctl.spec) : Deployed(ctl.spec, n, configMaps', services', workloads')
<1>1. ASSUME IInv, [Next]_vars
      PROVE  Deploys
  <2> SUFFICES ASSUME Finishes, Separate(ctl.spec), NEW n \in Wanted(ctl.spec)
               PROVE  Deployed(ctl.spec, n, configMaps', services', workloads')
    OBVIOUS
  <2>1. PICK s \in Specs : s = ctl.spec
    BY <1>1, Finished
  <2>2. PICK p \in Placed(s) : NodeSpecs(s)[p] = n
    BY <2>1, WantedPlaced
  <2>3. p \in Configured(s)
    BY DEF Placed
  <2>4. configMaps'[n.group] = ConfigMap(s, n)
    BY <1>1, <2>1, <2>2, <2>3, Finished, ConfigMapInPlace
  <2>5. services'[Key(n)] = Service(n)
    BY <1>1, <2>1, <2>2, Finished, ServiceInPlace
  <2>6. PICK q \in Placed(s) : NodeSpecs(s)[q] = n /\ workloads'[Key(n)] = Workload(s, q)
    BY <1>1, <2>1, <2>2, Finished, WorkloadInPlace
  <2>7. Runs(n, workloads')
    BY <2>6, WorkloadType, PinotClusterAssumption DEF Runs
  <2> QED
    BY <2>1, <2>4, <2>5, <2>7 DEF Deployed
<1>2. IInv /\ [Next]_vars => [Deploys]_vars
  BY <1>1
<1>3. [][Deploys]_vars <=> ReconcileDeploys
  BY DEF ReconcileDeploys
<1> HIDE DEF Deploys
<1> QED
  BY <1>2, <1>3, Invariance, PTL DEF Spec

\* The hash that a workload has been given is the one of the config map that
\* it mounts, as it is after the reconcile; HashesFollow is the property.
THEOREM EndHashes ==
    ASSUME OrdersOfFour
    PROVE  Spec => HashesFollow
<1> DEFINE Follow ==
      Finishes /\ Separate(ctl.spec) =>
        \A n \in Wanted(ctl.spec) : workloads'[Key(n)].hashes = {configMaps'[n.group]}
<1>1. ASSUME IInv, [Next]_vars
      PROVE  Follow
  <2> SUFFICES ASSUME Finishes, Separate(ctl.spec), NEW n \in Wanted(ctl.spec)
               PROVE  workloads'[Key(n)].hashes = {configMaps'[n.group]}
    OBVIOUS
  <2>1. PICK s \in Specs : s = ctl.spec
    BY <1>1, Finished
  <2>2. PICK p \in Placed(s) : NodeSpecs(s)[p] = n
    BY <2>1, WantedPlaced
  <2>3. configMaps'[n.group] = ConfigMap(s, n)
    BY <1>1, <2>1, <2>2, Finished, ConfigMapInPlace DEF Placed
  <2>4. PICK q \in Placed(s) : NodeSpecs(s)[q] = n /\ workloads'[Key(n)] = Workload(s, q)
    BY <1>1, <2>1, <2>2, Finished, WorkloadInPlace
  <2>5. Workload(s, q).hashes = {ConfigMap(s, n)}
    BY <2>1, <2>4, WorkloadType, OneHash DEF Placed
  <2> QED
    BY <2>3, <2>4, <2>5
<1>2. IInv /\ [Next]_vars => [Follow]_vars
  BY <1>1
<1>3. [][Follow]_vars <=> HashesFollow
  BY DEF HashesFollow
<1> HIDE DEF Follow
<1> QED
  BY <1>2, <1>3, Invariance, PTL DEF Spec

\* A config group that nodes of several types share ends with the file of the
\* last of the types in deploymentOrder; LastTypeWins is the property.
THEOREM EndHasLastType ==
    ASSUME OrdersOfFour
    PROVE  Spec => LastTypeWins
<1> DEFINE LastOfAll ==
      Finishes =>
        \A g \in DOMAIN ctl.spec.configs :
          \A n \in {n \in Range(ctl.spec.nodes) : n.group = g /\ n.type \in Range(ctl.spec.order)} :
            /\ configMaps'[g] # Nil
            /\ \/ configMaps'[g] = ConfigMap(ctl.spec, n)
               \/ Before(ctl.spec, n.type, configMaps'[g].type)
<1>1. ASSUME IInv, [Next]_vars
      PROVE  LastOfAll
  <2> SUFFICES ASSUME Finishes, NEW g \in DOMAIN ctl.spec.configs,
                      NEW n \in Range(ctl.spec.nodes), n.group = g, n.type \in Range(ctl.spec.order)
               PROVE  /\ configMaps'[g] # Nil
                      /\ \/ configMaps'[g] = ConfigMap(ctl.spec, n)
                         \/ Before(ctl.spec, n.type, configMaps'[g].type)
    OBVIOUS
  <2>1. PICK s \in Specs : s = ctl.spec
    BY <1>1, Finished
  <2>2. Expands(s) /\ InPlace(configMaps', ConfigMaps(s))
    BY <1>1, <2>1, Finished
  <2>3. PICK i \in 1..Len(s.order) : s.order[i] = n.type
    <3>1. n.type \in Range(s.order)
      BY <2>1
    <3> QED
      BY <3>1, SpecTypes DEF Range
  <2>4. PICK p \in DOMAIN NodeSpecs(s) : p[1] = i /\ NodeSpecs(s)[p] = n
    BY <2>1, <2>3, NodePosition
  <2>5. p \in Configured(s)
    BY <2>1, <2>4 DEF Configured
  <2>6. PICK b \in Nat : IsList(ConfigMaps(s), b)
    BY PlanLists
  <2>7. DOMAIN ConfigMaps(s) = Configured(s)
        /\ \A q \in Configured(s) : ConfigMaps(s)[q] = ConfigMap(s, NodeSpecs(s)[q])
    BY DEF ConfigMaps
  <2>8. PICK q \in Configured(s) :
          /\ ConfigMaps(s)[q].name = ConfigMaps(s)[p].name
          /\ configMaps'[ConfigMaps(s)[p].name] = ConfigMaps(s)[q]
          /\ UpTo(p, q)
    BY <2>2, <2>5, <2>6, <2>7, InPlaceAt
  <2>9. PICK m : m = NodeSpecs(s)[q]
    OBVIOUS
  <2>10. m.group = g /\ configMaps'[g] = ConfigMap(s, m) /\ configMaps'[g].type = m.type
    BY <2>4, <2>5, <2>7, <2>8, <2>9 DEF ConfigMap
  <2>11. configMaps'[g] # Nil
    BY <2>9, <2>10, ConfigMapType, PinotClusterAssumption
  <2>12. q[1] \in 1..4 /\ m.type = s.order[q[1]]
    BY <2>9, NodeAt, SpecTypes DEF Configured
  <2>13. CASE p[1] = q[1]
    <3>1. m.type = n.type
      BY <2>3, <2>4, <2>12, <2>13
    <3> QED
      BY <2>1, <2>10, <2>11, <3>1 DEF ConfigMap
  <2>14. CASE p[1] < q[1]
    <3>1. i \in 1..Len(s.order) /\ q[1] \in 1..Len(s.order) /\ i < q[1]
      BY <2>2, <2>4, <2>12, <2>14, SpecTypes DEF Expands
    <3>2. Before(s, n.type, m.type)
      BY <2>3, <2>12, <3>1 DEF Before
    <3> QED
      BY <2>1, <2>10, <2>11, <3>2
  <2> QED
    BY <2>8, <2>13, <2>14 DEF UpTo
<1>2. IInv /\ [Next]_vars => [LastOfAll]_vars
  BY <1>1
<1>3. [][LastOfAll]_vars <=> LastTypeWins
  BY DEF LastTypeWins
<1> HIDE DEF LastOfAll
<1> QED
  BY <1>2, <1>3, Invariance, PTL DEF Spec

\* A prefix has every position before one that it has.
LEMMA PrefixIsClosed ==
    ASSUME NEW b \in Nat, NEW list, IsList(list, b), NEW done \in Prefixes(list),
           NEW p \in DOMAIN list, NEW q \in done, p[1] < q[1]
    PROVE  p \in done
<1>1. PICK r \in DOMAIN list : done = {u \in DOMAIN list : UpTo(u, r)}
  BY DEF Prefixes
<1>2. q \in DOMAIN list /\ UpTo(q, r)
  BY <1>1
<1>3. p[1] \in Nat /\ q[1] \in Nat /\ r[1] \in Nat
  BY <1>1, <1>2 DEF IsList
<1>4. UpTo(p, r)
  BY <1>2, <1>3 DEF UpTo
<1> QED
  BY <1>1, <1>4

\* No workload of a type is touched before those of the earlier types run,
\* in a reconcile that fails too; DeploymentOrderKept is the property.
THEOREM OrderIsKept ==
    ASSUME OrdersOfFour, OrdersApart
    PROVE  Spec => DeploymentOrderKept
<1> DEFINE Kept ==
      ctl.pc = "workloads" /\ Separate(ctl.spec) =>
        \A m, n \in Wanted(ctl.spec) :
          Before(ctl.spec, m.type, n.type) /\ workloads'[Key(n)] # workloads[Key(n)] =>
            Runs(m, workloads')
<1>1. ASSUME IInv, [Next]_vars
      PROVE  Kept
  <2> SUFFICES ASSUME ctl.pc = "workloads", Separate(ctl.spec),
                      NEW m \in Wanted(ctl.spec), NEW n \in Wanted(ctl.spec),
                      Before(ctl.spec, m.type, n.type), workloads'[Key(n)] # workloads[Key(n)]
               PROVE  Runs(m, workloads')
    OBVIOUS
  <2>1. TypeOK /\ Planned
    BY <1>1 DEF IInv
  <2>2. PICK s \in Specs : s = ctl.spec /\ Expands(s) /\ ctl.plan.workloads = Workloads(s)
    BY <2>1, UnderWay
  <2>3. ReconcileDeployOrSts
    <3>1. ~EditSpec /\ ~Restart /\ ~UNCHANGED vars
      BY DEF EditSpec, Restart, vars, objects
    <3>2. ctl # Idle
      BY DEF Idle
    <3>3. ~Start /\ ~ReconcileConfigMap /\ ~ReconcileService /\ ~ReconcileStore
      BY <3>2 DEF Start, ReconcileConfigMap, ReconcileService, ReconcileStore
    <3> QED
      BY <1>1, <3>1, <3>3 DEF Next, Step
  <2>4. PICK list : list = Workloads(s)
    OBVIOUS
  <2>5. PICK done \in Prefixes(list) : workloads' = Apply(workloads, list, done)
    BY <2>2, <2>3, <2>4 DEF ReconcileDeployOrSts
  <2>6. PICK b \in Nat : IsList(list, b)
    BY <2>4, PlanLists
  <2>7. done \in SUBSET DOMAIN list /\ DOMAIN list = Placed(s)
        /\ \A p \in Placed(s) : list[p] = Workload(s, p) /\ list[p].name = Key(NodeSpecs(s)[p])
    BY <2>4, PrefixOf, WorkloadType DEF Workloads
  <2>8. m \in Nodes /\ n \in Nodes /\ m \in Range(s.nodes) /\ n \in Range(s.nodes)
    BY <2>2, SpecTypes DEF Wanted, Range
  <2>9. Key(m) \in DOMAIN workloads /\ Key(n) \in DOMAIN workloads
    BY <2>1, <2>8, NodeTypes DEF TypeOK
  <2>10. PICK i, j \in 1..Len(s.order) : i < j /\ s.order[i] = m.type /\ s.order[j] = n.type
    BY <2>2 DEF Before
  <2>11. PICK q \in done : list[q].name = Key(n)
    BY <2>5, <2>9, Untouched
  <2>12. q \in Placed(s) /\ q \in DOMAIN NodeSpecs(s)
    BY <2>7 DEF Placed, Configured
  <2>13. NodeSpecs(s)[q] = n
    BY <2>2, <2>7, <2>8, <2>11, <2>12, NodeAt DEF Separate
  <2>14. q[1] = j
    <3>1. s.order[q[1]] = n.type /\ q[1] \in 1..4
      BY <2>12, <2>13, NodeAt, SpecTypes
    <3>2. q[1] \in 1..Len(s.order)
      BY <2>2, <3>1, SpecTypes DEF Expands
    <3> QED
      BY <2>10, <3>1, <3>2 DEF OrdersApart
  <2>15. PICK p \in DOMAIN NodeSpecs(s) : p[1] = i /\ NodeSpecs(s)[p] = m
    BY <2>8, <2>10, NodePosition
  <2>16. p \in Placed(s)
    BY <2>2, <2>15 DEF Placed, Configured, Wanted
  <2>17. p \in done
    <3>1. p \in DOMAIN list /\ p[1] < q[1]
      BY <2>7, <2>10, <2>14, <2>15, <2>16
    <3> QED
      BY <2>6, <3>1, PrefixIsClosed
  <2>18. PICK r \in done : list[r].name = Key(m) /\ workloads'[Key(m)] = list[r]
    <3>1. PICK have : have = workloads
      OBVIOUS
    <3>2. PICK x : x = Key(m)
      OBVIOUS
    <3>3. /\ x \in DOMAIN have
          /\ list[p].name = x
          /\ done \in SUBSET DOMAIN list
      BY <2>7, <2>9, <2>15, <2>16, <3>1, <3>2
    <3>4. \E r \in done : list[r].name = x /\ Apply(have, list, done)[x] = list[r]
      BY <2>6, <2>17, <3>3, Touched
    <3> QED
      BY <2>5, <3>1, <3>2, <3>4
  <2>19. r \in Placed(s) /\ NodeSpecs(s)[r] = m
    BY <2>2, <2>7, <2>15, <2>16, <2>18, OneNode
  <2>20. workloads'[Key(m)] = Workload(s, r)
    BY <2>7, <2>18, <2>19
  <2> QED
    BY <2>19, <2>20, WorkloadType, PinotClusterAssumption DEF Runs
<1>2. IInv /\ [Next]_vars => [Kept]_vars
  BY <1>1
<1>3. [][Kept]_vars <=> DeploymentOrderKept
  BY DEF DeploymentOrderKept
<1> HIDE DEF Kept
<1> QED
  BY <1>2, <1>3, Invariance, PTL DEF Spec
=============================================================================
