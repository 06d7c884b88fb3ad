---------------------------- MODULE PinotCluster ----------------------------
(***************************************************************************)
(* The Pinot cluster controller: how a Pinot resource becomes config maps, *)
(* services and workloads, and how a reconcile applies them one by one,    *)
(* each of which may fail, while the user edits the resource.              *)
(*                                                                         *)
(* What an object contains is abstracted to what ties it to others: the    *)
(* config map of a group is named after the group and holds the file of    *)
(* one node type; a workload mounts the config map of its node's group and *)
(* has the hashes of the config maps of that name in its environment; a    *)
(* service selects by the labels of its node.                              *)
(*                                                                         *)
(* A list that do() makes is a function on positions: <<i, j>> is where the *)
(* j-th node comes when the i-th type of deploymentOrder is listed.  A list *)
(* has no element at the positions of nodes that it does not take.         *)
(***************************************************************************)
EXTENDS Naturals, Sequences, Functions

CONSTANTS NodeNames, Types, Groups, K8sGroups, Data,
          Specs,      \* specs a user may give the resource
          Nil,        \* no object
          MaxFaults   \* bound: failures in one behaviour

Nodes == [name : NodeNames, type : Types, group : Groups, k8s : K8sGroups]

Keys == NodeNames \X K8sGroups

\* The objects that the operator makes.
ConfigMapObjects == [name : Groups, type : Types, data : Data]

ServiceObjects == [name : Keys, selector : Types \X Groups \X K8sGroups]

WorkloadObjects == [name : Keys, type : Types, mount : Groups, hashes : SUBSET ConfigMapObjects]

\* order is deploymentOrder; configs maps the groups of pinotNodeConfig to
\* their data; k8s are the groups of k8sConfig.
ASSUME PinotClusterAssumption ==
    /\ \A s \in Specs :
         /\ s.order \in Seq(Types)
         /\ s.nodes \in Seq(Nodes)
         /\ DOMAIN s.configs \subseteq Groups
         /\ s.configs \in [DOMAIN s.configs -> Data]
         /\ s.k8s \subseteq K8sGroups
    /\ Nil \notin ConfigMapObjects
    /\ Nil \notin ServiceObjects
    /\ Nil \notin WorkloadObjects
    /\ MaxFaults \in Nat

-----------------------------------------------------------------------------
(* From a spec to lists of objects *)

Positions(s) == (1..4) \X DOMAIN s.nodes

\* Position p is q or comes before it.
UpTo(p, q) == p[1] < q[1] \/ (p[1] = q[1] /\ p[2] <= q[2])

\* Mutant of NodeSpecs: the nodes as they come.
NodesAsGiven(s) == [p \in {1} \X DOMAIN s.nodes |-> s.nodes[p[2]]]

\* Mutant of NodeSpecs: one index written twice.
NodeSpecsSlip(s) ==
    [p \in {p \in Positions(s) : s.nodes[p[2]].type = s.order[IF p[1] = 4 THEN 3 ELSE p[1]]}
       |-> s.nodes[p[2]]]

\* getAllNodeSpecForNodeType: the nodes of the first four types of the order,
\* type by type.  A node of another type is dropped.
NodeSpecs(s) ==
    [p \in {p \in Positions(s) : s.nodes[p[2]].type = s.order[p[1]]} |-> s.nodes[p[2]]]

\* do() indexes the order up to 3 and uses the builder of the last node: a
\* shorter order, or no node at all, is a panic.
Expands(s) == Len(s.order) >= 4 /\ DOMAIN NodeSpecs(s) # {}

Configured(s) == {p \in DOMAIN NodeSpecs(s) : NodeSpecs(s)[p].group \in DOMAIN s.configs}

ConfigMap(s, n) == [name |-> n.group, type |-> n.type, data |-> s.configs[n.group]]

ConfigMaps(s) == [p \in Configured(s) |-> ConfigMap(s, NodeSpecs(s)[p])]

\* The code joins the two with a "-" in between.  They stay apart here: names
\* that two different pairs make the same way are left out.
Key(n) == <<n.name, n.k8s>>

Service(n) == [name |-> Key(n), selector |-> <<n.type, n.group, n.k8s>>]

\* Mutant of Hashes: the hash list is extended after the workload is made.
HashesBefore(s, p) ==
    {ConfigMap(s, NodeSpecs(s)[q]) :
       q \in {q \in Configured(s) \ {p} : UpTo(q, p) /\ NodeSpecs(s)[q].group = NodeSpecs(s)[p].group}}

\* Hashes of the config maps made so far that have the name of the one at p.
Hashes(s, p) ==
    {ConfigMap(s, NodeSpecs(s)[q]) :
       q \in {q \in Configured(s) : UpTo(q, p) /\ NodeSpecs(s)[q].group = NodeSpecs(s)[p].group}}

\* Mutant of Mount: the volume is named after the other group of the node.
MountSwapped(n) == n.k8s

\* The config map behind the volume of the configuration.
Mount(n) == n.group

Workload(s, p) ==
    LET n == NodeSpecs(s)[p]
    IN  [name |-> Key(n), type |-> n.type, mount |-> Mount(n), hashes |-> Hashes(s, p)]

\* Positions of the nodes that get a workload and a service.
Placed(s) == {p \in Configured(s) : NodeSpecs(s)[p].k8s \in s.k8s}

Workloads(s) == [p \in Placed(s) |-> Workload(s, p)]

Services(s) == [p \in Placed(s) |-> Service(NodeSpecs(s)[p])]

\* What do() lists before it calls anything.
Plan(s) == [configMaps |-> ConfigMaps(s), services |-> Services(s), workloads |-> Workloads(s)]

-----------------------------------------------------------------------------
(* The cluster and the reconcile *)

VARIABLES spec,      \* the spec of the Pinot resource
          ctl,       \* the reconcile under way, the spec it read and its lists
          configMaps, services, workloads,   \* what Kubernetes has, by name
          faults,
          orphans    \* history: workloads a clean-up found not listed

vars == <<spec, ctl, configMaps, services, workloads, faults, orphans>>

objects == <<configMaps, services, workloads>>

Idle == [pc |-> "idle"]

Init ==
    /\ spec \in Specs
    /\ ctl = Idle
    /\ configMaps = [g \in Groups |-> Nil]
    /\ services = [k \in Keys |-> Nil]
    /\ workloads = [k \in Keys |-> Nil]
    /\ faults = 0
    /\ orphans = {}

EditSpec ==
    /\ spec' \in Specs \ {spec}
    /\ UNCHANGED <<ctl, objects, faults, orphans>>

\* A spec that does not expand ends the manager, which starts again.
Start ==
    /\ ctl = Idle
    /\ ctl' = IF Expands(spec) THEN [pc |-> "configMaps", spec |-> spec, plan |-> Plan(spec)]
            ELSE Idle
    /\ UNCHANGED <<spec, objects, faults, orphans>>

\* Mutant of Following: the services are forgotten.
WithoutServices(pc) ==
    CASE pc = "configMaps" -> "workloads"
      [] pc = "services" -> "workloads"
      [] pc = "workloads" -> "store"

\* The order of the calls in do().
Following(pc) ==
    CASE pc = "configMaps" -> "services"
      [] pc = "services" -> "workloads"
      [] pc = "workloads" -> "store"

\* How far a list may be applied: not at all, or up to a position.
Prefixes(list) == {{}} \cup {{q \in DOMAIN list : UpTo(q, p)} : p \in DOMAIN list}

Last(ps) == CHOOSE p \in ps : \A q \in ps : UpTo(q, p)

\* The objects at the positions done are created or set; of one name, the
\* last wins.
Apply(have, list, done) ==
    [x \in DOMAIN have |->
      LET hits == {p \in done : list[p].name = x}
      IN  IF hits = {} THEN have[x] ELSE list[Last(hits)]]

\* A list is applied to its end; an error before ends the reconcile.
Advance(list, done) ==
    IF done = DOMAIN list THEN ctl' = [ctl EXCEPT !.pc = Following(ctl.pc)] /\ UNCHANGED faults
    ELSE ctl' = Idle /\ faults < MaxFaults /\ faults' = faults + 1

\* Mutant of ReconcileConfigMap: its error is not looked at.
ConfigMapUnchecked ==
    /\ ctl.pc = "configMaps"
    /\ LET list == ctl.plan.configMaps
       IN  \E done \in Prefixes(list) : configMaps' = Apply(configMaps, list, done)
    /\ ctl' = [ctl EXCEPT !.pc = Following(ctl.pc)]
    /\ UNCHANGED <<spec, services, workloads, faults, orphans>>

ReconcileConfigMap ==
    /\ ctl.pc = "configMaps"
    /\ LET list == ctl.plan.configMaps
       IN  \E done \in Prefixes(list) :
             configMaps' = Apply(configMaps, list, done) /\ Advance(list, done)
    /\ UNCHANGED <<spec, services, workloads, orphans>>

ReconcileService ==
    /\ ctl.pc = "services"
    /\ LET list == ctl.plan.services
       IN  \E done \in Prefixes(list) :
             services' = Apply(services, list, done) /\ Advance(list, done)
    /\ UNCHANGED <<spec, configMaps, workloads, orphans>>

ReconcileDeployOrSts ==
    /\ ctl.pc = "workloads"
    /\ LET list == ctl.plan.workloads
       IN  \E done \in Prefixes(list) :
             /\ workloads' = Apply(workloads, list, done)
             /\ orphans' = orphans \ {list[p].name : p \in done}
             /\ Advance(list, done)
    /\ UNCHANGED <<spec, configMaps, services>>

Listed(list) == {list[p].name : p \in DOMAIN list}

Unlisted(have, list) == {x \in DOMAIN have : have[x] # Nil} \ Listed(list)

\* Some of the objects that are not in the lists go; which of them are found
\* depends on labels and is left open.
Drop(have, list) ==
    {[x \in DOMAIN have |-> IF x \in gone THEN Nil ELSE have[x]] :
       gone \in SUBSET Unlisted(have, list)}

ReconcileStore ==
    /\ ctl.pc = "store"
    /\ configMaps' \in Drop(configMaps, ctl.plan.configMaps)
    /\ services' \in Drop(services, ctl.plan.services)
    /\ workloads' \in Drop(workloads, ctl.plan.workloads)
    /\ orphans' = Unlisted(workloads, ctl.plan.workloads)
    /\ ctl' = Idle
    /\ UNCHANGED <<spec, faults>>

\* The manager stops and another one takes over.
Restart ==
    /\ ctl # Idle /\ faults < MaxFaults
    /\ ctl' = Idle /\ faults' = faults + 1
    /\ UNCHANGED <<spec, objects, orphans>>

Step ==
    \/ Start
    \/ ReconcileConfigMap \/ ReconcileService \/ ReconcileDeployOrSts \/ ReconcileStore

Next == EditSpec \/ Step \/ Restart

Spec == Init /\ [][Next]_vars

\* Every reconcile asks for the next one.  Users and failures are not fair.
FairSpec == Spec /\ WF_vars(Step)

-----------------------------------------------------------------------------
(* Properties *)

Plans == {Plan(s) : s \in {s \in Specs : Expands(s)}}

TypeOK ==
    /\ spec \in Specs
    /\ ctl \in {Idle} \cup
         [pc : {"configMaps", "services", "workloads", "store"}, spec : Specs, plan : Plans]
    /\ configMaps \in [Groups -> ConfigMapObjects \cup {Nil}]
    /\ services \in [Keys -> ServiceObjects \cup {Nil}]
    /\ workloads \in [Keys -> WorkloadObjects \cup {Nil}]
    /\ faults \in 0..MaxFaults
    /\ orphans \subseteq Keys

\* The nodes a user means to run.
Wanted(s) ==
    {n \in Range(s.nodes) :
       n.type \in Range(s.order) /\ n.group \in DOMAIN s.configs /\ n.k8s \in s.k8s}

\* No two node types share a config group, and no two nodes a workload name.
Separate(s) ==
    \A m, n \in Range(s.nodes) :
      /\ m.group = n.group => m.type = n.type
      /\ Key(m) = Key(n) => m = n

\* A workload of n that mounts the group of n.
Runs(n, wls) ==
    wls[Key(n)] # Nil /\ wls[Key(n)].type = n.type /\ wls[Key(n)].mount = n.group

Deployed(s, n, cms, svcs, wls) ==
    /\ Runs(n, wls)
    /\ cms[n.group] = ConfigMap(s, n)
    /\ svcs[Key(n)] = Service(n)

Finishes == ctl.pc = "store" /\ ctl' = Idle /\ faults' = faults

\* A reconcile that gets to its end leaves every node that its spec asks for
\* with its config map, its service and its workload, whatever earlier specs,
\* failures and clean-ups have left behind.
ReconcileDeploys ==
    [][Finishes /\ Separate(ctl.spec) =>
         \A n \in Wanted(ctl.spec) :
           Deployed(ctl.spec, n, configMaps', services', workloads')]_vars

\* ... and the hash in each workload's environment is that of the config map
\* it mounts, so that a change of the configuration restarts its pods.
HashesFollow ==
    [][Finishes /\ Separate(ctl.spec) =>
         \A n \in Wanted(ctl.spec) :
           workloads'[Key(n)].hashes = {configMaps'[n.group]}]_vars

Before(s, t1, t2) ==
    \E i, j \in 1..Len(s.order) : i < j /\ s.order[i] = t1 /\ s.order[j] = t2

\* Nodes of several types may share a config group, whose config map then has
\* the file of one of them: that of the last type in deploymentOrder, whatever
\* the order of the nodes in the resource and what was there before.
LastTypeWins ==
    [][Finishes =>
         \A g \in DOMAIN ctl.spec.configs :
           \A n \in {n \in Range(ctl.spec.nodes) : n.group = g /\ n.type \in Range(ctl.spec.order)} :
             /\ configMaps'[g] # Nil
             /\ \/ configMaps'[g] = ConfigMap(ctl.spec, n)
                \/ Before(ctl.spec, n.type, configMaps'[g].type)]_vars

\* The config map that a workload mounts exists, between any two calls and
\* after any failure, unless the workload was out of the spec at a clean-up
\* and has not been applied since.
MountsBacked ==
    \A k \in Keys \ orphans :
      workloads[k] # Nil => configMaps[workloads[k].mount] # Nil

\* A node is not touched before the nodes of the types that come before its
\* own in deploymentOrder have been.
DeploymentOrderKept ==
    [][ctl.pc = "workloads" /\ Separate(ctl.spec) =>
         \A m, n \in Wanted(ctl.spec) :
           Before(ctl.spec, m.type, n.type) /\ workloads'[Key(n)] # workloads[Key(n)] =>
             Runs(m, workloads')]_vars

\* A spec that is left alone is deployed in the end and stays so.
Converges ==
    \A s \in {s \in Specs : Expands(s) /\ Separate(s)} :
      <>[](spec = s) =>
        <>[](\A n \in Wanted(s) : Deployed(s, n, configMaps, services, workloads))
=============================================================================
