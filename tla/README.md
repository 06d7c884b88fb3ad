# A verification project for the Pinot control plane

`pinot-control-plane-k8s` is a Kubernetes operator: one manager process with
four controllers that keep Apache Pinot clusters, and the schemas, tenants and
tables inside them, in the state their custom resources (CRs) ask for.  This
directory holds TLA+ models of the four controllers and of the segment reloads
that a schema update sets off, checked by TLC on small instances, and proofs,
checked by TLAPS, that every safety property the runs check - invariants,
action properties and the refinements - holds for all instances.  Liveness is
left to TLC.

Line references are to the repository (`src/` is its root).

## 1. Inventory

| component | code | state it keeps | operations |
|---|---|---|---|
| PinotSchema controller | `internal/schema_controller/` | none between reconciles; the CR's status (recorded document, message) and finalizer, the schema in Pinot | `Reconcile`, `do`, `CreateOrUpdate`, `makePatchPinotSchemaStatus` |
| PinotTenant controller | `internal/tenant_controller/` | the same for broker and server tenants | the same |
| PinotTable controller | `internal/table_controller/reconciler.go` | the same for offline and realtime tables | the same |
| Segment reload | `internal/table_controller/pinottable_controller.go:96-202` | `status.reloadStatus` of tables: grows with each reload, emptied by every outcome that the table's own reconciler records (`table_controller/reconciler.go:357`) | the `UpdateFunc` predicate of a watch on PinotSchema |
| Pinot cluster controller | `internal/pinot_controller/` | none; config maps, services, workloads, volume claims in Kubernetes | `Reconcile`, `do`, `getAllNodeSpecForNodeType`, the `make...` builders |
| Status patch, JSON helpers | `internal/utils/` | none | `PatchStatus`, `IsEqualJson`, `GetValueFromJson` |
| HTTP client | `internal/http/http.go` | none | `Do` |
| Lookups | `getControllerSvcUrl`, `getAuthCreds` in each `reconciler.go` | none, reads the Pinot CR, its service and its secret | reads only |
| Manager process | `cmd/main.go` | caches, work queues | start, stop, leader election (a flag, off by default; both shipped deployments pass it) |
| Event filters | `predicates.go` of each controller | none | choose which events start a reconcile |
| API types | `api/v1beta1/` | the CRs | |

How they interact:

* **Users** write CRs to the API server at any time: create, edit, delete.
* An **informer** follows the API server with a delay.  Every `r.Get` of a
  reconciler reads the informer's cache; every write goes to the server.
* `r.Update(obj)` writes spec and metadata and is refused when the
  `resourceVersion` of `obj` is not current; both callers turn the refusal
  into `return nil`.  `Status().Patch` with `MergeFrom` sends only the fields
  that differ from the object read and is never refused for its version.
* A reconciler talks to **Pinot** over REST: `GET`, then `POST` or `PUT`,
  `DELETE` at the end.  Pinot's state is changed by a request even when its
  reply is lost.
* Each controller has one **worker**, and `Reconcile` asks to be called again
  in ten seconds; no event is needed for a reconcile to happen.
* Schema and table controller interact through the schema's *status*: the
  table controller's watch reads `UpdateSuccess` there and reloads segments.

What is hard:

* every read may be old, and the object held by a reconcile is replaced in the
  middle of it (`utils/patch.go:42` reads into the caller's variable);
* the user's edit may fall between any two of the calls;
* a call may fail, or succeed and lose its reply, at any point, and the
  manager may stop there, leaving Pinot, status and finalizer apart;
* the deletion path runs *after* `CreateOrUpdate` in every reconcile;
* the three reconcilers are copies of one another that differ in details:
  whether an existing resource is adopted, whether a refused update is
  recorded, what `GET` answers for a missing resource, what a `DELETE` takes;
* the reload of segments happens in an event filter, once, with no retry;
* a cluster is deployed by a sequence of calls, each for a list of objects,
  and edits and failures leave it anywhere in between.

What makes the components correct: no write of a controller undoes a user's
edit; a resource leaves the API server only after Pinot was told to drop what
its final spec names; a recorded status is true of Pinot; a spec left alone is
served in the end; a deletion completes; deleting one resource spares others;
a table that asks for it is reloaded with the schema Pinot has; a workload
never goes without the config map it mounts, and nodes come in the order asked
for.
The places where each of these could break are the `hazards` of
`PROJECT.json`, with the properties that would show it.

## 2. Modules

```
Documents ── ApiServer ─┐
         └── PinotRest ─┴─ Reconciler ── ManagedResource ─┬─ SchemaController ─┬─ MCSchemaController
                                                │ ▲       │                    ├─ ClusterLookup ── MCClusterLookup
                                                │ │       │                    └═ TwoManagers ── MCTwoManagers
                                                │ │       ├─ TenantController ── MCTenantController
                                                │ │       └─ TableController ── TableAndSchema ── MCTableAndSchema
                                                │ └═ ResourceLifecycle (also in TwoManagers)

SegmentReload ─┬─ MCSegmentReload        PinotCluster ─┬─ MCPinotCluster
               └─ SegmentReload_proofs                 └─ PinotCluster_proofs

Reconciler_proofs ── Settled_proofs ─┬─ SchemaController_proofs ═ TwoManagers_proofs
(on ManagedResource)                 ├─ TenantController_proofs   (on TwoManagers)
                                     └─ TableController_proofs
```

(`──` is EXTENDS, `═` an INSTANCE with substitutions.)

* **`Documents`** - the JSON texts in spec and status.  The operator compares
  two of them and reads a name from one, so a document is a model value;
  `NameOf` is the name it gives (`Nil` when it does not parse) and `RoleOf`
  what only Pinot looks at (broker or server, offline or realtime).
  `IsEqualJson` has three outcomes, as in `utils.go:35`: the empty string of a
  fresh status is an *error*, not a difference.
* **`ApiServer`** - CRs of one kind.  `api` is the server's object, `cache` the
  informer's, `watch` the events in between.  A `resourceVersion` is one bit
  (`uptodate`): the only question ever asked of it is whether the copy in hand
  is current.  `Read`, `Update`, `PatchStatus` are what controller-runtime's
  client does; `Transform` and the merge patch follow `utils/patch.go:46-58`
  and the callers' transforms.
* **`PinotRest`** - Pinot as the HTTP client sees it: `pinot` maps names and
  roles to the document served.  Answers are `ok`, `absent`, `refused`,
  `error`; an `error` leaves it open whether the request was carried out.
* **`Reconciler`** - what the three `reconciler.go` share.  `ctl` is the worker:
  the next call (`pc`) and the locals of `do` and `CreateOrUpdate` (`obj`,
  `path`, ...).  One action per call to the outside; the local code between
  two calls is part of the action before it (`Comparing`, `Finalizing`).
  `PatchStatus` is two actions, `Reread` and `Patch`, because the user may act
  in between.  `Abandon` ends a reconcile before its next call: a failed
  lookup, a failed API call or a manager that stops.
* **`ManagedResource`** - users, informer and queue around a reconciler, the
  fairness, and the properties.  `disturbed` is a history variable: the
  resources whose reconcile a user raced or a fault cut short.  Properties
  that cannot hold through such a race are stated for the others.
* **`SchemaController`, `TenantController`, `TableController`** - the calls
  that differ, `Step`, `Next`, `Spec`, `FairSpec`.
* **`ResourceLifecycle`** - the abstract specification: what the finalizer
  promises, without a cache, versions, copies or calls.  A resource is absent,
  new, managed or ending; it has a name; and there is the set of names to which
  the deletions under way have sent `DELETE`.  `Drop` wants the name of the
  final spec in that set.  The mapping is in `ManagedResource`: the phase is
  read off the server's object (`PhaseOf`), the name off its document
  (`NameNow`), and a name is sent while the worker stands between the answer
  to its `DELETE` and the `Update` that drops the finalizer (`SentNow`).
* **`ClusterLookup`** - the schema controller and what it looks up first:
  `getAuthCreds` fails without the Pinot object or its secret and ends the
  reconcile (`Start`), `getControllerSvcUrl` never fails and makes a URL with
  an empty host when it finds no service (`host`).  A request to a service
  that is not there ends the reconcile (`Unreached`); `DELETE` looks the
  service up again (`Reaches`).  Users deploy and remove the cluster at will.
* **`TableAndSchema`** - the table controller beside the schema its tables are
  made of.  `PinotTable.spec.pinotSchema` is read by no reconciler; the two
  meet in Pinot, which refuses a table without its schema and keeps a schema
  that a table uses.
* **`TwoManagers`** - two instances of `SchemaController` that share the API
  server and Pinot, each with an informer and a worker of its own.  Both shipped
  deployments (`config/manager/manager.yaml:72`,
  `helm/pinot-control-plane/templates/deployment.yaml:72`) pass
  `--leader-elect`, so this is about managers started without it, the default
  of the flag (`cmd/main.go:60`).  `Hears` gives each informer the events of the other's writes
  and makes the copies it handed out old.
* **`SegmentReload`** - the `UpdateFunc` predicate
  (`pinottable_controller.go:96-202`): `handler` is its program counter and
  locals, one action per call.  Around it goes on what it can meet:
  the user, who edits the schema to any other document, one that it had before
  included (`events` counts the update events that wait for the predicate); the
  schema reconciler, which decides by the informer's copy (`cached`) to send a
  document (`put`), sends it, and records the `outcome`, at any moment, so that
  the two seconds of sleep may or may not be enough; the table's reconciler,
  which empties the list of responses with every outcome it records
  (`RecordTable`; `log` is the list by its last response, `listed` says whether
  the informer's copy of it is empty); and a manager that starts anew
  (`Restart`), to whose predicate no event is an update, so that what waited is
  lost, whether the predicate was at work or at rest.  `excused` is a history
  variable: the tables the last look may have passed by.
* **`PinotCluster`** - `NodeSpecs` to `Plan` are what `do()` makes of a spec
  before its first call (`reconciler.go:38-92`, `constructors.go`,
  `internal_builder.go`).  A list is a function on positions: `<<i, j>>` is
  where the `j`-th node of the spec comes when the nodes of the `i`-th type are
  appended, and nodes that are not taken leave a gap (`UpTo` is the order).
  `Start` reads the spec and lists it, and the four
  `Reconcile...` actions are the four calls of the library, of which `Apply`
  and `Drop` model what the code relies on: the objects of a list are created
  or set one by one up to the first error, and `ReconcileStore` deletes some of
  the objects that are not listed.  `orphans` is a history variable: workloads
  that a clean-up found not listed.

| code | action |
|---|---|
| `Reconcile`: `r.Get`, `NotFound`, start of `CreateOrUpdate` | `StartReconcile` / `Reconcile` |
| `GET` and the branch on its status | `GetSchema`, `GetTenant`, `GetTable` |
| `POST` | `PostSchema`, `PostTenant`, `PostTable` |
| `PUT` | `PutSchema`, `PutTenant`, `PutTable` |
| `PatchStatus`: `c.Get` / `Status().Patch` | `Reread` / `Patch` |
| `AddFinalizer` + `r.Update` | `AddFinalizer` |
| `DELETE` | `DeleteSchema`, `DeleteTenant`, `DeleteTable` |
| `RemoveFinalizer` + `r.Update` | `RemoveFinalizer` |
| `return err` before a call, stop of the manager | `Interrupt` |

Definitions introduced by "Mutant of" are the code with one plausible bug put
in.  `Next` does not use them; each property is known to fail when one of them
takes the place of the original.

## 3. What is checked

| run | instance | shows |
|---|---|---|
| `SchemaSafety` | 1 CR, 3 documents of 2 names, lag 2, 1 fault | `TypeOK`, `CopiesAreVersions`, `NoSilentDivergence`, `CreateSuccessIsServed`, `ControllerKeepsSpec`, `CleanRemoval`, `RemovalLeavesNothing` |
| `ClusterLookup` | 1 CR, 2 documents, lag 1, 1 fault, a cluster that changes without end | the refinement `ImplementsLifecycle`, `RemovalLeavesNothing` although requests may reach nobody, `ServedOnceUsable`, `DeletionResumes` |
| `TwoManagers` | 1 CR, 2 documents of 2 names, lag 1, 3 writes of users, 1 reconcile of the second manager | `BothCopiesAreVersions`, `BothKeepSpec`, the refinement `TogetherImplementLifecycle` |
| `TenantResource` | 1 CR, 2 documents and one that is not JSON, lag 1, 1 fault | `NoSilentDivergence`, `RecordedParses`, `RemovalLeavesNothing`, `ImplementsLifecycle`, `CalmServedEventually` |
| `TenantPair` | 2 CRs for the broker and the server tenant of one name, lag 2, 1 fault | `LiveKeepsItsOwn` |
| `TableAndSchema` | 1 CR, 2 documents, lag 2, 1 fault, a schema that comes and goes without end | `RecordedTableIsServed`, `RemovalLeavesNothing`, `ImplementsLifecycle`, `ServedOnceBacked` |
| `SegmentReload` | 2 tables of the schema, 2 documents, 1 waiting event, edits and restarts without end | `NothingPassedBy` |
| `PinotCluster` | 6 specs of up to 2 nodes, 2 faults | `MountsBacked`, `ReconcileDeploys`, `HashesFollow`, `LastTypeWins`, `DeploymentOrderKept`, `Converges` |

Three of these answer questions the code leaves open:

* *What if the Pinot CR is deleted first?*  Every reconcile of its schemas
  then ends in `getAuthCreds`, and a schema being deleted stays.  It is stuck,
  not lost: `DeletionResumes` says that, deleted at rest, it goes once the
  cluster is back, whichever part was away - the Pinot CR, its secret or its
  service - and although requests, the `DELETE` among them, went to a host that
  was not there; a request that reached nobody disturbs nothing.
  `RemovalLeavesNothing` says that it never goes on the word of such a request.
* *What if a table is applied before its schema?*  Its `POST` is refused and
  the status records `CreateSuccess` with the refused document all the same
  (`table_controller/reconciler.go:206`, where the event says `CreateFail`).
  The mislabelled status does no lasting harm, because the next reconcile asks
  Pinot and not the status: `ServedOnceBacked`.  Until then the status says
  what is not so, and `RecordedTableIsServed` says how far it can be trusted:
  when it shows the spec and no failed update, Pinot serves the spec, but with
  `CreateSuccess` it may have no table instead, never another one.
* *What if there are two managers?*  The finalizer's contract survives
  (`TogetherImplementLifecycle`), because every write of a whole object names
  its version.  Accepting writes of any version breaks it.

The other runs each show that the code does not do what its documentation or a
comment says; TLC prints the behaviour:

| run | what happens |
|---|---|
| `SchemaUpdateRace` | the user edits after the `PUT`; `PatchStatus` reads the edit and records it as applied; no later reconcile sees a difference |
| `SchemaRecreated` | a reconcile from a cache that still has a removed CR creates the schema again; nothing is left to delete it |
| `SchemaLivelock` | a deletion asked for while an edit is outstanding: delete in Pinot, conflict on the finalizer, create again, forever |
| `TenantTaken` | a tenant that exists in Pinot while the status is empty makes `IsEqualJson` fail in every reconcile |

Other behaviour a reader of the documentation may not expect needs no run to
see: a refused `PUT` records the refused spec as current, so it is not tried
again until the next edit (`schema_controller/reconciler.go:308`); adoption records the spec of the CR
and not what `GET` returned (`schema_controller/reconciler.go:248`); two node
types that share a config group overwrite each other's config map in every
reconcile, and the last type in `deploymentOrder` has its file there in the end
(`pinot_controller/reconciler.go:60`, `LastTypeWins`); the
second type of a hybrid table is adopted and never created, because `GET` by
name answers for either type (`table_controller/reconciler.go:225`).  With
both roles in `Roles` and a document of each, no table need be served in the
end.

### Bounds

* `MaxLag`: events of one CR not yet delivered.  With 2 a reconcile can hold a
  copy two versions old, and write the status between two edits; the races
  found need one event only.  `TenantResource` has lag 1, as schemas and tables
  have lag 2 and tenants share their steps; it passes with lag 2 as well, in
  two and a half minutes.
* `MaxFaults`: one fault (a failed or lost call, a refusal, a stop) at any
  point.  A fault ends or diverts one reconcile, and the next one starts from
  the API server alone, so a second fault adds a repetition of the first.
* Documents: two of one name make an update, a third of another name a rename,
  one without a name the parse errors.  One CR is enough for what concerns a
  CR and Pinot, as a reconcile touches one CR only; two CRs are used where they
  share a name.
* `MaxWrites`, `MaxOverlap` in `TwoManagers`: three writes of users are a
  creation, an edit and a deletion, or a deletion and a creation again; one
  reconcile of the second manager runs from any old copy between, before or
  after any calls of as many reconciles of the first as there may be.  There
  are no faults there: what a fault leaves behind is the business of the other
  runs.  When users have done their writes and the resource is gone nothing is
  left to do, so this run does not look for deadlocks.  `Swap` exchanges the
  two names with their documents.  Nothing is in Pinot at the start.
* `Versions` makes the two documents of one name interchangeable in
  `SchemaSafety`; it is not used where liveness is checked.
* `MaxEvents`: update events of the schema that wait for the predicate in
  `SegmentReload`.  A second one behind the first would find the predicate as
  the first does, and only the last one counts.  Edits have no bound: two
  documents are enough to go from one to another and back.  Two tables make every
  order in which a table is reloaded, passed over and met without
  `segmentReload`; `Alike` makes them, and the documents, interchangeable.  A
  table of another schema is left to the theorem.
* `Specs`: a controller and a minion listed against the order, the minion with
  another configuration, another group, gone, or made a broker that shares the
  group of the controller, and an order that is too short.  An edit from any to
  any may fall between two calls, so objects of several specs are left behind.
* No other quantity is bounded: but for `TwoManagers`, users act without end.

### Fairness

`FairSpec` assumes that a call that can be made is made (`Step`), that events
reach the informer (`DeliverEvent`), and that the queue serves each CR
(`StartReconcile`): the code asks for a requeue after every reconcile, with or
without error, and the work queue is first in, first out.  Users are not fair.
`Step` is strongly fair only because `MaxLag`, which the program does not have,
can disable a write again and again while events are in flight; in the program
a write is never disabled.  The HTTP client has no timeout, so a Pinot that
never replies would break the assumption; see the hazards.

`ClusterLookup` and `TableAndSchema` add nothing for the world around: the
cluster need never be deployed, nor the schema applied, and both may come and
go for ever.  Their properties have it as a premise that this ends
(`Settles`, `<>[]schema`).  A call that the cluster's absence turns into an
error (`Unreached`), or Pinot into a refusal (`PostUnbacked`), is taken like
any other; `Reached`, `Call` and the start of a reconcile are strongly fair
because the cluster or the schema may vanish and return while they wait.

In `PinotCluster` the same requeue makes `Step` weakly fair: nothing but an
edit or a failure, both bounded or free to stop, gets in its way.
`SegmentReload` has no liveness property, because the code has none to offer:
an event that is dropped is never looked at again.

## 4. What is proved

Every invariant, action property and refinement of a passing run is the
statement of a theorem, for any sets of CRs, documents, names, roles, tables,
nodes and specs, any lag and any number of faults.  The theorems are listed in
`PROJECT.json`; this is how they are reached.

The assumptions are the named `ASSUME`s of the modules, which TLC evaluates in
every run: `Nil` is no document, name, CR or object, `NameOf` and `RoleOf` are
functions of the right type, specs are records of the right type, the bounds
are naturals.  Hypotheses beyond them stand in the theorem's `ASSUME` and are
named below.

### The three controllers

`Reconciler_proofs` and `Settled_proofs` hold what does not depend on the kind;
the three `...Controller_proofs` add the calls of one controller.

* `Invariance` - `Spec => []IInv`, where `IInv` is `TypeOK`,
  `CopiesAreVersions`, and `DeletesOwnName`: a worker about to delete, or to
  drop the finalizer, holds a deleted object whose document gives its `path`.
  `TypeCorrect` and `CopiesCorrect` are the parts that runs check.
* `SpecIsKept`, `RemovalIsClean` - the action properties `ControllerKeepsSpec`
  and `CleanRemoval`.
* `LifecycleImplemented` - `Spec => ImplementsLifecycle`: each controller
  implements `ResourceLifecycle`.
* `NothingIsLeft` - `Spec => RemovalLeavesNothing`.  The strengthening is
  `Gone`: from the answer to `DELETE` to the `Update` that drops the finalizer
  Pinot has nothing in the place of the held document, unless something failed.
  It survives because one worker serves all CRs of a kind and nobody else
  creates resources in Pinot meanwhile.
* `SettledIsCalm`, `RecordParses` - `Spec => []RecordedParses`.

The argument for the first three: `CacheFollows` (the last undelivered event,
or the cache, is the server's object) makes a read current exactly when no
event is pending; every write takes the CR out of `uptodate`; so an `Update`
that is accepted writes back the object the server has, with only the finalizer
changed (`CopiesAreVersions`).  `DeletesOwnName` then says what was deleted in
Pinot.  The action properties are not inductive without these.  The refinement needs
the same invariant: initial states map to `Lifecycle!Init`, and each action is
shown to be a step of the contract or a stutter.  Requests and reads are
stutters but for `DELETE`, which is `SendDelete`; `AddFinalizer`, accepted, is
`Manage`, for what it writes back is the server's object; `RemoveFinalizer`,
accepted, is `Drop`, for `DeletesOwnName` gives the name; refused or abandoned,
it is `GiveUp`; users' writes are `Create`, `Rename`, `End` and `Discard`.

**The status.**  What a status says of Pinot needs to know what every copy in
sight may still do, and `disturbed` enters.  `Calm` is: of a *settled* CR (one
that is not `disturbed`) every version in an event, in the cache or in hand
that a reconcile may act on has the present spec, and none is ahead of the
server's.  It is shown once, from two descriptions of a step that all actions
meet: `Sees` (no version comes into sight but the server's) and `Carries` (the
spec stays, and the status records nothing but it).

Pinot is shared, so a status can be kept true only against CRs that are not
given the same name.  The hypothesis is `NamesApart(mine)` with `[]Own(mine)`:
users write to CR `c` documents of a set `mine[c]` only, and the sets of two
CRs give no name in common.  `Owned` carries this over to every copy and to the
`path` of the reconcile.  `Alone` is the invariant that ties a CR to Pinot: for
one that is not being deleted, `Kept` (an outcome on its way to the status is
true; one that is there is true or about to be replaced; an older copy from
which a patch might be made does no harm), and for one that is, `Ending` (what
its status records is served until the `DELETE`, and no reconcile but the one
of the deletion acts).  What counts as true is a parameter, the `claim`, as the
messages do not promise the same for each kind (`Fails` are those that promise
nothing, `Good` what the others promise).  From it:

* `StatusIsTrue` - `NoSilentDivergence`, schemas and tenants (the claim
  `"reported"`);
* `SuccessIsTrue` - `CreateSuccessIsServed`, schemas;
* `RecordIsServed` - `RecordedTableIsServed`, tables, with the schema coming
  and going.  It takes two claims: any message but a failed update rules out
  another table in Pinot (`"created"`), and `UpdateSuccess` rules out none as
  well (`"updated"`), as only a `CreateSuccess` may be that of a refused `POST`.

`OneStatusIsTrue` and `OneRecordIsServed` are the same for one CR, where the
hypothesis is void: they are what the runs with one CR check.
`OwnIsKept` - `LiveKeepsItsOwn` for tenants, whose `DELETE` takes one role only
- asks for less, `PlacesApart`: no two CRs with the same name *and* role.

**The world around.**  `ClusterLookup` and `TableAndSchema` add steps of their
own to the controller (`Unreached`, the changes of the cluster; `PostUnbacked`,
those of the schema) and leave its own as they are.  Each step is a step of the
controller, or one shown to keep the same invariants: `LookupTypeCorrect`,
`LookupLifecycle`, `LookupNothingIsLeft`, `OrderTypeCorrect`, `OrderLifecycle`,
`OrderNothingIsLeft`.  `NoHostLeaves` is where the second lookup of the service
counts: without an answer to the `DELETE` the reconcile does not go on.

### Two managers

`TwoManagers_proofs` takes every lemma of the schema controller twice (`P1` and
`P2`, instances of `SchemaController_proofs`).  A step of one manager is a step
of its controller (`FirstIsController`, `SecondIsController`); to the other
informer it is nothing, or one write of one object (`Writes`, shown for all
steps in `Reconciler_proofs`), like a user's.  So `BothIInv`, the invariant of
either, is inductive, and with it `TypeCorrect`, `CopiesCorrect` and
`SpecIsKept`.  For `LifecycleImplemented` the abstract set of sent names is the
union of the two managers': each step is one of the contract whatever else
that set has.

### Segment reload

`NoTablePassedBy` - `Spec => []NothingPassedBy`.  The invariant is `Follows`:
from the moment an event is looked at until the next comes, either that look
excuses every table, or the schema is as the predicate found it and every table
that it has left behind and that nothing excuses is reloaded with what Pinot
has, and says so or has been emptied since; `InHand` keeps the table being visited one of the tables.

### Pinot cluster

`IInv` of `PinotCluster_proofs` is `TypeOK`, `Planned` (the lists are those of
the spec that was read), `Progress` (each list applied so far is *in place*:
every name in it has the last object of that name) and `MountsBacked`.

* `MountsAreBacked` - a workload is applied after the config maps of its spec
  are in place, the one it mounts among them; a clean-up takes neither a listed
  config map nor, unless it is an orphan from then on, a workload that is not
  listed.
* `EndDeploys`, `EndHashes`, `EndHasLastType` - `ReconcileDeploys`,
  `HashesFollow`, `LastTypeWins`: a reconcile gets to its end with the three
  lists in place, which clean-up leaves so.  What the last object of a name is
  follows from the order of positions.
* `OrderIsKept` - `DeploymentOrderKept`: what has been applied of a list is
  closed under coming before.

Two hypotheses on specs: `OrdersOfFour` (`deploymentOrder` names at most four
types; `do()` drops those after the fourth, so that their nodes are not
deployed) for the last four, and `OrdersApart` (no type twice) for the last
one: a type that is listed twice comes both before and after those in between.  That a set of positions has a last one is induction, for which
`Least` uses the well-founded order of the naturals (`WFMin`), as the induction
rules of the library, which take a predicate, cannot be used.

### Only model-checked

* Liveness: `CalmServedEventually`, `ServedOnceUsable`, `DeletionResumes`,
  `ServedOnceBacked`, `Converges`.  Arguments from fairness need `ENABLED`,
  which the prover does not reason about.
* That `NoSilentDivergence`, `CreateSuccessIsServed` and `RecordedTableIsServed`
  hold for a settled CR whose name others are given is not claimed: it is not
  so.
* The four runs that show what the code does otherwise than documented.

## 5. What is not modelled

* Texts: event and condition wording, URLs, headers.  The condition's type and
  reason are not modelled beside the message.  The type is the message but for
  the adoption of a schema, which records the message `CreateSuccess` with the
  type `UpdateSuccess` (`schema_controller/reconciler.go:250-253`), and the
  reason is the text of the answer; no code reads either.  A text that is JSON but not an object is not distinguished from one
  that does not parse.  An object without the name is left out of `Docs`:
  `GetValueFromJson` returns an empty name for it and no error, so that the
  reconcile goes on with a `GET` of the list (`utils/utils.go:60`).
* `PinotTenant.spec.pinotTenantType` is taken to agree with the document.
* The namespace and the cluster of a CR: one Pinot cluster.  `ClusterLookup` is
  about schemas; tenants and tables look up the same way, and in the other
  modules a lookup fails only as a fault.
* An edit of the name in a document leaves the resource of the old name in
  Pinot; the code has no step for it, and no property claims one.
* Two managers for tenants, tables and clusters: their copies, caches and
  finalizers are those of schemas.  What two managers leave in Pinot is held to
  no property.
* Two resources that give the same name and role: each is recorded with its own
  document, the first to come is what Pinot has, and deleting one deletes it
  under the other.  Neither code nor documentation says what should happen.
* Hybrid tables (see above): the run of tables has offline tables only.
* The texts of `reloadStatus`: a list stands for its last response, and that for
  the document which Pinot reloaded.  Earlier responses, which a patch made from
  a stale cached list can drop (`pinottable_controller.go:182`), are not there.
* The names of workloads and services: node name and group of Kubernetes
  settings are joined with `-` (`pinot_controller/internal_builder.go:309-318`)
  and two pairs can give one name; in `PinotCluster` a `Key` is the pair.
* Volume claims (listed by `do()`, applied by no call of it), ports, probes,
  images and the other settings copied from a Pinot spec into its objects; the
  clean-up of `ReconcileStore`, which goes by labels, is any set of objects
  not listed.
* The kind of a node's workload: a Deployment and a StatefulSet of one name are
  one object here, so what becomes of the first when the kind is edited, which
  is up to the library, is not seen.
* Event filters: any CR in the cache may be reconciled at any time, which
  includes whatever the filters let through.
* Generated code, manifests, charts and scripts.

## 6. Plan

1. The hazards that no property covers: a statement for two CRs of one name
   (which of the two documents Pinot has, and what the deletion of one leaves),
   and for the rename of a document.
2. `SuccessIsTrue` for `ClusterLookup`, and `StatusIsTrue` with `PlacesApart`
   in place of `NamesApart` for tenants, whose roles do not meet in `DELETE`.
3. `PinotCluster` with two clusters of one namespace: config maps have the name
   of the cluster in theirs, workloads and services only those of the node and
   its `k8sConfig` (`internal_builder.go:239`).
