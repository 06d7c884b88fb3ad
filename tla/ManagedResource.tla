--------------------------- MODULE ManagedResource ---------------------------
(***************************************************************************)
(* The surroundings of a reconciler, the same for schemas, tenants and     *)
(* tables: users who create, edit and delete its resources at any time,    *)
(* the informer and the work queue; and the properties any of the three    *)
(* controllers may be held to.                                             *)
(***************************************************************************)
EXTENDS Reconciler

VARIABLE disturbed   \* history: resources whose reconciles a user raced or a fault cut short

vars == <<api, cache, watch, uptodate, pinot, faults, ctl, disturbed>>

Init ==
    /\ ApiInit
    /\ PinotInit
    /\ ctl = Idle
    /\ disturbed = {}

-----------------------------------------------------------------------------
(* Users *)

\* No reconcile of c is under way and the informer has caught up with it.
Quiet(c) == ~Busy(c) /\ watch[c] = <<>>

\* Quiet, and everything the spec asks for is done.
AtRest(c) ==
    /\ Quiet(c)
    /\ api[c] # Nil
    /\ api[c].fin
    /\ api[c].current = api[c].doc
    /\ Parses(api[c].doc)
    /\ ServedFor(api[c].doc) = api[c].doc

\* Pinot already has a resource of the name that d gives.
Taken(d) == Parses(d) /\ Holds(GetValueFromJson(d))

\* Unless all is calm, what follows for c may be the disturbance's doing.
Note(c, calm) == disturbed' = IF calm THEN disturbed ELSE disturbed \cup {c}

UserCreate(c, d) ==
    /\ Create(c, d)
    /\ Note(c, Quiet(c) /\ ~Taken(d))
    /\ UNCHANGED <<pinotVars, ctl>>

UserEdit(c, d) ==
    /\ Edit(c, d)
    /\ Note(c, /\ Quiet(c)
               /\ ~api[c].deleting
               /\ api[c].current = Nil => ~Taken(d))
    /\ UNCHANGED <<pinotVars, ctl>>

UserDelete(c) ==
    /\ Remove(c)
    /\ Note(c, AtRest(c))
    /\ UNCHANGED <<pinotVars, ctl>>

-----------------------------------------------------------------------------
(* Around the reconciler *)

DeliverEvent(c) == Deliver(c) /\ UNCHANGED <<pinotVars, ctl, disturbed>>

\* A reconcile that starts before the last edit has reached the informer.
StartReconcile(c) ==
    /\ Reconcile(c)
    /\ Note(c, api[c] # Nil => api[c].doc = cache[c].doc)

\* A fault that ends a reconcile leaves its work half done.
NoteCut == Note(ctl.cr, ctl' = Idle => faults' = faults)

Interrupt == Abandon /\ NoteCut

\* Everything but the calls of a reconcile under way.
Environment ==
    \/ Interrupt
    \/ \E c \in CRs :
         \/ StartReconcile(c)
         \/ DeliverEvent(c)
         \/ \E d \in Docs : UserCreate(c, d) \/ UserEdit(c, d)
         \/ UserDelete(c)

(***************************************************************************)
(* Requests are answered and events delivered; the work queue is fair to   *)
(* every resource it holds.  Users do as they please, and the bound on     *)
(* faults makes those cease.  A controller adds the fairness of its calls, *)
(* which is strong only because MaxLag, a bound of the model, can disable  *)
(* a write again and again.                                                *)
(***************************************************************************)
Fairness == \A c \in CRs : WF_vars(DeliverEvent(c)) /\ SF_vars(StartReconcile(c))

-----------------------------------------------------------------------------
(* Properties *)

TypeOK ==
    /\ ApiTypeOK
    /\ PinotTypeOK
    /\ ctl \in Workers
    /\ disturbed \subseteq CRs

\* The cache lags the server but ends where the server is.
CacheFollows ==
    \A c \in CRs :
      api[c] = IF watch[c] = <<>> THEN cache[c] ELSE watch[c][Len(watch[c])]

\* A copy whose resourceVersion the server would accept is the server's
\* object: what makes an r.Update of a whole object built from a cached read
\* safe, although reads lag and PatchStatus writes past the held copy.
CopiesAreVersions ==
    /\ CacheFollows
    /\ \A c \in CRs : c \in uptodate /\ Busy(c) => ctl.obj = api[c]

KeepsSpec ==
    ctl' # ctl =>
      \A c \in CRs :
        /\ api[c] = Nil => api'[c] = Nil
        /\ api[c] # Nil /\ api'[c] # Nil =>
             /\ api'[c].doc = api[c].doc
             /\ api'[c].deleting = api[c].deleting

\* The reconciler writes whole objects back to set or drop its finalizer: no
\* step of it undoes an edit the user made meanwhile, or revives an object.
ControllerKeepsSpec == [][KeepsSpec]_vars

RemovesCleanly ==
    \A c \in CRs :
      api[c] # Nil /\ api'[c] = Nil /\ api[c].fin =>
        /\ api[c].deleting
        /\ Busy(c) /\ ctl.pc = "unfin"
        /\ ctl.path = GetValueFromJson(api[c].doc)

\* An object with the finalizer leaves the API server only in the step that
\* drops the finalizer, as the end of a deletion in which the name that was
\* sent to Pinot is the one the object's final spec gives.
CleanRemoval == [][RemovesCleanly]_vars

\* With no fault so far, Pinot has nothing in the place of an object's document
\* when the object with the finalizer goes, of whatever other resource.
RemovalLeavesNothing ==
    [][\A c \in CRs :
         api[c] # Nil /\ api'[c] = Nil /\ api[c].fin /\ faults = 0 =>
           ServedFor(api[c].doc) = Nil]_vars

\* A status that equals the spec ends the controller's work on a resource,
\* except after CreateFail.  With no other resource of its names, a user who
\* never acted during a reconcile, no reconcile cut short and no failure in the
\* status, it is then true that Pinot serves the spec.
NoSilentDivergence ==
    \A c \in CRs :
      /\ Quiet(c)
      /\ c \notin disturbed
      /\ api[c] # Nil /\ Parses(api[c].doc) /\ api[c].current = api[c].doc
      /\ api[c].msg \notin {"CreateFail", "UpdateFail"}
      => ServedFor(api[c].doc) = api[c].doc

\* A text that does not parse is recorded as current only when the user edits
\* during a reconcile; once recorded no comparison with it succeeds again.
RecordedParses ==
    \A c \in CRs : api[c] # Nil /\ c \notin disturbed =>
                     api[c].current = Nil \/ Parses(api[c].current)

\* No deletion, of whatever resource and from however old a copy, takes from
\* Pinot what a live resource has been given, if its user let it settle and
\* no two resources ask for the same name and role.
LiveKeepsItsOwn ==
    [][\A c \in CRs :
         /\ api[c] # Nil /\ ~api[c].deleting
         /\ c \notin disturbed
         /\ ServedFor(api[c].doc) # Nil
         => pinot'[<<NameOf[api[c].doc], RoleOf[api[c].doc]>>] # Nil]_vars

\* CreateSuccess in the status of a live resource that its user gave time to
\* settle: Pinot has a resource of the recorded name.
CreateSuccessIsServed ==
    \A c \in CRs :
      /\ api[c] # Nil /\ ~api[c].deleting
      /\ api[c].msg = "CreateSuccess"
      /\ c \notin disturbed
      => Holds(GetValueFromJson(api[c].current))

Wants(c, d) ==
    /\ api[c] # Nil
    /\ api[c].doc = d
    /\ Parses(d)
    /\ api[c].current # Nil => Parses(api[c].current)
    /\ \A other \in CRs : api[other] # Nil => ~api[other].deleting

Served(c) ==
    /\ api[c] # Nil
    /\ api[c].fin
    /\ api[c].current = api[c].doc
    /\ ServedFor(api[c].doc) # Nil

\* A spec the user leaves alone is in the end recorded as current, under the
\* finalizer, and Pinot has a resource of its name and role, in spite of
\* faults and of what the user did before.
ServedEventually ==
    \A c \in CRs, d \in Docs : <>[]Wants(c, d) => <>[]Served(c)

\* The same for a resource whose user never acts during a reconcile and never
\* gives it a name that Pinot has already, and of whose reconciles no failed
\* call cuts one short; requests may be refused.
CalmServedEventually ==
    \A c \in CRs, d \in Docs :
      <>[](Wants(c, d) /\ c \notin disturbed) => <>[]Served(c)

\* A resource deleted when it is at rest goes, if no request fails.
SettledDeletionCompletes ==
    \A c \in CRs :
      (api[c] # Nil /\ api[c].deleting /\ c \notin disturbed)
        ~> (api[c] = Nil \/ c \in disturbed \/ faults > 0)

-----------------------------------------------------------------------------
(* The abstract specification *)

PhaseOf(c) ==
    IF api[c] = Nil THEN "absent"
    ELSE IF api[c].deleting THEN "ending"
    ELSE IF api[c].fin THEN "managed"
    ELSE "new"

NameNow(c) == IF api[c] = Nil THEN Nil ELSE GetValueFromJson(api[c].doc)

\* The reconcile under way has had an answer to its DELETE.
SentNow(c) == IF Busy(c) /\ ctl.pc = "unfin" THEN {ctl.path} ELSE {}

Lifecycle == INSTANCE ResourceLifecycle
    WITH phase <- [c \in CRs |-> PhaseOf(c)],
         name <- [c \in CRs |-> NameNow(c)],
         sent <- [c \in CRs |-> SentNow(c)]

\* Whatever users do and wherever a reconcile is cut short, every step is one
\* that the finalizer's contract allows: no object is let go before DELETE was
\* sent for the name its last spec gives, none is revived or changed by the
\* controller's writes of whole objects.
ImplementsLifecycle == Lifecycle!Spec

-----------------------------------------------------------------------------
(* What the documentation and the comments say, and the code does not do *)

\* "patch status to store the current valid schema json" after a successful
\* PUT: the document recorded is the one Pinot took.
UpdateSuccessIsApplied ==
    \A c \in CRs :
      api[c] # Nil /\ ~api[c].deleting /\ ~Busy(c) /\ api[c].msg = "UpdateSuccess" =>
        \E n \in Names, r \in Roles : pinot[<<n, r>>] = api[c].current

\* "responsible for creation, updation and deletion": a resource whose
\* deletion is under way, and that nobody edits any more, goes.
DeletionCompletes ==
    \A c \in CRs, d \in Docs :
      ~<>[](api[c] # Nil /\ api[c].deleting /\ api[c].doc = d)

\* "uses finalisers for deletion logic": with a user who acts on resources at
\* rest and no fault, a schema is only ever created for a resource that exists.
CreatedForResource ==
    [][disturbed = {} /\ faults = 0 =>
         \A n \in Names, r \in Roles : pinot[<<n, r>>] = Nil /\ pinot'[<<n, r>>] # Nil =>
           \E c \in CRs : api[c] # Nil /\ GetValueFromJson(api[c].doc) = n]_vars
=============================================================================
