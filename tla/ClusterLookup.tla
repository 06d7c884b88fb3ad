---------------------------- MODULE ClusterLookup ----------------------------
(***************************************************************************)
(* How a reconcile of the schema controller depends on the Pinot cluster   *)
(* its resource names: the credentials come from the Pinot object and its  *)
(* secret, and the URL of the requests from the service of the Pinot       *)
(* controller nodes.  Users deploy and remove all three as they please.    *)
(***************************************************************************)
EXTENDS SchemaController

VARIABLES cluster,   \* what the lookups of a reconcile would find
          host       \* the URL of the reconcile under way names a service

lookupVars == <<vars, cluster, host>>

\* "nocreds": the Pinot object or its secret is not there.  "noservice": they
\* are, but no service has the cluster's labels.
ClusterStates == {"usable", "nocreds", "noservice"}

LookupTypeOK == TypeOK /\ cluster \in ClusterStates /\ host \in BOOLEAN

LookupInit == Init /\ cluster \in ClusterStates /\ host = FALSE

ClusterChanges ==
    /\ cluster' \in ClusterStates \ {cluster}
    /\ UNCHANGED <<vars, host>>

\* do() begins with getAuthCreds, whose error ends the reconcile, and with
\* getControllerSvcUrl, which makes a URL even when it finds no service.
Start(c) ==
    /\ cluster # "nocreds"
    /\ StartReconcile(c)
    /\ host' = (cluster = "usable")
    /\ UNCHANGED cluster

\* The service is looked up once for CreateOrUpdate and again for DELETE.
Reaches ==
    \/ ctl.pc \in {"get", "post", "put"} /\ host /\ cluster # "noservice"
    \/ ctl.pc = "delete" /\ cluster # "noservice"
    \/ ctl.pc \notin {"get", "post", "put", "delete"}

\* A URL is a local variable of one reconcile.
Forget == host' = (host /\ ctl' # Idle)

Reached == Reaches /\ Step /\ Forget /\ UNCHANGED cluster

\* Mutant of Unreached: DELETE's error is dropped, like its bad statuses.
UnreachedUnchecked ==
    /\ ~Reaches
    /\ ctl' = IF ctl.pc = "delete" THEN [ctl EXCEPT !.pc = "unfin"] ELSE Idle
    /\ Forget
    /\ UNCHANGED <<apiVars, pinotVars, disturbed, cluster>>

\* Mutant of Unreached: the request is tried again, with the URL it has.
UnreachedRetried == ~Reaches /\ UNCHANGED lookupVars

\* A request to a host that does not exist ends the reconcile.  No fault: what
\* the user does meanwhile stays at rest.
Unreached ==
    /\ ~Reaches
    /\ ctl' = Idle
    /\ Forget
    /\ UNCHANGED <<apiVars, pinotVars, disturbed, cluster>>

LookupNext ==
    \/ Reached
    \/ Unreached
    \/ ClusterChanges
    \/ \E c \in CRs : Start(c)
    \/ Interrupt /\ Forget /\ UNCHANGED cluster
    \/ /\ UNCHANGED <<cluster, host>>
       /\ \E c \in CRs :
            \/ DeliverEvent(c)
            \/ \E d \in Docs : UserCreate(c, d) \/ UserEdit(c, d)
            \/ UserDelete(c)

\* The calls of a reconcile end; events are delivered and the queue served.
\* Nobody need ever deploy the cluster, or let it be.
LookupSpec ==
    /\ LookupInit
    /\ [][LookupNext]_lookupVars
    /\ SF_lookupVars(Reached)
    /\ WF_lookupVars(Unreached)
    /\ \A c \in CRs : WF_lookupVars(DeliverEvent(c) /\ UNCHANGED <<cluster, host>>)
    /\ \A c \in CRs : SF_lookupVars(Start(c))

-----------------------------------------------------------------------------
(* Properties *)

Settles == <>[](cluster = "usable")

\* Whatever became of the cluster before: once it is there to stay, a spec the
\* user leaves alone is recorded and served.  An outage, and a service
\* that was missing when a reconcile began, leave nothing behind that stops it.
ServedOnceUsable ==
    \A c \in CRs, d \in Docs : Settles /\ <>[]Wants(c, d) => <>[]Served(c)

\* A resource deleted at rest waits for the cluster, whatever part of it is away,
\* and goes when the cluster is back to stay: although reconciles found no
\* credentials or no service, and the URL that a DELETE took may have named none.
DeletionResumes ==
    Settles => SettledDeletionCompletes
=============================================================================
