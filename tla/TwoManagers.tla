---------------------------- MODULE TwoManagers ----------------------------
(***************************************************************************)
(* Two managers that reconcile the same schemas at once.  Both shipped     *)
(* deployments pass --leader-elect, which keeps a second manager waiting;  *)
(* the flag itself is off by default, so this is about managers that are   *)
(* started without it, as by hand beside a deployed one.  Each has an      *)
(* informer cache, a worker and copies of its own; they meet in the API    *)
(* server and in Pinot only.                                               *)
(***************************************************************************)
EXTENDS Naturals, Sequences

CONSTANTS Docs, Names, Roles, NameOf, RoleOf, Nil, CRs, MaxLag, MaxFaults,
          MaxWrites,   \* bound: writes of users
          MaxOverlap   \* bound: reconciles of the second manager

VARIABLES api, pinot, faults,                  \* what the managers share
          disturbed,                           \* a history that this module does not use
          writes, overlap,                     \* writes of users, and reconciles of
                                               \* the second manager, so far
          cache1, watch1, uptodate1, ctl1,     \* the first manager
          cache2, watch2, uptodate2, ctl2      \* the second manager

informer1 == <<cache1, watch1, uptodate1>>
informer2 == <<cache2, watch2, uptodate2>>
vars == <<api, pinot, faults, disturbed, writes, overlap, informer1, ctl1, informer2, ctl2>>

First == INSTANCE SchemaController
    WITH cache <- cache1, watch <- watch1, uptodate <- uptodate1, ctl <- ctl1

Second == INSTANCE SchemaController
    WITH cache <- cache2, watch <- watch2, uptodate <- uptodate2, ctl <- ctl2

\* What an instance of SchemaController assumes of its constants.
ASSUME TwoManagersAssumption ==
    /\ Nil \notin Docs \cup Names
    /\ NameOf \in [Docs -> Names \cup {Nil}]
    /\ RoleOf \in [Docs -> Roles]
    /\ Nil \notin CRs \cup First!Objects
    /\ MaxLag \in Nat \ {0}
    /\ MaxFaults \in Nat

Init ==
    /\ First!ApiInit /\ Second!ApiInit
    /\ First!PinotInit
    /\ ctl1 = First!Idle /\ ctl2 = Second!Idle
    /\ disturbed = CRs
    /\ writes = 0 /\ overlap = 0

\* Resources of which the step makes a version, seen in the watch stream of
\* the manager that takes it.
Written(watch) == {c \in CRs : Len(watch'[c]) > Len(watch[c])}

\* The other manager's informer gets the same events, and a copy that it
\* handed out before is out of date.
Hears(watch, uptodate, written) ==
    /\ \A c \in written : Len(watch[c]) < MaxLag
    /\ watch' = [c \in CRs |-> IF c \in written THEN Append(watch[c], api'[c]) ELSE watch[c]]
    /\ uptodate' = uptodate \ written

FirstHears == Hears(watch1, uptodate1, Written(watch2)) /\ UNCHANGED <<cache1, ctl1>>
SecondHears == Hears(watch2, uptodate2, Written(watch1)) /\ UNCHANGED <<cache2, ctl2>>

\* A call of a reconcile, the start or end of one, or an event for the informer.
FirstActs ==
    /\ \/ First!Step
       \/ First!Interrupt
       \/ \E c \in CRs : First!StartReconcile(c) \/ First!DeliverEvent(c)
    /\ SecondHears
    /\ UNCHANGED <<writes, overlap>>

SecondActs ==
    /\ \/ /\ \/ Second!Step
             \/ Second!Interrupt
             \/ \E c \in CRs : Second!DeliverEvent(c)
          /\ UNCHANGED overlap
       \/ /\ overlap < MaxOverlap
          /\ overlap' = overlap + 1
          /\ \E c \in CRs : Second!StartReconcile(c)
    /\ FirstHears
    /\ UNCHANGED writes

\* A user's write reaches both.
UserActs ==
    /\ writes < MaxWrites
    /\ writes' = writes + 1
    /\ \E c \in CRs :
         \/ \E d \in Docs : First!UserCreate(c, d) \/ First!UserEdit(c, d)
         \/ First!UserDelete(c)
    /\ SecondHears
    /\ UNCHANGED overlap

Next == FirstActs \/ SecondActs \/ UserActs

Spec == Init /\ [][Next]_vars

-----------------------------------------------------------------------------
(* Properties *)

TypeOK == First!TypeOK /\ Second!TypeOK

\* The copy in either manager's hands, when its version is the server's, is
\* the server's object, whatever the other manager wrote since it was read.
BothCopiesAreVersions == First!CopiesAreVersions /\ Second!CopiesAreVersions

\* Neither manager undoes a user's edit or revives an object, although
\* each writes whole objects from reads that the other has made old.
BothKeepSpec == [][First!KeepsSpec /\ Second!KeepsSpec]_vars

Lifecycle == INSTANCE ResourceLifecycle
    WITH phase <- [c \in CRs |-> First!PhaseOf(c)],
         name <- [c \in CRs |-> First!NameNow(c)],
         sent <- [c \in CRs |-> First!SentNow(c) \cup Second!SentNow(c)]

\* Two managers together still keep the finalizer's contract: an object goes
\* only after one of them sent DELETE for the name of its last spec.
TogetherImplementLifecycle == Lifecycle!Spec
=============================================================================
