------------------------- MODULE TwoManagers_proofs -------------------------
(***************************************************************************)
(* Safety of two managers that reconcile the same schemas at once, for any *)
(* resources, documents, lag of either cache, faults and overlap.  What    *)
(* one does is a step of its controller, of which the other's informer     *)
(* hears at most one write, as it would of a user's: so the invariant of   *)
(* SchemaController_proofs holds of both, and each step of one is a step   *)
(* of the finalizer's contract whatever the other has sent.                *)
(***************************************************************************)
EXTENDS TwoManagers, TLAPS

\* The lemmas about each manager's controller; nothing of the lookup of the
\* Pinot cluster, which stays where it is.
P1 == INSTANCE SchemaController_proofs
    WITH cache <- cache1, watch <- watch1, uptodate <- uptodate1, ctl <- ctl1,
         cluster <- Nil, host <- Nil

P2 == INSTANCE SchemaController_proofs
    WITH cache <- cache2, watch <- watch2, uptodate <- uptodate2, ctl <- ctl2,
         cluster <- Nil, host <- Nil

\* What those lemmas assume of the constants.
LEMMA Constants1 ==
    /\ Nil \notin Docs \cup Names
    /\ NameOf \in [Docs -> Names \cup {Nil}]
    /\ RoleOf \in [Docs -> Roles]
    /\ Nil \notin CRs \cup P1!Objects
    /\ MaxLag \in Nat \ {0}
    /\ MaxFaults \in Nat
BY TwoManagersAssumption DEF First!Objects, P1!Objects, First!Messages, P1!Messages

LEMMA Constants2 ==
    /\ Nil \notin Docs \cup Names
    /\ NameOf \in [Docs -> Names \cup {Nil}]
    /\ RoleOf \in [Docs -> Roles]
    /\ Nil \notin CRs \cup P2!Objects
    /\ MaxLag \in Nat \ {0}
    /\ MaxFaults \in Nat
BY TwoManagersAssumption DEF First!Objects, P2!Objects, First!Messages, P2!Messages

-----------------------------------------------------------------------------
(* Either manager's steps are those of its controller *)

LEMMA FirstIsController ==
    ASSUME \/ First!Step \/ First!Interrupt
           \/ \E c \in CRs : \/ First!StartReconcile(c) \/ First!DeliverEvent(c)
                             \/ First!UserDelete(c)
                             \/ \E d \in Docs : First!UserCreate(c, d) \/ First!UserEdit(c, d)
    PROVE  P1!Next
<1> USE DEF First!apiVars, P1!apiVars, First!pinotVars, P1!pinotVars, First!Idle, P1!Idle,
            First!Publish, P1!Publish, First!Read, P1!Read, First!Fault, P1!Fault,
            First!GetValueFromJson, P1!GetValueFromJson, First!Parses, P1!Parses,
            First!ServedFor, P1!ServedFor, First!Holds, P1!Holds,
            First!Busy, P1!Busy, First!Note, P1!Note
<1>1. First!NoteCut => P1!NoteCut
  BY DEF First!NoteCut, P1!NoteCut
<1>2. First!GetSchema => P1!GetSchema
  BY DEF First!GetSchema, P1!GetSchema, First!Get, P1!Get, First!Answers, P1!Answers,
         First!Recording, P1!Recording, First!Comparing, P1!Comparing,
         First!IsEqualJson, P1!IsEqualJson, First!Finalizing, P1!Finalizing
<1>3. First!PostSchema => P1!PostSchema
  BY DEF First!PostSchema, P1!PostSchema, First!Post, P1!Post, First!Answers, P1!Answers,
         First!With, P1!With, First!Change, P1!Change, First!Refuse, P1!Refuse,
         First!Recording, P1!Recording
<1>4. First!PutSchema => P1!PutSchema
  BY DEF First!PutSchema, P1!PutSchema, First!Put, P1!Put, First!Answers, P1!Answers,
         First!With, P1!With, First!Change, P1!Change, First!Refuse, P1!Refuse,
         First!Recording, P1!Recording
<1>5. First!DeleteSchema => P1!DeleteSchema
  BY DEF First!DeleteSchema, P1!DeleteSchema, First!DeleteResource, P1!DeleteResource,
         First!Delete, P1!Delete, First!Without, P1!Without, First!Answers, P1!Answers,
         First!Change, P1!Change, First!Refuse, P1!Refuse
<1>6. First!Reread => P1!Reread
  BY DEF First!Reread, P1!Reread
<1>7. First!Patch => P1!Patch
  BY DEF First!Patch, P1!Patch, First!PatchStatus, P1!PatchStatus,
         First!Transform, P1!Transform, First!Comparing, P1!Comparing,
         First!IsEqualJson, P1!IsEqualJson, First!Finalizing, P1!Finalizing
<1>8. First!AddFinalizer => P1!AddFinalizer
  BY DEF First!AddFinalizer, P1!AddFinalizer, First!Update, P1!Update,
         First!VersionMatches, P1!VersionMatches
<1>9. First!RemoveFinalizer => P1!RemoveFinalizer
  BY DEF First!RemoveFinalizer, P1!RemoveFinalizer, First!Update, P1!Update,
         First!VersionMatches, P1!VersionMatches
<1>10. First!Step => P1!Step
  BY <1>1, <1>2, <1>3, <1>4, <1>5, <1>6, <1>7, <1>8, <1>9 DEF First!Step, P1!Step
<1>11. First!Interrupt => P1!Interrupt
  BY <1>1 DEF First!Interrupt, P1!Interrupt, First!Abandon, P1!Abandon
<1>12. ASSUME NEW c \in CRs
       PROVE  /\ First!StartReconcile(c) => P1!StartReconcile(c)
              /\ First!DeliverEvent(c) => P1!DeliverEvent(c)
              /\ First!UserDelete(c) => P1!UserDelete(c)
  BY DEF First!StartReconcile, P1!StartReconcile, First!Reconcile, P1!Reconcile,
         First!DeliverEvent, P1!DeliverEvent, First!Deliver, P1!Deliver,
         First!UserDelete, P1!UserDelete, First!Remove, P1!Remove,
         First!AtRest, P1!AtRest, First!Quiet, P1!Quiet
<1>13. ASSUME NEW c \in CRs, NEW d \in Docs
       PROVE  /\ First!UserCreate(c, d) => P1!UserCreate(c, d)
              /\ First!UserEdit(c, d) => P1!UserEdit(c, d)
  BY DEF First!UserCreate, P1!UserCreate, First!Create, P1!Create,
         First!UserEdit, P1!UserEdit, First!Edit, P1!Edit,
         First!Quiet, P1!Quiet, First!Taken, P1!Taken
<1> QED
  BY <1>10, <1>11, <1>12, <1>13 DEF P1!Next, P1!Environment

LEMMA SecondIsController ==
    ASSUME \/ Second!Step \/ Second!Interrupt
           \/ \E c \in CRs : \/ Second!StartReconcile(c) \/ Second!DeliverEvent(c)
                             \/ Second!UserDelete(c)
                             \/ \E d \in Docs : Second!UserCreate(c, d) \/ Second!UserEdit(c, d)
    PROVE  P2!Next
<1> USE DEF Second!apiVars, P2!apiVars, Second!pinotVars, P2!pinotVars, Second!Idle, P2!Idle,
            Second!Publish, P2!Publish, Second!Read, P2!Read, Second!Fault, P2!Fault,
            Second!GetValueFromJson, P2!GetValueFromJson, Second!Parses, P2!Parses,
            Second!ServedFor, P2!ServedFor, Second!Holds, P2!Holds,
            Second!Busy, P2!Busy, Second!Note, P2!Note
<1>1. Second!NoteCut => P2!NoteCut
  BY DEF Second!NoteCut, P2!NoteCut
<1>2. Second!GetSchema => P2!GetSchema
  BY DEF Second!GetSchema, P2!GetSchema, Second!Get, P2!Get, Second!Answers, P2!Answers,
         Second!Recording, P2!Recording, Second!Comparing, P2!Comparing,
         Second!IsEqualJson, P2!IsEqualJson, Second!Finalizing, P2!Finalizing
<1>3. Second!PostSchema => P2!PostSchema
  BY DEF Second!PostSchema, P2!PostSchema, Second!Post, P2!Post, Second!Answers, P2!Answers,
         Second!With, P2!With, Second!Change, P2!Change, Second!Refuse, P2!Refuse,
         Second!Recording, P2!Recording
<1>4. Second!PutSchema => P2!PutSchema
  BY DEF Second!PutSchema, P2!PutSchema, Second!Put, P2!Put, Second!Answers, P2!Answers,
         Second!With, P2!With, Second!Change, P2!Change, Second!Refuse, P2!Refuse,
         Second!Recording, P2!Recording
<1>5. Second!DeleteSchema => P2!DeleteSchema
  BY DEF Second!DeleteSchema, P2!DeleteSchema, Second!DeleteResource, P2!DeleteResource,
         Second!Delete, P2!Delete, Second!Without, P2!Without, Second!Answers, P2!Answers,
         Second!Change, P2!Change, Second!Refuse, P2!Refuse
<1>6. Second!Reread => P2!Reread
  BY DEF Second!Reread, P2!Reread
<1>7. Second!Patch => P2!Patch
  BY DEF Second!Patch, P2!Patch, Second!PatchStatus, P2!PatchStatus,
         Second!Transform, P2!Transform, Second!Comparing, P2!Comparing,
         Second!IsEqualJson, P2!IsEqualJson, Second!Finalizing, P2!Finalizing
<1>8. Second!AddFinalizer => P2!AddFinalizer
  BY DEF Second!AddFinalizer, P2!AddFinalizer, Second!Update, P2!Update,
         Second!VersionMatches, P2!VersionMatches
<1>9. Second!RemoveFinalizer => P2!RemoveFinalizer
  BY DEF Second!RemoveFinalizer, P2!RemoveFinalizer, Second!Update, P2!Update,
         Second!VersionMatches, P2!VersionMatches
<1>10. Second!Step => P2!Step
  BY <1>1, <1>2, <1>3, <1>4, <1>5, <1>6, <1>7, <1>8, <1>9 DEF Second!Step, P2!Step
<1>11. Second!Interrupt => P2!Interrupt
  BY <1>1 DEF Second!Interrupt, P2!Interrupt, Second!Abandon, P2!Abandon
<1>12. ASSUME NEW c \in CRs
       PROVE  /\ Second!StartReconcile(c) => P2!StartReconcile(c)
              /\ Second!DeliverEvent(c) => P2!DeliverEvent(c)
              /\ Second!UserDelete(c) => P2!UserDelete(c)
  BY DEF Second!StartReconcile, P2!StartReconcile, Second!Reconcile, P2!Reconcile,
         Second!DeliverEvent, P2!DeliverEvent, Second!Deliver, P2!Deliver,
         Second!UserDelete, P2!UserDelete, Second!Remove, P2!Remove,
         Second!AtRest, P2!AtRest, Second!Quiet, P2!Quiet
<1>13. ASSUME NEW c \in CRs, NEW d \in Docs
       PROVE  /\ Second!UserCreate(c, d) => P2!UserCreate(c, d)
              /\ Second!UserEdit(c, d) => P2!UserEdit(c, d)
  BY DEF Second!UserCreate, P2!UserCreate, Second!Create, P2!Create,
         Second!UserEdit, P2!UserEdit, Second!Edit, P2!Edit,
         Second!Quiet, P2!Quiet, Second!Taken, P2!Taken
<1> QED
  BY <1>10, <1>11, <1>12, <1>13 DEF P2!Next, P2!Environment

-----------------------------------------------------------------------------
(* What one does, the other hears *)

\* A step that makes no version, or one of one object, as the other manager's
\* informer takes it: nothing, or a write of somebody.
LEMMA SecondHearsWrite ==
    ASSUME P1!IInv, P2!IInv, P1!Writes, SecondHears
    PROVE  \/ UNCHANGED P2!apiVars
           \/ \E c \in CRs, o \in P2!Objects \cup {Nil} : P2!Publish(c, o)
<1> USE DEF P1!IInv, P1!TypeOK, P1!ApiTypeOK, P2!IInv, P2!TypeOK, P2!ApiTypeOK
<1>1. ASSUME NEW c \in CRs, NEW o \in P1!Objects \cup {Nil}, P1!Publish(c, o)
      PROVE  P2!Publish(c, o)
  <2>1. /\ api' = [api EXCEPT ![c] = o] /\ api'[c] = o
        /\ watch1' = [watch1 EXCEPT ![c] = Append(watch1[c], o)]
    BY <1>1 DEF P1!Publish
  <2>2. Written(watch1) = {c}
    <3>1. \A e \in CRs : watch1[e] \in Seq(P1!Objects \cup {Nil})
      OBVIOUS
    <3>2. Len(watch1'[c]) = Len(watch1[c]) + 1 /\ Len(watch1[c]) \in Nat
      BY <2>1, <3>1
    <3>3. \A e \in CRs \ {c} : watch1'[e] = watch1[e] /\ Len(watch1[e]) \in Nat
      BY <2>1, <3>1
    <3> QED
      BY <3>2, <3>3 DEF Written
  <2>3. /\ Len(watch2[c]) < MaxLag /\ UNCHANGED cache2
        /\ uptodate2' = uptodate2 \ {c}
        /\ watch2' = [e \in CRs |-> IF e \in {c} THEN Append(watch2[e], api'[e]) ELSE watch2[e]]
    BY <2>2 DEF SecondHears, Hears
  <2>4. watch2' = [watch2 EXCEPT ![c] = Append(watch2[c], o)]
    BY <2>1, <2>3
  <2> QED
    BY <2>1, <2>3, <2>4 DEF P2!Publish
<1>2. CASE UNCHANGED api /\ ~\E c \in CRs : Len(watch1'[c]) > Len(watch1[c])
  <2>1. Written(watch1) = {}
    BY <1>2 DEF Written
  <2>2. /\ UNCHANGED cache2 /\ uptodate2' = uptodate2
        /\ watch2' = [c \in CRs |-> watch2[c]]
    BY <2>1 DEF SecondHears, Hears
  <2>3. watch2' = watch2
    BY <2>2
  <2> QED
    BY <1>2, <2>2, <2>3 DEF P2!apiVars
<1>3. P1!Objects = P2!Objects
  BY DEF P1!Objects, P2!Objects, P1!Messages, P2!Messages
<1> QED
  BY <1>1, <1>2, <1>3 DEF P1!Writes

LEMMA FirstHearsWrite ==
    ASSUME P2!IInv, P1!IInv, P2!Writes, FirstHears
    PROVE  \/ UNCHANGED P1!apiVars
           \/ \E c \in CRs, o \in P1!Objects \cup {Nil} : P1!Publish(c, o)
<1> USE DEF P2!IInv, P2!TypeOK, P2!ApiTypeOK, P1!IInv, P1!TypeOK, P1!ApiTypeOK
<1>1. ASSUME NEW c \in CRs, NEW o \in P2!Objects \cup {Nil}, P2!Publish(c, o)
      PROVE  P1!Publish(c, o)
  <2>1. /\ api' = [api EXCEPT ![c] = o] /\ api'[c] = o
        /\ watch2' = [watch2 EXCEPT ![c] = Append(watch2[c], o)]
    BY <1>1 DEF P2!Publish
  <2>2. Written(watch2) = {c}
    <3>1. \A e \in CRs : watch2[e] \in Seq(P2!Objects \cup {Nil})
      OBVIOUS
    <3>2. Len(watch2'[c]) = Len(watch2[c]) + 1 /\ Len(watch2[c]) \in Nat
      BY <2>1, <3>1
    <3>3. \A e \in CRs \ {c} : watch2'[e] = watch2[e] /\ Len(watch2[e]) \in Nat
      BY <2>1, <3>1
    <3> QED
      BY <3>2, <3>3 DEF Written
  <2>3. /\ Len(watch1[c]) < MaxLag /\ UNCHANGED cache1
        /\ uptodate1' = uptodate1 \ {c}
        /\ watch1' = [e \in CRs |-> IF e \in {c} THEN Append(watch1[e], api'[e]) ELSE watch1[e]]
    BY <2>2 DEF FirstHears, Hears
  <2>4. watch1' = [watch1 EXCEPT ![c] = Append(watch1[c], o)]
    BY <2>1, <2>3
  <2> QED
    BY <2>1, <2>3, <2>4 DEF P1!Publish
<1>2. CASE UNCHANGED api /\ ~\E c \in CRs : Len(watch2'[c]) > Len(watch2[c])
  <2>1. Written(watch2) = {}
    BY <1>2 DEF Written
  <2>2. /\ UNCHANGED cache1 /\ uptodate1' = uptodate1
        /\ watch1' = [c \in CRs |-> watch1[c]]
    BY <2>1 DEF FirstHears, Hears
  <2>3. watch1' = watch1
    BY <2>2
  <2> QED
    BY <1>2, <2>2, <2>3 DEF P1!apiVars
<1>3. P2!Objects = P1!Objects
  BY DEF P2!Objects, P1!Objects, P2!Messages, P1!Messages
<1> QED
  BY <1>1, <1>2, <1>3 DEF P2!Writes

-----------------------------------------------------------------------------
(* The invariant *)

\* Of both controllers; the history that neither module uses keeps its value.
BothIInv == P1!IInv /\ P2!IInv

LEMMA InitBoth == Init => BothIInv
<1> SUFFICES ASSUME Init
             PROVE  BothIInv
  OBVIOUS
<1>1. P1!IInv
  <2>1. P1!ApiTypeOK /\ P1!PinotTypeOK
    BY Constants1 DEF Init, First!ApiInit, First!PinotInit, P1!ApiTypeOK, P1!PinotTypeOK
  <2>2. ctl1 = P1!Idle /\ P1!Idle.pc = "idle" /\ uptodate1 = {} /\ disturbed = CRs
    BY DEF Init, First!ApiInit, First!Idle, P1!Idle
  <2>3. P1!CopiesAreVersions
    BY <2>2 DEF Init, First!ApiInit, P1!CopiesAreVersions, P1!CacheFollows
  <2> QED
    BY <2>1, <2>2, <2>3 DEF P1!IInv, P1!TypeOK, P1!Workers, P1!DeletesOwnName
<1>2. P2!IInv
  <2>1. P2!ApiTypeOK /\ P2!PinotTypeOK
    BY Constants2 DEF Init, Second!ApiInit, First!PinotInit, P2!ApiTypeOK, P2!PinotTypeOK
  <2>2. ctl2 = P2!Idle /\ P2!Idle.pc = "idle" /\ uptodate2 = {} /\ disturbed = CRs
    BY DEF Init, Second!ApiInit, Second!Idle, P2!Idle
  <2>3. P2!CopiesAreVersions
    BY <2>2 DEF Init, Second!ApiInit, P2!CopiesAreVersions, P2!CacheFollows
  <2> QED
    BY <2>1, <2>2, <2>3 DEF P2!IInv, P2!TypeOK, P2!Workers, P2!DeletesOwnName
<1> QED
  BY <1>1, <1>2 DEF BothIInv

\* A step of the first manager or of a user, and of the second manager.
LEMMA FirstKeepsBoth ==
    ASSUME BothIInv, P1!Next, SecondHears
    PROVE  BothIInv'
<1> USE DEF BothIInv
<1>1. P1!IInv'
  BY P1!NextIInv, Constants1
<1>2. P1!Writes
  BY P1!NextWrites, Constants1
<1>3. \/ UNCHANGED P2!apiVars
      \/ \E c \in CRs, o \in P2!Objects \cup {Nil} : P2!Publish(c, o)
  BY <1>2, SecondHearsWrite
<1>4. P2!PinotTypeOK' /\ disturbed' \subseteq CRs
  BY <1>1 DEF P1!IInv, P1!TypeOK, P1!PinotTypeOK, P2!PinotTypeOK
<1>5. ctl2' = ctl2
  BY DEF SecondHears
<1>6. ctl2' \in P2!Workers /\ P2!DeletesOwnName'
  BY <1>5 DEF P2!IInv, P2!TypeOK, P2!DeletesOwnName, P2!GetValueFromJson
<1>7. P2!IInv'
  BY <1>3, <1>4, <1>5, <1>6, P2!KeepsIInv, Constants2
<1> QED
  BY <1>1, <1>7

LEMMA SecondKeepsBoth ==
    ASSUME BothIInv, P2!Next, FirstHears
    PROVE  BothIInv'
<1> USE DEF BothIInv
<1>1. P2!IInv'
  BY P2!NextIInv, Constants2
<1>2. P2!Writes
  BY P2!NextWrites, Constants2
<1>3. \/ UNCHANGED P1!apiVars
      \/ \E c \in CRs, o \in P1!Objects \cup {Nil} : P1!Publish(c, o)
  BY <1>2, FirstHearsWrite
<1>4. P1!PinotTypeOK' /\ disturbed' \subseteq CRs
  BY <1>1 DEF P2!IInv, P2!TypeOK, P2!PinotTypeOK, P1!PinotTypeOK
<1>5. ctl1' = ctl1
  BY DEF FirstHears
<1>6. ctl1' \in P1!Workers /\ P1!DeletesOwnName'
  BY <1>5 DEF P1!IInv, P1!TypeOK, P1!DeletesOwnName, P1!GetValueFromJson
<1>7. P1!IInv'
  BY <1>3, <1>4, <1>5, <1>6, P1!KeepsIInv, Constants1
<1> QED
  BY <1>1, <1>7

\* Which manager acts, if any does.
LEMMA WhoActs ==
    ASSUME Next
    PROVE  (P1!Next /\ SecondHears) \/ (P2!Next /\ FirstHears)
<1>1. FirstActs => P1!Next /\ SecondHears
  BY FirstIsController DEF FirstActs
<1>2. SecondActs => P2!Next /\ FirstHears
  BY SecondIsController DEF SecondActs
<1>3. UserActs => P1!Next /\ SecondHears
  BY FirstIsController DEF UserActs
<1> QED
  BY <1>1, <1>2, <1>3 DEF Next

LEMMA NextBoth == BothIInv /\ [Next]_vars => BothIInv'
<1>1. ASSUME BothIInv, Next
      PROVE  BothIInv'
  BY <1>1, WhoActs, FirstKeepsBoth, SecondKeepsBoth
<1>2. ASSUME BothIInv, UNCHANGED vars
      PROVE  BothIInv'
  <2>1. UNCHANGED P1!vars /\ UNCHANGED P2!vars
    BY <1>2 DEF vars, informer1, informer2, P1!vars, P2!vars
  <2> QED
    BY <1>2, <2>1, P1!StutterKeepsIInv, P2!StutterKeepsIInv, Constants1, Constants2 DEF BothIInv
<1> QED
  BY <1>1, <1>2

\* The invariant of both managers' controllers holds in every reachable state.
THEOREM Invariance == Spec => []BothIInv
BY InitBoth, NextBoth, PTL DEF Spec

\* Every variable, of either manager or shared, keeps its type.
THEOREM TypeCorrect == Spec => []TypeOK
<1>1. P1!IInv => First!TypeOK
  BY DEF P1!IInv, P1!TypeOK, P1!ApiTypeOK, P1!PinotTypeOK, P1!Workers, P1!Working, P1!Idle,
         P1!Calls, P1!Objects, P1!Messages,
         First!TypeOK, First!ApiTypeOK, First!PinotTypeOK, First!Workers, First!Working,
         First!Idle, First!Calls, First!Objects, First!Messages
<1>2. P2!IInv => Second!TypeOK
  BY DEF P2!IInv, P2!TypeOK, P2!ApiTypeOK, P2!PinotTypeOK, P2!Workers, P2!Working, P2!Idle,
         P2!Calls, P2!Objects, P2!Messages,
         Second!TypeOK, Second!ApiTypeOK, Second!PinotTypeOK, Second!Workers, Second!Working,
         Second!Idle, Second!Calls, Second!Objects, Second!Messages
<1>3. BothIInv => TypeOK
  BY <1>1, <1>2 DEF BothIInv, TypeOK
<1> QED
  BY <1>3, Invariance, PTL

\* A copy that either manager could write back is the server's object.
THEOREM CopiesCorrect == Spec => []BothCopiesAreVersions
<1>1. P1!IInv => First!CopiesAreVersions
  BY DEF P1!IInv, P1!CopiesAreVersions, P1!CacheFollows, P1!Busy,
         First!CopiesAreVersions, First!CacheFollows, First!Busy
<1>2. P2!IInv => Second!CopiesAreVersions
  BY DEF P2!IInv, P2!CopiesAreVersions, P2!CacheFollows, P2!Busy,
         Second!CopiesAreVersions, Second!CacheFollows, Second!Busy
<1>3. BothIInv => BothCopiesAreVersions
  BY <1>1, <1>2 DEF BothIInv, BothCopiesAreVersions
<1> QED
  BY <1>3, Invariance, PTL

-----------------------------------------------------------------------------
(* What a step does to the resources in the API server *)

LEMMA FirstKeepsSpec ==
    ASSUME P1!IInv, P1!Next, SecondHears
    PROVE  First!KeepsSpec /\ Second!KeepsSpec
<1>1. [P1!CleanStep]_(P1!vars)
  BY P1!NextIsClean, Constants1
<1>2. ctl1' # ctl1 => P1!KeepsSpec
  BY <1>1 DEF P1!CleanStep, P1!vars
<1>3. ctl2' = ctl2
  BY DEF SecondHears
<1> QED
  BY <1>2, <1>3 DEF P1!KeepsSpec, First!KeepsSpec, Second!KeepsSpec

LEMMA SecondKeepsSpec ==
    ASSUME P2!IInv, P2!Next, FirstHears
    PROVE  First!KeepsSpec /\ Second!KeepsSpec
<1>1. [P2!CleanStep]_(P2!vars)
  BY P2!NextIsClean, Constants2
<1>2. ctl2' # ctl2 => P2!KeepsSpec
  BY <1>1 DEF P2!CleanStep, P2!vars
<1>3. ctl1' = ctl1
  BY DEF FirstHears
<1> QED
  BY <1>2, <1>3 DEF P2!KeepsSpec, First!KeepsSpec, Second!KeepsSpec

\* No write of either manager undoes a user's edit or revives an object.
THEOREM SpecIsKept == Spec => BothKeepSpec
<1>1. BothIInv /\ [Next]_vars => [First!KeepsSpec /\ Second!KeepsSpec]_vars
  BY WhoActs, FirstKeepsSpec, SecondKeepsSpec DEF BothIInv
<1> QED
  BY <1>1, Invariance, PTL DEF Spec, BothKeepSpec

-----------------------------------------------------------------------------
(* The refinement of the finalizer's contract *)

\* A step of the contract, or one it does not see.
Allowed == [Lifecycle!Next]_(Lifecycle!vars)

\* What the first manager does by the contract, with what the second has sent
\* besides.
LEMMA FirstAllowed ==
    ASSUME P1!Allowed, UNCHANGED ctl2
    PROVE  Allowed
<1> DEFINE phase == [c \in CRs |-> First!PhaseOf(c)]
           name == [c \in CRs |-> First!NameNow(c)]
           mine == [c \in CRs |-> First!SentNow(c)]
           sent == [c \in CRs |-> First!SentNow(c) \cup Second!SentNow(c)]
<1> USE DEF First!PhaseOf, First!NameNow, First!SentNow, First!Busy, First!GetValueFromJson,
            P1!PhaseOf, P1!NameNow, P1!SentNow, P1!Busy, P1!GetValueFromJson
<1>1. \A c \in CRs : Second!SentNow(c)' = Second!SentNow(c)
  BY DEF Second!SentNow, Second!Busy
<1>2. mine' = mine => sent' = sent
  <2>1. ASSUME mine' = mine, NEW c \in CRs
        PROVE  First!SentNow(c)' = First!SentNow(c)
    <3>1. mine[c]' = mine[c]
      BY <2>1
    <3> QED
      BY <3>1
  <2> QED
    BY <1>1, <2>1
<1>3. ASSUME NEW c \in CRs, NEW set, mine' = [mine EXCEPT ![c] = set]
      PROVE  sent' = [sent EXCEPT ![c] = set \cup Second!SentNow(c)]
  <2>1. First!SentNow(c)' = set /\ \A e \in CRs \ {c} : First!SentNow(e)' = First!SentNow(e)
    <3>1. mine'[c] = set /\ \A e \in CRs \ {c} : mine'[e] = mine[e]
      BY <1>3
    <3> QED
      BY <3>1
  <2> QED
    BY <1>1, <2>1
<1>4. CASE UNCHANGED P1!Lifecycle!vars
  <2>1. UNCHANGED <<phase, name, mine>>
    BY <1>4 DEF P1!Lifecycle!vars
  <2> QED
    BY <1>2, <2>1 DEF Allowed, Lifecycle!vars
<1>5. CASE P1!Lifecycle!Next
  <2> PICK c \in CRs :
        \/ P1!Lifecycle!Discard(c) \/ P1!Lifecycle!End(c) \/ P1!Lifecycle!Manage(c)
        \/ P1!Lifecycle!GiveUp(c) \/ P1!Lifecycle!Drop(c)
        \/ \E n \in Names \cup {Nil} : P1!Lifecycle!Create(c, n) \/ P1!Lifecycle!Rename(c, n)
        \/ \E n \in Names : P1!Lifecycle!SendDelete(c, n)
    BY <1>5 DEF P1!Lifecycle!Next
  <2>1. P1!Lifecycle!Discard(c) => Lifecycle!Discard(c)
    BY <1>2 DEF P1!Lifecycle!Discard, P1!Lifecycle!MoveTo, Lifecycle!Discard, Lifecycle!MoveTo
  <2>2. P1!Lifecycle!End(c) => Lifecycle!End(c)
    BY <1>2 DEF P1!Lifecycle!End, P1!Lifecycle!MoveTo, Lifecycle!End, Lifecycle!MoveTo
  <2>3. P1!Lifecycle!Manage(c) => Lifecycle!Manage(c)
    BY <1>2 DEF P1!Lifecycle!Manage, P1!Lifecycle!MoveTo, Lifecycle!Manage, Lifecycle!MoveTo
  <2>4. \A n : P1!Lifecycle!Create(c, n) => Lifecycle!Create(c, n)
    BY <1>2 DEF P1!Lifecycle!Create, P1!Lifecycle!MoveTo, Lifecycle!Create, Lifecycle!MoveTo
  <2>5. \A n : P1!Lifecycle!Rename(c, n) => Lifecycle!Rename(c, n)
    BY <1>2 DEF P1!Lifecycle!Rename, Lifecycle!Rename
  <2>6. ASSUME NEW n, P1!Lifecycle!SendDelete(c, n)
        PROVE  Lifecycle!SendDelete(c, n)
    <3>1. UNCHANGED <<phase, name>> /\ mine' = [mine EXCEPT ![c] = First!SentNow(c) \cup {n}]
      BY <2>6 DEF P1!Lifecycle!SendDelete
    <3>2. sent' = [sent EXCEPT ![c] = (First!SentNow(c) \cup {n}) \cup Second!SentNow(c)]
      BY <1>3, <3>1
    <3>3. sent' = [sent EXCEPT ![c] = sent[c] \cup {n}]
      BY <3>2
    <3> QED
      BY <3>1, <3>3 DEF Lifecycle!SendDelete
  <2>7. P1!Lifecycle!Forget(c) => Lifecycle!Forget(c)
    <3> SUFFICES ASSUME P1!Lifecycle!Forget(c)
                 PROVE  Lifecycle!Forget(c)
      OBVIOUS
    <3> PICK left \in SUBSET First!SentNow(c) : mine' = [mine EXCEPT ![c] = left]
      BY DEF P1!Lifecycle!Forget
    <3>1. sent' = [sent EXCEPT ![c] = left \cup Second!SentNow(c)]
      BY <1>3
    <3>2. left \cup Second!SentNow(c) \in SUBSET sent[c]
      OBVIOUS
    <3> QED
      BY <3>1, <3>2 DEF Lifecycle!Forget
  <2>8. P1!Lifecycle!GiveUp(c) => Lifecycle!GiveUp(c)
    BY <2>7 DEF P1!Lifecycle!GiveUp, Lifecycle!GiveUp
  <2>9. P1!Lifecycle!Drop(c) => Lifecycle!Drop(c)
    BY <2>7 DEF P1!Lifecycle!Drop, P1!Lifecycle!MoveTo, Lifecycle!Drop, Lifecycle!MoveTo
  <2> QED
    BY <2>1, <2>2, <2>3, <2>4, <2>5, <2>6, <2>8, <2>9 DEF Allowed, Lifecycle!Next
<1> QED
  BY <1>4, <1>5 DEF P1!Allowed

\* What the second manager does by the contract, with what the first has sent
\* besides.
LEMMA SecondAllowed ==
    ASSUME P2!Allowed, UNCHANGED ctl1
    PROVE  Allowed
<1> DEFINE phase == [c \in CRs |-> First!PhaseOf(c)]
           name == [c \in CRs |-> First!NameNow(c)]
           mine == [c \in CRs |-> Second!SentNow(c)]
           sent == [c \in CRs |-> First!SentNow(c) \cup Second!SentNow(c)]
<1> USE DEF First!PhaseOf, First!NameNow, Second!SentNow, Second!Busy, First!GetValueFromJson,
            P2!PhaseOf, P2!NameNow, P2!SentNow, P2!Busy, P2!GetValueFromJson
<1>1. \A c \in CRs : First!SentNow(c)' = First!SentNow(c)
  BY DEF First!SentNow, First!Busy
<1>2. mine' = mine => sent' = sent
  <2>1. ASSUME mine' = mine, NEW c \in CRs
        PROVE  Second!SentNow(c)' = Second!SentNow(c)
    <3>1. mine[c]' = mine[c]
      BY <2>1
    <3> QED
      BY <3>1
  <2> QED
    BY <1>1, <2>1
<1>3. ASSUME NEW c \in CRs, NEW set, mine' = [mine EXCEPT ![c] = set]
      PROVE  sent' = [sent EXCEPT ![c] = set \cup First!SentNow(c)]
  <2>1. Second!SentNow(c)' = set /\ \A e \in CRs \ {c} : Second!SentNow(e)' = Second!SentNow(e)
    <3>1. mine'[c] = set /\ \A e \in CRs \ {c} : mine'[e] = mine[e]
      BY <1>3
    <3> QED
      BY <3>1
  <2> QED
    BY <1>1, <2>1
<1>4. CASE UNCHANGED P2!Lifecycle!vars
  <2>1. UNCHANGED <<phase, name, mine>>
    BY <1>4 DEF P2!Lifecycle!vars
  <2> QED
    BY <1>2, <2>1 DEF Allowed, Lifecycle!vars
<1>5. CASE P2!Lifecycle!Next
  <2> PICK c \in CRs :
        \/ P2!Lifecycle!Discard(c) \/ P2!Lifecycle!End(c) \/ P2!Lifecycle!Manage(c)
        \/ P2!Lifecycle!GiveUp(c) \/ P2!Lifecycle!Drop(c)
        \/ \E n \in Names \cup {Nil} : P2!Lifecycle!Create(c, n) \/ P2!Lifecycle!Rename(c, n)
        \/ \E n \in Names : P2!Lifecycle!SendDelete(c, n)
    BY <1>5 DEF P2!Lifecycle!Next
  <2>1. P2!Lifecycle!Discard(c) => Lifecycle!Discard(c)
    BY <1>2 DEF P2!Lifecycle!Discard, P2!Lifecycle!MoveTo, Lifecycle!Discard, Lifecycle!MoveTo
  <2>2. P2!Lifecycle!End(c) => Lifecycle!End(c)
    BY <1>2 DEF P2!Lifecycle!End, P2!Lifecycle!MoveTo, Lifecycle!End, Lifecycle!MoveTo
  <2>3. P2!Lifecycle!Manage(c) => Lifecycle!Manage(c)
    BY <1>2 DEF P2!Lifecycle!Manage, P2!Lifecycle!MoveTo, Lifecycle!Manage, Lifecycle!MoveTo
  <2>4. \A n : P2!Lifecycle!Create(c, n) => Lifecycle!Create(c, n)
    BY <1>2 DEF P2!Lifecycle!Create, P2!Lifecycle!MoveTo, Lifecycle!Create, Lifecycle!MoveTo
  <2>5. \A n : P2!Lifecycle!Rename(c, n) => Lifecycle!Rename(c, n)
    BY <1>2 DEF P2!Lifecycle!Rename, Lifecycle!Rename
  <2>6. ASSUME NEW n, P2!Lifecycle!SendDelete(c, n)
        PROVE  Lifecycle!SendDelete(c, n)
    <3>1. UNCHANGED <<phase, name>> /\ mine' = [mine EXCEPT ![c] = Second!SentNow(c) \cup {n}]
      BY <2>6 DEF P2!Lifecycle!SendDelete
    <3>2. sent' = [sent EXCEPT ![c] = (Second!SentNow(c) \cup {n}) \cup First!SentNow(c)]
      BY <1>3, <3>1
    <3>3. sent' = [sent EXCEPT ![c] = sent[c] \cup {n}]
      BY <3>2
    <3> QED
      BY <3>1, <3>3 DEF Lifecycle!SendDelete
  <2>7. P2!Lifecycle!Forget(c) => Lifecycle!Forget(c)
    <3> SUFFICES ASSUME P2!Lifecycle!Forget(c)
                 PROVE  Lifecycle!Forget(c)
      OBVIOUS
    <3> PICK left \in SUBSET Second!SentNow(c) : mine' = [mine EXCEPT ![c] = left]
      BY DEF P2!Lifecycle!Forget
    <3>1. sent' = [sent EXCEPT ![c] = left \cup First!SentNow(c)]
      BY <1>3
    <3>2. left \cup First!SentNow(c) \in SUBSET sent[c]
      OBVIOUS
    <3> QED
      BY <3>1, <3>2 DEF Lifecycle!Forget
  <2>8. P2!Lifecycle!GiveUp(c) => Lifecycle!GiveUp(c)
    BY <2>7 DEF P2!Lifecycle!GiveUp, Lifecycle!GiveUp
  <2>9. P2!Lifecycle!Drop(c) => Lifecycle!Drop(c)
    BY <2>7 DEF P2!Lifecycle!Drop, P2!Lifecycle!MoveTo, Lifecycle!Drop, Lifecycle!MoveTo
  <2> QED
    BY <2>1, <2>2, <2>3, <2>4, <2>5, <2>6, <2>8, <2>9 DEF Allowed, Lifecycle!Next
<1> QED
  BY <1>4, <1>5 DEF P2!Allowed

LEMMA InitAllowed == Init => Lifecycle!Init
<1> SUFFICES ASSUME Init
             PROVE  Lifecycle!Init
  OBVIOUS
<1>1. Nil \notin CRs
  BY TwoManagersAssumption
<1>2. ASSUME NEW c \in CRs
      PROVE  /\ First!PhaseOf(c) = "absent" /\ First!NameNow(c) = Nil
             /\ First!SentNow(c) = {} /\ Second!SentNow(c) = {}
  BY <1>1 DEF Init, First!ApiInit, First!Idle, Second!Idle, First!PhaseOf, First!NameNow,
              First!SentNow, First!Busy, Second!SentNow, Second!Busy
<1> QED
  BY <1>2 DEF Lifecycle!Init

LEMMA NextAllowed == BothIInv /\ [Next]_vars => Allowed
<1>1. ASSUME BothIInv, P1!Next, SecondHears
      PROVE  Allowed
  BY <1>1, P1!NextAllowed, Constants1, FirstAllowed DEF BothIInv, SecondHears
<1>2. ASSUME BothIInv, P2!Next, FirstHears
      PROVE  Allowed
  BY <1>2, P2!NextAllowed, Constants2, SecondAllowed DEF BothIInv, FirstHears
<1>3. ASSUME UNCHANGED vars
      PROVE  Allowed
  BY <1>3
  DEF vars, Allowed, Lifecycle!vars, First!PhaseOf, First!NameNow, First!SentNow, First!Busy,
      First!GetValueFromJson, Second!SentNow, Second!Busy
<1> QED
  BY <1>1, <1>2, <1>3, WhoActs

\* Two managers together implement the contract of the finalizer.
THEOREM LifecycleImplemented == Spec => TogetherImplementLifecycle
<1>1. BothIInv /\ [Next]_vars => [Lifecycle!Next]_(Lifecycle!vars)
  BY NextAllowed DEF Allowed
<1> QED
  BY <1>1, InitAllowed, Invariance, PTL DEF Spec, TogetherImplementLifecycle, Lifecycle!Spec

=============================================================================
