---------------------- MODULE SchemaController_proofs ----------------------
(***************************************************************************)
(* Safety of the schema controller for any resources, documents, lag of    *)
(* the cache and number of faults, with its Pinot cluster always there and *)
(* with one that comes and goes.                                           *)
(***************************************************************************)
EXTENDS ClusterLookup, Settled_proofs

\* The end of a request: the server is untouched and the reconcile goes where
\* CallKeepsIInv knows.
LEMMA GetKeepsIInv ==
    ASSUME IInv, GetSchema, NoteCut
    PROVE  IInv'
<1> USE DEF IInv, TypeOK
<1>1. ctl.pc # "idle" /\ UNCHANGED apiVars
  BY DEF GetSchema
<1>2. ctl \in Working /\ ctl.obj.doc \in Docs /\ disturbed' \subseteq CRs
  BY <1>1, AtCall, NoteCutType DEF Working, Objects
<1> PICK answer \in Answers :
      /\ Get(ctl.path, answer)
      /\ ctl' = CASE answer = "absent" -> [ctl EXCEPT !.pc = "post"]
                  [] answer = "ok" ->
                       IF ctl.obj.current = Nil
                         THEN Recording(ctl, "CreateSuccess", "compare")
                         ELSE Comparing(ctl)
                  [] answer = "refused" -> Finalizing(ctl)
                  [] answer = "error" -> Idle
  BY DEF GetSchema
<1>3. PinotTypeOK'
  BY <1>2, RequestType
<1>4. \/ ctl' \in {Idle, Comparing(ctl), Finalizing(ctl), [ctl EXCEPT !.pc = "post"]}
      \/ ctl' = Recording(ctl, "CreateSuccess", "compare")
  BY DEF Answers
<1> QED
  BY <1>1, <1>2, <1>3, <1>4, CallKeepsIInv DEF Messages

LEMMA PostKeepsIInv ==
    ASSUME IInv, PostSchema, NoteCut
    PROVE  IInv'
<1> USE DEF IInv, TypeOK
<1>1. ctl.pc # "idle" /\ UNCHANGED apiVars
  BY DEF PostSchema
<1>2. ctl \in Working /\ ctl.obj.doc \in Docs /\ disturbed' \subseteq CRs
  BY <1>1, AtCall, NoteCutType DEF Working, Objects
<1> PICK answer \in Answers :
      /\ Post(ctl.obj.doc, answer)
      /\ ctl' = CASE answer = "ok" -> Recording(ctl, "CreateSuccess", "finalize")
                  [] answer = "refused" -> Recording(ctl, "CreateFail", "finalize")
                  [] OTHER -> Idle
  BY DEF PostSchema
<1>3. PinotTypeOK'
  BY <1>2, RequestType
<1>4. \/ ctl' = Idle
      \/ ctl' = Recording(ctl, "CreateSuccess", "finalize")
      \/ ctl' = Recording(ctl, "CreateFail", "finalize")
  BY DEF Answers
<1> QED
  BY <1>1, <1>2, <1>3, <1>4, CallKeepsIInv DEF Messages

LEMMA PutKeepsIInv ==
    ASSUME IInv, PutSchema, NoteCut
    PROVE  IInv'
<1> USE DEF IInv, TypeOK
<1>1. ctl.pc # "idle" /\ UNCHANGED apiVars
  BY DEF PutSchema
<1>2. ctl \in Working /\ ctl.obj.doc \in Docs /\ disturbed' \subseteq CRs
  BY <1>1, AtCall, NoteCutType DEF Working, Objects
<1> PICK answer \in Answers :
      /\ Put(ctl.path, ctl.obj.doc, answer)
      /\ ctl' = CASE answer = "ok" -> Recording(ctl, "UpdateSuccess", "finalize")
                  [] answer = "refused" -> Recording(ctl, "UpdateFail", "finalize")
                  [] OTHER -> Idle
  BY DEF PutSchema
<1>3. PinotTypeOK'
  BY <1>2, RequestType
<1>4. \/ ctl' = Idle
      \/ ctl' = Recording(ctl, "UpdateSuccess", "finalize")
      \/ ctl' = Recording(ctl, "UpdateFail", "finalize")
  BY DEF Answers
<1> QED
  BY <1>1, <1>2, <1>3, <1>4, CallKeepsIInv DEF Messages

LEMMA DeleteCallKeepsIInv ==
    ASSUME IInv, DeleteSchema, NoteCut
    PROVE  IInv'
<1>1. ctl.pc # "idle"
  BY DEF DeleteSchema, DeleteResource
<1> QED
  BY <1>1, NoteCutType, DeleteKeepsIInv DEF DeleteSchema

LEMMA NextIInv == IInv /\ [Next]_vars => IInv'
<1> SUFFICES ASSUME IInv, [Next]_vars
             PROVE  IInv'
  OBVIOUS
<1>1. CASE Step
  <2>1. CASE GetSchema \/ PostSchema \/ PutSchema \/ DeleteSchema
    BY <1>1, <2>1, GetKeepsIInv, PostKeepsIInv, PutKeepsIInv, DeleteCallKeepsIInv DEF Step
  <2>2. CASE Common
    BY <1>1, <2>2, CommonKeepsIInv DEF Step
  <2> QED
    BY <1>1, <2>1, <2>2 DEF Step, Common
<1>2. CASE Environment
  BY <1>2, EnvironmentKeepsIInv
<1>3. CASE UNCHANGED vars
  BY <1>3, StutterKeepsIInv
<1> QED
  BY <1>1, <1>2, <1>3 DEF Next

\* The inductive invariant holds in every reachable state.
THEOREM Invariance == Spec => []IInv
BY InitIInv, NextIInv, PTL DEF Spec

\* Every variable keeps its type.
THEOREM TypeCorrect == Spec => []TypeOK
<1>1. IInv => TypeOK
  BY DEF IInv
<1> QED
  BY <1>1, Invariance, PTL

\* The cache ends where the server is, and the copy a reconciler could write
\* back is the server's object.
THEOREM CopiesCorrect == Spec => []CopiesAreVersions
<1>1. IInv => CopiesAreVersions
  BY DEF IInv
<1> QED
  BY <1>1, Invariance, PTL

\* A request leaves the API server alone, and its reconcile goes on with what
\* it has in hand or is over.
LEMMA RequestEnds ==
    ASSUME IInv, GetSchema \/ PostSchema \/ PutSchema
    PROVE  /\ UNCHANGED apiVars
           /\ Continues(ctl, ctl')
           /\ ctl'.pc # "unfin"
<1>1. UNCHANGED apiVars /\ ctl \in Working
  BY AtCall DEF GetSchema, PostSchema, PutSchema, IInv, TypeOK
<1>2. \/ ctl' \in {Idle, Finalizing(ctl), Comparing(ctl), [ctl EXCEPT !.pc = "post"]}
      \/ \E m, t : ctl' = Recording(ctl, m, t)
  BY DEF GetSchema, PostSchema, PutSchema, Answers
<1> QED
  BY <1>1, <1>2, RequestMoves

-----------------------------------------------------------------------------
(* What the steps do to the resources in the API server *)

LEMMA NextIsClean == IInv /\ [Next]_vars => [CleanStep]_vars
<1> SUFFICES ASSUME IInv, Next
             PROVE  CleanStep
  BY DEF vars
<1>1. CASE GetSchema \/ PostSchema \/ PutSchema \/ DeleteSchema
  BY <1>1, NoWriteIsClean DEF GetSchema, PostSchema, PutSchema, DeleteSchema, DeleteResource, apiVars
<1>2. CASE Common
  BY <1>2, CommonIsClean
<1>3. CASE Environment
  BY <1>3, EnvironmentIsClean
<1> QED
  BY <1>1, <1>2, <1>3 DEF Next, Step, Common

\* No step of the reconciler undoes a user's edit, or revives an object.
THEOREM SpecIsKept == Spec => ControllerKeepsSpec
<1>1. CleanStep => KeepsSpec
  BY DEF CleanStep
<1>2. IInv /\ [Next]_vars => [KeepsSpec]_vars
  BY <1>1, NextIsClean
<1> QED
  BY <1>2, Invariance, PTL DEF Spec, ControllerKeepsSpec

\* An object with the finalizer leaves only as the end of a deletion, after
\* the name of its final spec was sent to Pinot.
THEOREM RemovalIsClean == Spec => CleanRemoval
<1>1. CleanStep => RemovesCleanly
  BY DEF CleanStep
<1>2. IInv /\ [Next]_vars => [RemovesCleanly]_vars
  BY <1>1, NextIsClean
<1> QED
  BY <1>2, Invariance, PTL DEF Spec, CleanRemoval

\* What another informer would hear of any step.
LEMMA NextWrites == IInv /\ Next => Writes
<1> SUFFICES ASSUME IInv, Next
             PROVE  Writes
  OBVIOUS
<1>1. CASE GetSchema \/ PostSchema \/ PutSchema \/ DeleteSchema
  BY <1>1, NoWrite DEF GetSchema, PostSchema, PutSchema, DeleteSchema, DeleteResource, apiVars
<1> QED
  BY <1>1, CommonWrites, EnvironmentWrites DEF Next, Step, Common

-----------------------------------------------------------------------------
(* The refinement of the finalizer's contract *)

\* GET, POST and PUT happen outside the contract.
LEMMA RequestAllowed ==
    ASSUME IInv, GetSchema \/ PostSchema \/ PutSchema
    PROVE  Allowed
<1>1. UNCHANGED api /\ ctl.pc \in {"get", "post", "put"}
  BY DEF GetSchema, PostSchema, PutSchema, apiVars
<1> QED
  BY <1>1, RequestEnds, CallAllowed

LEMMA NextAllowed == IInv /\ [Next]_vars => Allowed
<1> SUFFICES ASSUME IInv, [Next]_vars
             PROVE  Allowed
  OBVIOUS
<1>1. CASE Step
  BY <1>1, RequestAllowed, DeleteAllowed, CommonAllowed DEF Step, Common, DeleteSchema
<1>2. CASE Environment
  BY <1>2, EnvironmentAllowed
<1>3. CASE UNCHANGED vars
  BY <1>3, StutterAllowed
<1> QED
  BY <1>1, <1>2, <1>3 DEF Next

\* The controller implements the contract of its finalizer.
THEOREM LifecycleImplemented == Spec => ImplementsLifecycle
<1>1. IInv /\ [Next]_vars => [Lifecycle!Next]_(Lifecycle!vars)
  BY NextAllowed DEF Allowed
<1> QED
  BY <1>1, InitAllowed, Invariance, PTL DEF Spec, ImplementsLifecycle, Lifecycle!Spec

-----------------------------------------------------------------------------
(* Settled resources, and what a deletion leaves *)

LEMMA DeleteCallGone ==
    ASSUME IInv, DeleteSchema
    PROVE  Gone'
<1>1. RoleOf[ctl.obj.doc] \in Roles
  BY AtCall, DocumentsAssumption
  DEF DeleteSchema, DeleteResource, IInv, TypeOK, Working, Objects
<1> QED
  BY <1>1, DeleteGone DEF DeleteSchema

LEMMA NextGone == IInv /\ Gone /\ [Next]_vars => Gone'
<1> SUFFICES ASSUME IInv, Gone, [Next]_vars
             PROVE  Gone'
  OBVIOUS
<1>1. CASE GetSchema \/ PostSchema \/ PutSchema
  BY <1>1, RequestEnds DEF Gone
<1> QED
  BY <1>1, DeleteCallGone, CommonGone, EnvironmentGone, StutterGone DEF Next, Step, Common

LEMMA NextLeavesNothing == IInv /\ Gone /\ [Next]_vars => [LeavesNothing]_vars
<1> SUFFICES ASSUME IInv, Gone, Next
             PROVE  LeavesNothing
  BY DEF vars
<1>1. CASE GetSchema \/ PostSchema \/ PutSchema \/ DeleteSchema
  BY <1>1, NoWriteLeavesNothing DEF GetSchema, PostSchema, PutSchema, DeleteSchema, DeleteResource, apiVars
<1> QED
  BY <1>1, CommonLeavesNothing, EnvironmentLeavesNothing DEF Next, Step, Common

\* If no request ever failed, an object with the finalizer leaves only when
\* Pinot has nothing in the place of its document, of whatever other resource.
THEOREM NothingIsLeft == Spec => RemovalLeavesNothing
<1>1. Spec => []Gone
  BY InitGone, Invariance, NextGone, PTL DEF Spec
<1> QED
  BY <1>1, Invariance, NextLeavesNothing, PTL DEF Spec, RemovalLeavesNothing, LeavesNothing

LEMMA NextCalm == IInv /\ Calm /\ [Next]_vars => Calm'
<1> SUFFICES ASSUME IInv, Calm, [Next]_vars
             PROVE  Calm'
  OBVIOUS
<1>1. CASE Step
  <2>1. disturbed \subseteq disturbed'
    BY <1>1 DEF Step, NoteCut, Note
  <2>2. CASE GetSchema \/ PostSchema \/ PutSchema
    BY <2>1, <2>2, RequestEnds, RequestCalm
  <2>3. CASE DeleteSchema
    <3>1. ctl \in Working /\ UNCHANGED apiVars
      BY <2>3, AtCall DEF DeleteSchema, DeleteResource, IInv, TypeOK
    <3>2. ctl' = Idle \/ ctl' = [ctl EXCEPT !.pc = "unfin"]
      BY <2>3 DEF DeleteSchema, DeleteResource
    <3>3. Continues(ctl, ctl')
      BY <3>1, <3>2 DEF Working, Continues
    <3> QED
      BY <2>1, <3>1, <3>3, RequestCalm
  <2> QED
    BY <1>1, <2>2, <2>3, CommonCalm DEF Step, Common
<1> QED
  BY <1>1, EnvironmentCalm, StutterCalm DEF Next

\* The versions of a settled resource that anyone has or will receive follow
\* from its present spec, whatever happens to other resources.
THEOREM SettledIsCalm == Spec => []Calm
BY InitCalm, Invariance, NextCalm, PTL DEF Spec

\* What the status of a settled resource records can be compared with.
THEOREM RecordParses == Spec => []RecordedParses
BY SettledIsCalm, CalmRecords, PTL

-----------------------------------------------------------------------------
(* Resources that are given no name in common *)

\* All four requests leave the API server alone.
LEMMA RequestShape ==
    ASSUME IInv, GetSchema \/ PostSchema \/ PutSchema \/ DeleteSchema
    PROVE  ctl \in Working /\ UNCHANGED apiVars /\ Continues(ctl, ctl')
<1>1. ctl \in Working
  BY AtCall DEF GetSchema, PostSchema, PutSchema, DeleteSchema, DeleteResource, IInv, TypeOK
<1>2. CASE GetSchema \/ PostSchema \/ PutSchema
  BY <1>1, <1>2, RequestEnds
<1>3. CASE DeleteSchema
  <2>1. UNCHANGED apiVars /\ (ctl' = Idle \/ ctl' = [ctl EXCEPT !.pc = "unfin"])
    BY <1>3 DEF DeleteSchema, DeleteResource
  <2> QED
    BY <1>1, <2>1 DEF Working, Continues
<1> QED
  BY <1>2, <1>3

LEMMA NextOwned ==
    ASSUME NEW mine
    PROVE  IInv /\ IInv' /\ Own(mine)' /\ Owned(mine) /\ [Next]_vars => Owned(mine)'
<1> SUFFICES ASSUME IInv, IInv', Own(mine)', Owned(mine), [Next]_vars
             PROVE  Owned(mine)'
  OBVIOUS
<1>1. ASSUME NEW c \in CRs
      PROVE  Sees(c)
  <2>1. CASE GetSchema \/ PostSchema \/ PutSchema \/ DeleteSchema
    BY <2>1, RequestShape, WriteSees
  <2> QED
    BY <2>1, CommonSees, EnvironmentSees, StutterSees DEF Next, Step, Common
<1> QED
  BY <1>1, SeesOwned

LEMMA GetAnswers ==
    ASSUME IInv, GetSchema, NoteCut,
           NEW c \in CRs, Busy(c), c \notin disturbed', Settled(c), Coherent(c)
    PROVE  TrueAnswer(c, "reported")
<1> "reported" \in Claims
  BY DEF Claims
<1>1. ctl.pc = "get" /\ ctl \in Working /\ UNCHANGED <<pinot, apiVars>>
  BY AtCall DEF GetSchema, Get, IInv, TypeOK
<1> PICK answer \in Answers :
      /\ Get(ctl.path, answer)
      /\ ctl' = CASE answer = "absent" -> [ctl EXCEPT !.pc = "post"]
                  [] answer = "ok" ->
                       IF ctl.obj.current = Nil
                         THEN Recording(ctl, "CreateSuccess", "compare")
                         ELSE Comparing(ctl)
                  [] answer = "refused" -> Finalizing(ctl)
                  [] answer = "error" -> Idle
  BY DEF GetSchema
<1>2. CASE answer = "absent"
  <2>1. ctl' = [ctl EXCEPT !.pc = "post"] /\ ~Holds(ctl.path)
    BY <1>2 DEF Get
  <2> QED
    BY <1>1, <2>1, AbsentAnswer, EndingCompares DEF TrueAnswer
<1>3. CASE answer = "ok" /\ ctl.obj.current = Nil
  <2>1. ctl' = Recording(ctl, "CreateSuccess", "compare") /\ Holds(ctl.path)
    BY <1>3 DEF Get
  <2>2. "CreateSuccess" \in Messages \ {""}
    BY DEF Messages
  <2> QED
    BY <1>1, <1>3, <2>1, <2>2, AdoptsGood, RecordedAnswer, EndingCompares DEF TrueAnswer
<1>4. CASE ctl' \in {Idle, Comparing(ctl), Finalizing(ctl)}
  <2>1. ctl'.pc \in {"idle", "put", "addfin", "delete"}
    BY <1>1, <1>4, ComparingEffect, FinalizingEffect, IdleWorker
  <2>2. Ending(c) => ~Busy(c)' \/ ctl'.pc = "delete"
    BY <1>1, <1>4, EndingCompares, IdleWorker DEF Busy
  <2> QED
    BY <1>1, <2>1, <2>2, UnrecordedAnswer DEF TrueAnswer
<1> QED
  BY <1>2, <1>3, <1>4 DEF Answers

LEMMA PostAnswers ==
    ASSUME IInv, PostSchema, NoteCut,
           NEW c \in CRs, Busy(c), c \notin disturbed', Settled(c), Coherent(c)
    PROVE  TrueAnswer(c, "reported")
<1> "reported" \in Claims
  BY DEF Claims
<1>1. ctl.pc = "post" /\ ctl \in Working /\ UNCHANGED apiVars
  BY AtCall DEF PostSchema, IInv, TypeOK
<1> PICK answer \in Answers :
      /\ Post(ctl.obj.doc, answer)
      /\ ctl' = CASE answer = "ok" -> Recording(ctl, "CreateSuccess", "finalize")
                  [] answer = "refused" -> Recording(ctl, "CreateFail", "finalize")
                  [] OTHER -> Idle
  BY DEF PostSchema
<1>2. ~Ending(c) /\ {"CreateSuccess", "CreateFail"} \subseteq Messages \ {""}
  BY <1>1 DEF Ending, Messages
<1>3. CASE answer = "ok"
  <2>1. pinot' = With(ctl.obj.doc) /\ ctl' = Recording(ctl, "CreateSuccess", "finalize")
    BY <1>3 DEF Post, Change, Refuse
  <2> QED
    BY <1>1, <1>2, <2>1, RecordedAnswer DEF TrueAnswer, Fails
<1>4. CASE answer = "refused"
  <2>1. UNCHANGED pinot /\ ctl' = Recording(ctl, "CreateFail", "finalize")
    BY <1>4 DEF Post, Change, Refuse, pinotVars
  <2> QED
    BY <1>1, <1>2, <2>1, RecordedAnswer DEF TrueAnswer, Fails
<1>5. CASE answer \notin {"ok", "refused"}
  <2>1. Fault /\ ctl' = Idle
    BY <1>5 DEF Post, Change, Refuse
  <2> QED
    BY <2>1, CutDisturbs
<1> QED
  BY <1>3, <1>4, <1>5

LEMMA PutAnswers ==
    ASSUME IInv, PutSchema, NoteCut,
           NEW c \in CRs, Busy(c), c \notin disturbed', Settled(c), Coherent(c)
    PROVE  TrueAnswer(c, "reported")
<1> "reported" \in Claims
  BY DEF Claims
<1>1. ctl.pc = "put" /\ ctl \in Working /\ UNCHANGED apiVars
  BY AtCall DEF PutSchema, IInv, TypeOK
<1> PICK answer \in Answers :
      /\ Put(ctl.path, ctl.obj.doc, answer)
      /\ ctl' = CASE answer = "ok" -> Recording(ctl, "UpdateSuccess", "finalize")
                  [] answer = "refused" -> Recording(ctl, "UpdateFail", "finalize")
                  [] OTHER -> Idle
  BY DEF PutSchema
<1>2. ~Ending(c) /\ {"UpdateSuccess", "UpdateFail"} \subseteq Messages \ {""}
  BY <1>1 DEF Ending, Messages
<1>3. CASE answer = "ok"
  <2>1. pinot' = With(ctl.obj.doc) /\ ctl' = Recording(ctl, "UpdateSuccess", "finalize")
    BY <1>3 DEF Put, Change, Refuse
  <2> QED
    BY <1>1, <1>2, <2>1, RecordedAnswer DEF TrueAnswer, Fails
<1>4. CASE answer = "refused"
  <2>1. UNCHANGED pinot /\ ctl' = Recording(ctl, "UpdateFail", "finalize")
    BY <1>4 DEF Put, Change, Refuse, pinotVars
  <2> QED
    BY <1>1, <1>2, <2>1, RecordedAnswer DEF TrueAnswer, Fails
<1>5. CASE answer \notin {"ok", "refused"}
  <2>1. Fault /\ ctl' = Idle
    BY <1>5 DEF Put, Change, Refuse
  <2> QED
    BY <2>1, CutDisturbs
<1> QED
  BY <1>3, <1>4, <1>5

LEMMA NextAlone ==
    ASSUME NEW mine, NamesApart(mine)
    PROVE  /\ IInv /\ Calm /\ Own(mine) /\ Own(mine)' /\ Owned(mine) /\ Alone(mine, "reported")
           /\ [Next]_vars
           => Alone(mine, "reported")'
<1> SUFFICES ASSUME IInv, Calm, Own(mine), Own(mine)', Owned(mine), Alone(mine, "reported"),
                    [Next]_vars
             PROVE  Alone(mine, "reported")'
  OBVIOUS
<1> "reported" \in Claims
  BY DEF Claims
<1>1. CASE (GetSchema \/ PostSchema \/ PutSchema) /\ NoteCut
  <2>1. ctl \in Working /\ UNCHANGED apiVars /\ Continues(ctl, ctl')
    BY <1>1, RequestShape
  <2>2. ctl.pc \in {"get", "post", "put"} /\ \E answer : Requests({}, answer)
    BY <1>1, <2>1 DEF GetSchema, PostSchema, PutSchema, Requests
  <2>3. \A c \in CRs : Busy(c) /\ c \notin disturbed' /\ Settled(c) /\ Coherent(c) =>
                         TrueAnswer(c, "reported")
    BY <1>1, GetAnswers, PostAnswers, PutAnswers
  <2> QED
    BY <1>1, <2>2, <2>3, RequestAlone
<1>2. CASE DeleteSchema /\ NoteCut
  BY <1>2, DeleteAlone DEF DeleteSchema
<1>3. CASE Common /\ NoteCut
  BY <1>3, CommonAlone
<1>4. CASE Environment
  BY <1>4, EnvironmentAlone
<1>5. CASE UNCHANGED vars
  BY <1>5, StutterAlone
<1> QED
  BY <1>1, <1>2, <1>3, <1>4, <1>5 DEF Next, Step, Common

LEMMA AloneStays ==
    ASSUME NEW mine, NamesApart(mine)
    PROVE  Spec /\ []Own(mine) => [](Calm /\ Alone(mine, "reported"))
<1>1. Init => Owned(mine) /\ Alone(mine, "reported")
  BY InitOwned, InitAlone
<1>2. /\ IInv /\ IInv' /\ Calm /\ Own(mine) /\ Own(mine)' /\ Owned(mine) /\ Alone(mine, "reported")
      /\ [Next]_vars
      => Owned(mine)' /\ Alone(mine, "reported")'
  BY NextOwned, NextAlone
<1> QED
  BY <1>1, <1>2, Invariance, SettledIsCalm, PTL DEF Spec

\* However many resources there are, if their users never give one the name of
\* another, a settled resource whose status shows its spec and no failure has
\* that spec in Pinot.
THEOREM StatusIsTrue ==
    ASSUME NEW mine, NamesApart(mine)
    PROVE  Spec /\ []Own(mine) => []NoSilentDivergence
BY AloneStays, NoDivergence, PTL

\* Under the same condition a settled resource with CreateSuccess in its status
\* has the schema that the status records in Pinot.
THEOREM SuccessIsTrue ==
    ASSUME NEW mine, NamesApart(mine)
    PROVE  Spec /\ []Own(mine) => []CreateSuccessIsServed
<1>1. IInv /\ Calm /\ Alone(mine, "reported") => CreateSuccessIsServed
  BY SuccessIsServed DEF IInv
<1> QED
  BY <1>1, AloneStays, Invariance, PTL

\* One resource shares its names with no other: nothing is asked of its users.
LEMMA OneOwns ==
    ASSUME \A c, e \in CRs : c = e
    PROVE  LET mine == [c \in CRs |-> Docs] IN NamesApart(mine) /\ (IInv => Own(mine))
BY DEF NamesApart, Own, IInv, TypeOK, ApiTypeOK, Objects

\* With one resource, whatever its user does and whatever fails, the two hold.
THEOREM OneStatusIsTrue ==
    ASSUME \A c, e \in CRs : c = e
    PROVE  Spec => [](NoSilentDivergence /\ CreateSuccessIsServed)
<1> PICK mine : mine = [c \in CRs |-> Docs]
  OBVIOUS
<1>1. NamesApart(mine) /\ (IInv => Own(mine))
  BY OneOwns
<1> QED
  BY <1>1, Invariance, StatusIsTrue, SuccessIsTrue, PTL

-----------------------------------------------------------------------------
(* With a cluster that comes and goes *)

\* The one step that the lookups add: a request has no host to go to.
NoHost ==
    /\ ctl.pc \in {"get", "post", "put", "delete"}
    /\ ctl' = Idle
    /\ UNCHANGED <<apiVars, pinotVars, disturbed>>

LEMMA LookupSteps == [LookupNext]_lookupVars => [Next]_vars \/ NoHost
<1> SUFFICES ASSUME [LookupNext]_lookupVars
             PROVE  Next \/ UNCHANGED vars \/ NoHost
  OBVIOUS
<1>1. Reached => Next
  BY DEF Reached, Next
<1>2. Unreached => NoHost
  BY DEF Unreached, Reaches, NoHost
<1>3. ClusterChanges \/ UNCHANGED lookupVars => UNCHANGED vars
  BY DEF ClusterChanges, lookupVars
<1>4. \A c \in CRs : Start(c) => Next
  BY DEF Start, Next, Environment
<1>5. \/ Interrupt
      \/ \E c \in CRs :
           \/ DeliverEvent(c)
           \/ \E d \in Docs : UserCreate(c, d) \/ UserEdit(c, d)
           \/ UserDelete(c)
      => Next
  BY DEF Next, Environment
<1> QED
  BY <1>1, <1>2, <1>3, <1>4, <1>5 DEF LookupNext

LEMMA NoHostIInv == IInv /\ NoHost => IInv'
<1> SUFFICES ASSUME IInv, NoHost
             PROVE  IInv'
  OBVIOUS
<1>1. ctl.pc # "idle" /\ ctl.cr \in CRs
  BY AtCall DEF NoHost, IInv, TypeOK, Working
<1>2. PinotTypeOK' /\ disturbed' \subseteq CRs
  BY <1>1 DEF NoHost, pinotVars, IInv, TypeOK, PinotTypeOK
<1> QED
  BY <1>1, <1>2, CallKeepsIInv DEF NoHost

LEMMA NoHostAllowed == NoHost => Allowed
<1>1. NoHost => UNCHANGED api /\ ctl.pc # "unfin" /\ ctl'.pc # "unfin"
  BY IdleWorker DEF NoHost, apiVars
<1> QED
  BY <1>1, CallAllowed

LEMMA NoHostLeaves == NoHost => Gone' /\ [LeavesNothing]_vars
<1>1. NoHost => UNCHANGED api /\ ctl'.pc # "unfin"
  BY IdleWorker DEF NoHost, apiVars
<1> QED
  BY <1>1, NoWriteLeavesNothing DEF Gone

\* The invariant of the schema controller is kept by a cluster that comes and goes.
THEOREM LookupInvariance == LookupSpec => []IInv
<1>1. LookupInit => IInv
  BY InitIInv DEF LookupInit
<1>2. IInv /\ [LookupNext]_lookupVars => IInv'
  BY LookupSteps, NextIInv, NoHostIInv
<1> QED
  BY <1>1, <1>2, PTL DEF LookupSpec

\* The variables keep their types, those of the lookups included.
THEOREM LookupTypeCorrect == LookupSpec => []LookupTypeOK
<1> DEFINE Lookups == cluster \in ClusterStates /\ host \in BOOLEAN
<1>1. LookupInit => Lookups
  BY DEF LookupInit
<1>2. Lookups /\ [LookupNext]_lookupVars => Lookups'
  BY DEF LookupNext, Reached, Unreached, Forget, ClusterChanges, Start, lookupVars
<1>3. IInv /\ Lookups => LookupTypeOK
  BY DEF IInv, LookupTypeOK
<1> QED
  BY <1>1, <1>2, <1>3, LookupInvariance, PTL DEF LookupSpec

\* However the cluster comes and goes, the finalizer's contract is kept.
THEOREM LookupLifecycle == LookupSpec => ImplementsLifecycle
<1>1. LookupInit => Lifecycle!Init
  BY InitAllowed DEF LookupInit
<1>2. IInv /\ [LookupNext]_lookupVars => [Lifecycle!Next]_(Lifecycle!vars)
  BY LookupSteps, NextAllowed, NoHostAllowed DEF Allowed
<1> QED
  BY <1>1, <1>2, LookupInvariance, PTL DEF LookupSpec, ImplementsLifecycle, Lifecycle!Spec

\* A deletion that met no host, and was taken up again later, leaves nothing in
\* Pinot either.
THEOREM LookupNothingIsLeft == LookupSpec => RemovalLeavesNothing
<1>1. LookupInit => Gone
  BY InitGone DEF LookupInit
<1>2. IInv /\ Gone /\ [LookupNext]_lookupVars => Gone'
  BY LookupSteps, NextGone, NoHostLeaves
<1>3. IInv /\ Gone /\ [LookupNext]_lookupVars => [LeavesNothing]_vars
  BY LookupSteps, NextLeavesNothing, NoHostLeaves
<1> QED
  BY <1>1, <1>2, <1>3, LookupInvariance, PTL
  DEF LookupSpec, RemovalLeavesNothing, LeavesNothing
=============================================================================
