----------------------- MODULE TableController_proofs -----------------------
(***************************************************************************)
(* Safety of the table controller for any resources, documents, lag of the *)
(* cache and number of faults, by itself and beside the schema its tables  *)
(* are made of.                                                            *)
(***************************************************************************)
EXTENDS TableAndSchema, Settled_proofs

\* The end of a request: the server is untouched and the reconcile goes where
\* CallKeepsIInv knows.
LEMMA GetKeepsIInv ==
    ASSUME IInv, GetTable, NoteCut
    PROVE  IInv'
<1> USE DEF IInv, TypeOK
<1>1. ctl.pc # "idle" /\ UNCHANGED apiVars
  BY DEF GetTable
<1>2. ctl \in Working /\ ctl.obj.doc \in Docs /\ disturbed' \subseteq CRs
  BY <1>1, AtCall, NoteCutType DEF Working, Objects
<1> PICK answer \in Answers :
      /\ Get(ctl.path, answer)
      /\ ctl' = CASE answer = "absent" -> [ctl EXCEPT !.pc = "post"]
                  [] answer \in {"ok", "refused"} ->
                       IF ctl.obj.current = Nil
                         THEN Recording(ctl, "CreateSuccess", "compare")
                         ELSE Comparing(ctl)
                  [] answer = "error" -> Idle
  BY DEF GetTable
<1>3. PinotTypeOK'
  BY <1>2, RequestType
<1>4. \/ ctl' \in {Idle, Comparing(ctl), Finalizing(ctl), [ctl EXCEPT !.pc = "post"]}
      \/ ctl' = Recording(ctl, "CreateSuccess", "compare")
  BY DEF Answers
<1> QED
  BY <1>1, <1>2, <1>3, <1>4, CallKeepsIInv DEF Messages

LEMMA PostKeepsIInv ==
    ASSUME IInv, PostTable, NoteCut
    PROVE  IInv'
<1> USE DEF IInv, TypeOK
<1>1. ctl.pc # "idle" /\ UNCHANGED apiVars
  BY DEF PostTable
<1>2. ctl \in Working /\ ctl.obj.doc \in Docs /\ disturbed' \subseteq CRs
  BY <1>1, AtCall, NoteCutType DEF Working, Objects
<1> PICK answer \in Answers :
      /\ Post(ctl.obj.doc, answer)
      /\ ctl' = IF answer = "error" THEN Idle
                ELSE Recording(ctl, "CreateSuccess", "finalize")
  BY DEF PostTable, AfterPost
<1>3. PinotTypeOK'
  BY <1>2, RequestType
<1>4. \/ ctl' = Idle
      \/ ctl' = Recording(ctl, "CreateSuccess", "finalize")
  BY DEF Answers
<1> QED
  BY <1>1, <1>2, <1>3, <1>4, CallKeepsIInv DEF Messages

LEMMA PutKeepsIInv ==
    ASSUME IInv, PutTable, NoteCut
    PROVE  IInv'
<1> USE DEF IInv, TypeOK
<1>1. ctl.pc # "idle" /\ UNCHANGED apiVars
  BY DEF PutTable
<1>2. ctl \in Working /\ ctl.obj.doc \in Docs /\ disturbed' \subseteq CRs
  BY <1>1, AtCall, NoteCutType DEF Working, Objects
<1> PICK answer \in Answers :
      /\ Put(ctl.path, ctl.obj.doc, answer)
      /\ ctl' = CASE answer = "ok" -> Recording(ctl, "UpdateSuccess", "finalize")
                  [] answer = "refused" -> Recording(ctl, "UpdateFail", "finalize")
                  [] OTHER -> Idle
  BY DEF PutTable
<1>3. PinotTypeOK'
  BY <1>2, RequestType
<1>4. \/ ctl' = Idle
      \/ ctl' = Recording(ctl, "UpdateSuccess", "finalize")
      \/ ctl' = Recording(ctl, "UpdateFail", "finalize")
  BY DEF Answers
<1> QED
  BY <1>1, <1>2, <1>3, <1>4, CallKeepsIInv DEF Messages

LEMMA DeleteCallKeepsIInv ==
    ASSUME IInv, DeleteTable, NoteCut
    PROVE  IInv'
<1>1. ctl.pc # "idle"
  BY DEF DeleteTable, DeleteResource
<1> QED
  BY <1>1, NoteCutType, DeleteKeepsIInv DEF DeleteTable

LEMMA NextIInv == IInv /\ [Next]_vars => IInv'
<1> SUFFICES ASSUME IInv, [Next]_vars
             PROVE  IInv'
  OBVIOUS
<1>1. CASE Step
  <2>1. CASE GetTable \/ PostTable \/ PutTable \/ DeleteTable
    BY <1>1, <2>1, GetKeepsIInv, PostKeepsIInv, PutKeepsIInv, DeleteCallKeepsIInv DEF Step
  <2>2. CASE Common
    BY <1>1, <2>2, CommonKeepsIInv DEF Step
  <2> QED
    BY <1>1, <2>1, <2>2 DEF Step, Common
<1>2. CASE Environment
  BY <1>2, EnvironmentKeepsIInv
<1>3. CASE UNCHANGED vars
  BY <1>3, StutterKeepsIInv
<1> QED
  BY <1>1, <1>2, <1>3 DEF Next

\* The inductive invariant holds in every reachable state.
THEOREM Invariance == Spec => []IInv
BY InitIInv, NextIInv, PTL DEF Spec

\* Every variable keeps its type.
THEOREM TypeCorrect == Spec => []TypeOK
<1>1. IInv => TypeOK
  BY DEF IInv
<1> QED
  BY <1>1, Invariance, PTL

\* The cache ends where the server is, and the copy a reconciler could write
\* back is the server's object.
THEOREM CopiesCorrect == Spec => []CopiesAreVersions
<1>1. IInv => CopiesAreVersions
  BY DEF IInv
<1> QED
  BY <1>1, Invariance, PTL

\* A request leaves the API server alone, and its reconcile goes on with what
\* it has in hand or is over.
LEMMA RequestEnds ==
    ASSUME IInv, GetTable \/ PostTable \/ PutTable
    PROVE  /\ UNCHANGED apiVars
           /\ Continues(ctl, ctl')
           /\ ctl'.pc # "unfin"
<1>1. UNCHANGED apiVars /\ ctl \in Working
  BY AtCall DEF GetTable, PostTable, PutTable, IInv, TypeOK
<1>2. \/ ctl' \in {Idle, Finalizing(ctl), Comparing(ctl), [ctl EXCEPT !.pc = "post"]}
      \/ \E m, t : ctl' = Recording(ctl, m, t)
  BY DEF GetTable, PostTable, AfterPost, PutTable, Answers
<1> QED
  BY <1>1, <1>2, RequestMoves

-----------------------------------------------------------------------------
(* What the steps do to the resources in the API server *)

LEMMA NextIsClean == IInv /\ [Next]_vars => [CleanStep]_vars
<1> SUFFICES ASSUME IInv, Next
             PROVE  CleanStep
  BY DEF vars
<1>1. CASE GetTable \/ PostTable \/ PutTable \/ DeleteTable
  BY <1>1, NoWriteIsClean DEF GetTable, PostTable, PutTable, DeleteTable, DeleteResource, apiVars
<1>2. CASE Common
  BY <1>2, CommonIsClean
<1>3. CASE Environment
  BY <1>3, EnvironmentIsClean
<1> QED
  BY <1>1, <1>2, <1>3 DEF Next, Step, Common

\* No step of the reconciler undoes a user's edit, or revives an object.
THEOREM SpecIsKept == Spec => ControllerKeepsSpec
<1>1. CleanStep => KeepsSpec
  BY DEF CleanStep
<1>2. IInv /\ [Next]_vars => [KeepsSpec]_vars
  BY <1>1, NextIsClean
<1> QED
  BY <1>2, Invariance, PTL DEF Spec, ControllerKeepsSpec

\* An object with the finalizer leaves only as the end of a deletion, after
\* the name of its final spec was sent to Pinot.
THEOREM RemovalIsClean == Spec => CleanRemoval
<1>1. CleanStep => RemovesCleanly
  BY DEF CleanStep
<1>2. IInv /\ [Next]_vars => [RemovesCleanly]_vars
  BY <1>1, NextIsClean
<1> QED
  BY <1>2, Invariance, PTL DEF Spec, CleanRemoval

-----------------------------------------------------------------------------
(* The refinement of the finalizer's contract *)

\* GET, POST and PUT happen outside the contract.
LEMMA RequestAllowed ==
    ASSUME IInv, GetTable \/ PostTable \/ PutTable
    PROVE  Allowed
<1>1. UNCHANGED api /\ ctl.pc \in {"get", "post", "put"}
  BY DEF GetTable, PostTable, PutTable, apiVars
<1> QED
  BY <1>1, RequestEnds, CallAllowed

LEMMA NextAllowed == IInv /\ [Next]_vars => Allowed
<1> SUFFICES ASSUME IInv, [Next]_vars
             PROVE  Allowed
  OBVIOUS
<1>1. CASE Step
  BY <1>1, RequestAllowed, DeleteAllowed, CommonAllowed DEF Step, Common, DeleteTable
<1>2. CASE Environment
  BY <1>2, EnvironmentAllowed
<1>3. CASE UNCHANGED vars
  BY <1>3, StutterAllowed
<1> QED
  BY <1>1, <1>2, <1>3 DEF Next

\* The controller implements the contract of its finalizer.
THEOREM LifecycleImplemented == Spec => ImplementsLifecycle
<1>1. IInv /\ [Next]_vars => [Lifecycle!Next]_(Lifecycle!vars)
  BY NextAllowed DEF Allowed
<1> QED
  BY <1>1, InitAllowed, Invariance, PTL DEF Spec, ImplementsLifecycle, Lifecycle!Spec

-----------------------------------------------------------------------------
(* Settled resources, and what a deletion leaves *)

LEMMA DeleteCallGone ==
    ASSUME IInv, DeleteTable
    PROVE  Gone'
<1>1. RoleOf[ctl.obj.doc] \in Roles
  BY AtCall, DocumentsAssumption
  DEF DeleteTable, DeleteResource, IInv, TypeOK, Working, Objects
<1> QED
  BY <1>1, DeleteGone DEF DeleteTable

LEMMA NextGone == IInv /\ Gone /\ [Next]_vars => Gone'
<1> SUFFICES ASSUME IInv, Gone, [Next]_vars
             PROVE  Gone'
  OBVIOUS
<1>1. CASE GetTable \/ PostTable \/ PutTable
  BY <1>1, RequestEnds DEF Gone
<1> QED
  BY <1>1, DeleteCallGone, CommonGone, EnvironmentGone, StutterGone DEF Next, Step, Common

LEMMA NextLeavesNothing == IInv /\ Gone /\ [Next]_vars => [LeavesNothing]_vars
<1> SUFFICES ASSUME IInv, Gone, Next
             PROVE  LeavesNothing
  BY DEF vars
<1>1. CASE GetTable \/ PostTable \/ PutTable \/ DeleteTable
  BY <1>1, NoWriteLeavesNothing DEF GetTable, PostTable, PutTable, DeleteTable, DeleteResource, apiVars
<1> QED
  BY <1>1, CommonLeavesNothing, EnvironmentLeavesNothing DEF Next, Step, Common

\* If no request ever failed, an object with the finalizer leaves only when
\* Pinot has nothing in the place of its document, of whatever other resource.
THEOREM NothingIsLeft == Spec => RemovalLeavesNothing
<1>1. Spec => []Gone
  BY InitGone, Invariance, NextGone, PTL DEF Spec
<1> QED
  BY <1>1, Invariance, NextLeavesNothing, PTL DEF Spec, RemovalLeavesNothing, LeavesNothing

LEMMA NextCalm == IInv /\ Calm /\ [Next]_vars => Calm'
<1> SUFFICES ASSUME IInv, Calm, [Next]_vars
             PROVE  Calm'
  OBVIOUS
<1>1. CASE Step
  <2>1. disturbed \subseteq disturbed'
    BY <1>1 DEF Step, NoteCut, Note
  <2>2. CASE GetTable \/ PostTable \/ PutTable
    BY <2>1, <2>2, RequestEnds, RequestCalm
  <2>3. CASE DeleteTable
    <3>1. ctl \in Working /\ UNCHANGED apiVars
      BY <2>3, AtCall DEF DeleteTable, DeleteResource, IInv, TypeOK
    <3>2. ctl' = Idle \/ ctl' = [ctl EXCEPT !.pc = "unfin"]
      BY <2>3 DEF DeleteTable, DeleteResource
    <3>3. Continues(ctl, ctl')
      BY <3>1, <3>2 DEF Working, Continues
    <3> QED
      BY <2>1, <3>1, <3>3, RequestCalm
  <2> QED
    BY <1>1, <2>2, <2>3, CommonCalm DEF Step, Common
<1> QED
  BY <1>1, EnvironmentCalm, StutterCalm DEF Next

\* The versions of a settled resource that anyone has or will receive follow
\* from its present spec, whatever happens to other resources.
THEOREM SettledIsCalm == Spec => []Calm
BY InitCalm, Invariance, NextCalm, PTL DEF Spec

\* What the status of a settled resource records can be compared with.
THEOREM RecordParses == Spec => []RecordedParses
BY SettledIsCalm, CalmRecords, PTL

-----------------------------------------------------------------------------
(* Resources that are given no name in common *)

\* All four requests leave the API server alone.
LEMMA RequestShape ==
    ASSUME IInv, GetTable \/ PostTable \/ PutTable \/ DeleteTable
    PROVE  ctl \in Working /\ UNCHANGED apiVars /\ Continues(ctl, ctl')
<1>1. ctl \in Working
  BY AtCall DEF GetTable, PostTable, PutTable, DeleteTable, DeleteResource, IInv, TypeOK
<1>2. CASE GetTable \/ PostTable \/ PutTable
  BY <1>1, <1>2, RequestEnds
<1>3. CASE DeleteTable
  <2>1. UNCHANGED apiVars /\ (ctl' = Idle \/ ctl' = [ctl EXCEPT !.pc = "unfin"])
    BY <1>3 DEF DeleteTable, DeleteResource
  <2> QED
    BY <1>1, <2>1 DEF Working, Continues
<1> QED
  BY <1>2, <1>3

LEMMA NextOwned ==
    ASSUME NEW mine
    PROVE  IInv /\ IInv' /\ Own(mine)' /\ Owned(mine) /\ [Next]_vars => Owned(mine)'
<1> SUFFICES ASSUME IInv, IInv', Own(mine)', Owned(mine), [Next]_vars
             PROVE  Owned(mine)'
  OBVIOUS
<1>1. ASSUME NEW c \in CRs
      PROVE  Sees(c)
  <2>1. CASE GetTable \/ PostTable \/ PutTable \/ DeleteTable
    BY <2>1, RequestShape, WriteSees
  <2> QED
    BY <2>1, CommonSees, EnvironmentSees, StutterSees DEF Next, Step, Common
<1> QED
  BY <1>1, SeesOwned

\* What can be claimed of tables.
TableClaims == {"created", "updated"}

LEMMA ClaimsOfTables ==
    ASSUME NEW claim \in TableClaims
    PROVE  /\ claim \in Claims
           /\ "UpdateSuccess" \notin Fails(claim) /\ "UpdateFail" \in Fails(claim)
           /\ "CreateSuccess" \in Fails(claim) <=> claim # "created"
           /\ {"CreateSuccess", "UpdateSuccess", "UpdateFail"} \subseteq Messages \ {""}
BY DEF TableClaims, Claims, Fails, Messages

LEMMA GetAnswers ==
    ASSUME NEW claim \in TableClaims, IInv, GetTable, NoteCut,
           NEW c \in CRs, Busy(c), c \notin disturbed', Settled(c), Coherent(c)
    PROVE  TrueAnswer(c, claim)
<1>1. ctl.pc = "get" /\ ctl \in Working /\ UNCHANGED <<pinot, apiVars>>
  BY AtCall DEF GetTable, Get, IInv, TypeOK
<1> PICK answer \in Answers :
      /\ Get(ctl.path, answer)
      /\ ctl' = CASE answer = "absent" -> [ctl EXCEPT !.pc = "post"]
                  [] answer \in {"ok", "refused"} ->
                       IF ctl.obj.current = Nil
                         THEN Recording(ctl, "CreateSuccess", "compare")
                         ELSE Comparing(ctl)
                  [] answer = "error" -> Idle
  BY DEF GetTable
<1>2. CASE answer = "absent"
  <2>1. ctl' = [ctl EXCEPT !.pc = "post"] /\ ~Holds(ctl.path)
    BY <1>2 DEF Get
  <2> QED
    BY <1>1, <2>1, ClaimsOfTables, AbsentAnswer, EndingCompares DEF TrueAnswer
<1>3. CASE answer \in {"ok", "refused"} /\ ctl.obj.current = Nil
  <2>1. ctl' = Recording(ctl, "CreateSuccess", "compare")
    BY <1>3
  <2>2. Kept(c, claim) => "CreateSuccess" \in Fails(claim) \/ Good(ctl.obj.doc, claim)
    BY <1>1, <1>3, ClaimsOfTables, AdoptsGood
  <2>3. Kept(c, claim) => Answered(c, claim)
    BY <1>1, <2>1, <2>2, ClaimsOfTables, RecordedAnswer
  <2> QED
    BY <1>1, <1>3, <2>3, EndingCompares DEF TrueAnswer
<1>4. CASE ctl' \in {Idle, Comparing(ctl)}
  <2>1. ctl'.pc \in {"idle", "put", "addfin", "delete"}
    BY <1>1, <1>4, ComparingEffect, IdleWorker
  <2>2. Ending(c) => ~Busy(c)' \/ ctl'.pc = "delete"
    BY <1>1, <1>4, EndingCompares, IdleWorker DEF Busy
  <2> QED
    BY <1>1, <2>1, <2>2, ClaimsOfTables, UnrecordedAnswer DEF TrueAnswer
<1> QED
  BY <1>2, <1>3, <1>4 DEF Answers

\* What is to be created is not there, and a refusal leaves it so.
LEMMA PostRefused ==
    ASSUME NEW claim \in TableClaims, IInv, ctl.pc = "post", UNCHANGED <<apiVars, pinot>>,
           ctl' = Recording(ctl, "CreateSuccess", "finalize"),
           NEW c \in CRs, Busy(c), Coherent(c)
    PROVE  TrueAnswer(c, claim)
<1>1. ctl \in Working
  BY AtCall DEF IInv, TypeOK
<1>2. ~Ending(c)
  BY DEF Ending
<1>3. Kept(c, claim) => ServedFor(ctl.obj.doc) = Nil
  <2>1. PICK d \in Docs : d = ctl.obj.doc /\ d = api[c].doc
    BY <1>1, InHandCopy
  <2> QED
    BY <2>1, DocumentsAssumption DEF Kept, Holds, ServedFor
<1>4. Kept(c, claim) => "CreateSuccess" \in Fails(claim) \/ Good(ctl.obj.doc, claim)
  BY <1>3, ClaimsOfTables DEF Good
<1> QED
  BY <1>1, <1>2, <1>4, ClaimsOfTables, RecordedAnswer DEF TrueAnswer

LEMMA PostAnswers ==
    ASSUME NEW claim \in TableClaims, IInv, PostTable, NoteCut,
           NEW c \in CRs, Busy(c), c \notin disturbed', Settled(c), Coherent(c)
    PROVE  TrueAnswer(c, claim)
<1>1. ctl.pc = "post" /\ ctl \in Working /\ UNCHANGED apiVars
  BY AtCall DEF PostTable, IInv, TypeOK
<1> PICK answer \in Answers :
      /\ Post(ctl.obj.doc, answer)
      /\ ctl' = IF answer = "error" THEN Idle
                ELSE Recording(ctl, "CreateSuccess", "finalize")
  BY DEF PostTable, AfterPost
<1>2. ~Ending(c)
  BY <1>1 DEF Ending
<1>3. CASE answer = "ok"
  <2>1. pinot' = With(ctl.obj.doc) /\ ctl' = Recording(ctl, "CreateSuccess", "finalize")
    BY <1>3 DEF Post, Change, Refuse
  <2>2. Kept(c, claim) => ~Holds(NameOf[api[c].doc])
    BY <1>1 DEF Kept
  <2> QED
    BY <1>1, <1>2, <2>1, <2>2, ClaimsOfTables, RecordedAnswer DEF TrueAnswer
<1>4. CASE answer \notin {"ok", "error"}
  <2>1. UNCHANGED pinot /\ ctl' = Recording(ctl, "CreateSuccess", "finalize")
    BY <1>4 DEF Post, Change, Refuse, pinotVars
  <2> QED
    BY <1>1, <2>1, PostRefused
<1>5. CASE answer = "error"
  <2>1. Fault /\ ctl' = Idle
    BY <1>5 DEF Post, Change, Refuse
  <2> QED
    BY <2>1, CutDisturbs
<1> QED
  BY <1>3, <1>4, <1>5

LEMMA PutAnswers ==
    ASSUME NEW claim \in TableClaims, IInv, PutTable, NoteCut,
           NEW c \in CRs, Busy(c), c \notin disturbed', Settled(c), Coherent(c)
    PROVE  TrueAnswer(c, claim)
<1>1. ctl.pc = "put" /\ ctl \in Working /\ UNCHANGED apiVars
  BY AtCall DEF PutTable, IInv, TypeOK
<1> PICK answer \in Answers :
      /\ Put(ctl.path, ctl.obj.doc, answer)
      /\ ctl' = CASE answer = "ok" -> Recording(ctl, "UpdateSuccess", "finalize")
                  [] answer = "refused" -> Recording(ctl, "UpdateFail", "finalize")
                  [] OTHER -> Idle
  BY DEF PutTable
<1>2. ~Ending(c)
  BY <1>1 DEF Ending
<1>3. CASE answer = "ok"
  <2>1. pinot' = With(ctl.obj.doc) /\ ctl' = Recording(ctl, "UpdateSuccess", "finalize")
    BY <1>3 DEF Put, Change, Refuse
  <2> QED
    BY <1>1, <1>2, <2>1, ClaimsOfTables, RecordedAnswer DEF TrueAnswer
<1>4. CASE answer = "refused"
  <2>1. UNCHANGED pinot /\ ctl' = Recording(ctl, "UpdateFail", "finalize")
    BY <1>4 DEF Put, Change, Refuse, pinotVars
  <2> QED
    BY <1>1, <1>2, <2>1, ClaimsOfTables, RecordedAnswer DEF TrueAnswer
<1>5. CASE answer \notin {"ok", "refused"}
  <2>1. Fault /\ ctl' = Idle
    BY <1>5 DEF Put, Change, Refuse
  <2> QED
    BY <2>1, CutDisturbs
<1> QED
  BY <1>3, <1>4, <1>5

LEMMA NextAlone ==
    ASSUME NEW mine, NamesApart(mine), NEW claim \in TableClaims
    PROVE  /\ IInv /\ Calm /\ Own(mine) /\ Own(mine)' /\ Owned(mine) /\ Alone(mine, claim)
           /\ [Next]_vars
           => Alone(mine, claim)'
<1> SUFFICES ASSUME IInv, Calm, Own(mine), Own(mine)', Owned(mine), Alone(mine, claim),
                    [Next]_vars
             PROVE  Alone(mine, claim)'
  OBVIOUS
<1> claim \in Claims
  BY ClaimsOfTables
<1>1. CASE (GetTable \/ PostTable \/ PutTable) /\ NoteCut
  <2>1. ctl \in Working /\ UNCHANGED apiVars /\ Continues(ctl, ctl')
    BY <1>1, RequestShape
  <2>2. ctl.pc \in {"get", "post", "put"} /\ \E answer : Requests({}, answer)
    BY <1>1, <2>1 DEF GetTable, PostTable, PutTable, Requests
  <2>3. \A c \in CRs : Busy(c) /\ c \notin disturbed' /\ Settled(c) /\ Coherent(c) =>
                         TrueAnswer(c, claim)
    BY <1>1, GetAnswers, PostAnswers, PutAnswers
  <2> QED
    BY <1>1, <2>2, <2>3, RequestAlone
<1>2. CASE DeleteTable /\ NoteCut
  BY <1>2, DeleteAlone DEF DeleteTable
<1>3. CASE Common /\ NoteCut
  BY <1>3, CommonAlone
<1>4. CASE Environment
  BY <1>4, EnvironmentAlone
<1>5. CASE UNCHANGED vars
  BY <1>5, StutterAlone
<1> QED
  BY <1>1, <1>2, <1>3, <1>4, <1>5 DEF Next, Step, Common

\* One resource shares its names with no other: nothing is asked of its users.
LEMMA OneOwns ==
    ASSUME \A c, e \in CRs : c = e
    PROVE  LET mine == [c \in CRs |-> Docs] IN NamesApart(mine) /\ (IInv => Own(mine))
BY DEF NamesApart, Own, IInv, TypeOK, ApiTypeOK, Objects

-----------------------------------------------------------------------------
(* Beside a schema that comes and goes *)

\* The one step that the schema adds: a POST is refused, and no fault.
NoSchema ==
    /\ ctl.pc = "post"
    /\ ctl' = Recording(ctl, "CreateSuccess", "finalize")
    /\ NoteCut
    /\ UNCHANGED <<apiVars, pinotVars>>

LEMMA OrderSteps == [OrderNext]_orderVars => [Next]_vars \/ NoSchema
<1> SUFFICES ASSUME [OrderNext]_orderVars
             PROVE  Next \/ UNCHANGED vars \/ NoSchema
  OBVIOUS
<1>1. PostUnbacked => NoSchema
  BY DEF PostUnbacked, AfterPost, NoSchema
<1>2. SchemaApplied \/ SchemaDeleted \/ UNCHANGED orderVars => UNCHANGED vars
  BY DEF SchemaApplied, SchemaDeleted, orderVars
<1>3. Call \/ Environment => Next
  BY DEF Call, Next
<1> QED
  BY <1>1, <1>2, <1>3 DEF OrderNext

LEMMA NoSchemaIInv == IInv /\ NoSchema => IInv'
<1> SUFFICES ASSUME IInv, NoSchema
             PROVE  IInv'
  OBVIOUS
<1>1. ctl.pc # "idle"
  BY DEF NoSchema
<1>2. PinotTypeOK' /\ disturbed' \subseteq CRs
  BY <1>1, NoteCutType DEF NoSchema, pinotVars, IInv, TypeOK, PinotTypeOK
<1> QED
  BY <1>1, <1>2, CallKeepsIInv DEF NoSchema, Messages

LEMMA NoSchemaMoves ==
    ASSUME IInv, NoSchema
    PROVE  /\ ctl \in Working /\ ctl.pc = "post" /\ UNCHANGED apiVars
           /\ Continues(ctl, ctl') /\ ctl'.pc # "unfin"
           /\ disturbed \subseteq disturbed'
<1>1. ctl \in Working
  BY AtCall DEF NoSchema, IInv, TypeOK
<1> QED
  BY <1>1, RequestMoves DEF NoSchema, NoteCut, Note

LEMMA NoSchemaAllowed == IInv /\ NoSchema => Allowed
BY NoSchemaMoves, CallAllowed DEF apiVars

LEMMA NoSchemaLeaves == IInv /\ NoSchema => Gone' /\ [LeavesNothing]_vars
BY NoSchemaMoves, NoWriteLeavesNothing DEF Gone, apiVars

LEMMA NoSchemaCalm == IInv /\ Calm /\ NoSchema => Calm'
BY NoSchemaMoves, RequestCalm

LEMMA NoSchemaOwned ==
    ASSUME NEW mine
    PROVE  IInv /\ IInv' /\ Own(mine)' /\ Owned(mine) /\ NoSchema => Owned(mine)'
<1> SUFFICES ASSUME IInv, IInv', Own(mine)', Owned(mine), NoSchema
             PROVE  Owned(mine)'
  OBVIOUS
<1>1. \A c \in CRs : Sees(c)
  BY NoSchemaMoves, WriteSees
<1> QED
  BY <1>1, SeesOwned

LEMMA NoSchemaAlone ==
    ASSUME NEW mine, NamesApart(mine), NEW claim \in TableClaims
    PROVE  /\ IInv /\ Calm /\ Own(mine) /\ Owned(mine) /\ Alone(mine, claim) /\ NoSchema
           => Alone(mine, claim)'
<1> SUFFICES ASSUME IInv, Calm, Own(mine), Owned(mine), Alone(mine, claim), NoSchema
             PROVE  Alone(mine, claim)'
  OBVIOUS
<1> claim \in Claims
  BY ClaimsOfTables
<1>1. PICK answer : Get(ctl.path, answer)
  BY DEF NoSchema, Get, pinotVars
<1>2. Requests({}, answer)
  BY <1>1, NoSchemaMoves DEF Requests
<1>3. \A c \in CRs : Busy(c) /\ Coherent(c) => TrueAnswer(c, claim)
  BY PostRefused DEF NoSchema, pinotVars
<1> QED
  BY <1>2, <1>3, RequestAlone DEF NoSchema

\* The invariant of the table controller is kept beside a schema.
THEOREM OrderInvariance == OrderSpec => []IInv
<1>1. OrderInit => IInv
  BY InitIInv DEF OrderInit
<1>2. IInv /\ [OrderNext]_orderVars => IInv'
  BY OrderSteps, NextIInv, NoSchemaIInv
<1> QED
  BY <1>1, <1>2, PTL DEF OrderSpec

\* The variables keep their types, whether the schema is there included.
THEOREM OrderTypeCorrect == OrderSpec => []OrderTypeOK
<1>1. OrderInit => schema \in BOOLEAN
  BY DEF OrderInit
<1>2. schema \in BOOLEAN /\ [OrderNext]_orderVars => (schema \in BOOLEAN)'
  BY DEF OrderNext, Call, PostUnbacked, SchemaApplied, SchemaDeleted, orderVars
<1>3. IInv /\ schema \in BOOLEAN => OrderTypeOK
  BY DEF IInv, OrderTypeOK
<1> QED
  BY <1>1, <1>2, <1>3, OrderInvariance, PTL DEF OrderSpec

\* Whenever the schema comes and goes, the finalizer's contract is kept.
THEOREM OrderLifecycle == OrderSpec => ImplementsLifecycle
<1>1. OrderInit => Lifecycle!Init
  BY InitAllowed DEF OrderInit
<1>2. IInv /\ [OrderNext]_orderVars => [Lifecycle!Next]_(Lifecycle!vars)
  BY OrderSteps, NextAllowed, NoSchemaAllowed DEF Allowed
<1> QED
  BY <1>1, <1>2, OrderInvariance, PTL DEF OrderSpec, ImplementsLifecycle, Lifecycle!Spec

\* ... and a deletion leaves nothing in Pinot.
THEOREM OrderNothingIsLeft == OrderSpec => RemovalLeavesNothing
<1>1. OrderInit => Gone
  BY InitGone DEF OrderInit
<1>2. IInv /\ Gone /\ [OrderNext]_orderVars => Gone'
  BY OrderSteps, NextGone, NoSchemaLeaves
<1>3. IInv /\ Gone /\ [OrderNext]_orderVars => [LeavesNothing]_vars
  BY OrderSteps, NextLeavesNothing, NoSchemaLeaves
<1> QED
  BY <1>1, <1>2, <1>3, OrderInvariance, PTL
  DEF OrderSpec, RemovalLeavesNothing, LeavesNothing

\* What both claims of a table together say of it.
LEMMA ClaimsServe ==
    ASSUME NEW mine
    PROVE  Alone(mine, "created") /\ Alone(mine, "updated") => RecordedTableIsServed
<1> SUFFICES ASSUME Alone(mine, "created"), Alone(mine, "updated"), NEW c \in CRs,
                    Quiet(c), c \notin disturbed,
                    api[c] # Nil, Parses(api[c].doc), api[c].current = api[c].doc,
                    api[c].msg # "UpdateFail"
             PROVE  \/ ServedFor(api[c].doc) = api[c].doc
                    \/ ServedFor(api[c].doc) = Nil /\ api[c].msg = "CreateSuccess"
  BY DEF RecordedTableIsServed
<1>1. "created" \in Claims /\ "updated" \in Claims
  BY DEF Claims
<1>2. Good(api[c].doc, "created")
  BY <1>1, AloneServes DEF Fails
<1>3. api[c].msg # "CreateSuccess" => Good(api[c].doc, "updated")
  BY <1>1, AloneServes DEF Fails
<1> QED
  BY <1>2, <1>3 DEF Good

\* If the users of different tables never give one the name of another, a table
\* resource at rest whose status shows its spec, and no failed update, has
\* Pinot serve that spec.  The one exception is a status of CreateSuccess,
\* which a refused POST and an error taken for an existing table leave too:
\* then Pinot may have nothing in the table's place, but nothing else.
THEOREM RecordIsServed ==
    ASSUME NEW mine, NamesApart(mine)
    PROVE  OrderSpec /\ []Own(mine) => []RecordedTableIsServed
<1>1. OrderInit => Calm /\ Owned(mine) /\ Alone(mine, "created") /\ Alone(mine, "updated")
  BY InitCalm, InitOwned, InitAlone DEF OrderInit
<1>2. IInv /\ Calm /\ [OrderNext]_orderVars => Calm'
  BY OrderSteps, NextCalm, NoSchemaCalm
<1>3. IInv /\ IInv' /\ Own(mine)' /\ Owned(mine) /\ [OrderNext]_orderVars => Owned(mine)'
  BY OrderSteps, NextOwned, NoSchemaOwned
<1>4. ASSUME NEW claim \in TableClaims
      PROVE  /\ IInv /\ Calm /\ Own(mine) /\ Own(mine)' /\ Owned(mine) /\ Alone(mine, claim)
             /\ [OrderNext]_orderVars
             => Alone(mine, claim)'
  BY OrderSteps, NextAlone, NoSchemaAlone
<1>5. /\ IInv /\ Calm /\ Own(mine) /\ Own(mine)' /\ Owned(mine)
      /\ Alone(mine, "created") /\ Alone(mine, "updated")
      /\ [OrderNext]_orderVars
      => Alone(mine, "created")' /\ Alone(mine, "updated")'
  BY <1>4 DEF TableClaims
<1> QED
  BY <1>1, <1>2, <1>3, <1>5, ClaimsServe, OrderInvariance, PTL DEF OrderSpec

\* With one table resource, whatever its user does and whatever fails, it holds.
THEOREM OneRecordIsServed ==
    ASSUME \A c, e \in CRs : c = e
    PROVE  OrderSpec => []RecordedTableIsServed
<1> PICK mine : mine = [c \in CRs |-> Docs]
  OBVIOUS
<1>1. NamesApart(mine) /\ (IInv => Own(mine))
  BY OneOwns
<1> QED
  BY <1>1, OrderInvariance, RecordIsServed, PTL
=============================================================================
