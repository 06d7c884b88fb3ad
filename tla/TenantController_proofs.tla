---------------------- MODULE TenantController_proofs ----------------------
(***************************************************************************)
(* Safety of the tenant controller for any resources, documents, lag of the   *)
(* cache and number of faults.                                             *)
(***************************************************************************)
EXTENDS TenantController, Settled_proofs

\* The end of a request: the server is untouched and the reconcile goes where
\* CallKeepsIInv knows.
LEMMA GetKeepsIInv ==
    ASSUME IInv, GetTenant, NoteCut
    PROVE  IInv'
<1> USE DEF IInv, TypeOK
<1>1. ctl.pc # "idle" /\ UNCHANGED apiVars
  BY DEF GetTenant
<1>2. ctl \in Working /\ ctl.obj.doc \in Docs /\ disturbed' \subseteq CRs
  BY <1>1, AtCall, NoteCutType DEF Working, Objects
<1> PICK answer \in Answers :
      /\ Get(ctl.path, answer)
      /\ ctl' = CASE answer = "absent" -> [ctl EXCEPT !.pc = "post"]
                  [] answer = "ok" -> Comparing(ctl)
                  [] answer = "refused" -> Finalizing(ctl)
                  [] answer = "error" -> Idle
  BY DEF GetTenant
<1>3. PinotTypeOK'
  BY <1>2, RequestType
<1>4. \/ ctl' \in {Idle, Comparing(ctl), Finalizing(ctl), [ctl EXCEPT !.pc = "post"]}
  BY DEF Answers
<1> QED
  BY <1>1, <1>2, <1>3, <1>4, CallKeepsIInv DEF Messages

LEMMA PostKeepsIInv ==
    ASSUME IInv, PostTenant, NoteCut
    PROVE  IInv'
<1> USE DEF IInv, TypeOK
<1>1. ctl.pc # "idle" /\ UNCHANGED apiVars
  BY DEF PostTenant
<1>2. ctl \in Working /\ ctl.obj.doc \in Docs /\ disturbed' \subseteq CRs
  BY <1>1, AtCall, NoteCutType DEF Working, Objects
<1> PICK answer \in Answers :
      /\ Post(ctl.obj.doc, answer)
      /\ ctl' = CASE answer = "ok" -> Recording(ctl, "CreateSuccess", "finalize")
                  [] answer = "refused" -> Recording(ctl, "CreateFail", "finalize")
                  [] OTHER -> Idle
  BY DEF PostTenant
<1>3. PinotTypeOK'
  BY <1>2, RequestType
<1>4. \/ ctl' = Idle
      \/ ctl' = Recording(ctl, "CreateSuccess", "finalize")
      \/ ctl' = Recording(ctl, "CreateFail", "finalize")
  BY DEF Answers
<1> QED
  BY <1>1, <1>2, <1>3, <1>4, CallKeepsIInv DEF Messages

LEMMA PutKeepsIInv ==
    ASSUME IInv, PutTenant, NoteCut
    PROVE  IInv'
<1> USE DEF IInv, TypeOK
<1>1. ctl.pc # "idle" /\ UNCHANGED apiVars
  BY DEF PutTenant
<1>2. ctl \in Working /\ ctl.obj.doc \in Docs /\ disturbed' \subseteq CRs
  BY <1>1, AtCall, NoteCutType DEF Working, Objects
<1> PICK answer \in Answers :
      /\ Put(GetValueFromJson(ctl.obj.doc), ctl.obj.doc, answer)
      /\ ctl' = CASE answer = "ok" -> Recording(ctl, "UpdateSuccess", "finalize")
                  [] answer = "refused" -> Finalizing(ctl)
                  [] OTHER -> Idle
  BY DEF PutTenant
<1>3. PinotTypeOK'
  BY <1>2, RequestType
<1>4. \/ ctl' = Idle
      \/ ctl' = Recording(ctl, "UpdateSuccess", "finalize")
      \/ ctl' = Finalizing(ctl)
  BY DEF Answers
<1> QED
  BY <1>1, <1>2, <1>3, <1>4, CallKeepsIInv DEF Messages

LEMMA DeleteCallKeepsIInv ==
    ASSUME IInv, DeleteTenant, NoteCut
    PROVE  IInv'
<1>1. ctl.pc # "idle"
  BY DEF DeleteTenant, DeleteResource
<1> QED
  BY <1>1, NoteCutType, DeleteKeepsIInv DEF DeleteTenant

LEMMA NextIInv == IInv /\ [Next]_vars => IInv'
<1> SUFFICES ASSUME IInv, [Next]_vars
             PROVE  IInv'
  OBVIOUS
<1>1. CASE Step
  <2>1. CASE GetTenant \/ PostTenant \/ PutTenant \/ DeleteTenant
    BY <1>1, <2>1, GetKeepsIInv, PostKeepsIInv, PutKeepsIInv, DeleteCallKeepsIInv DEF Step
  <2>2. CASE Common
    BY <1>1, <2>2, CommonKeepsIInv DEF Step
  <2> QED
    BY <1>1, <2>1, <2>2 DEF Step, Common
<1>2. CASE Environment
  BY <1>2, EnvironmentKeepsIInv
<1>3. CASE UNCHANGED vars
  BY <1>3, StutterKeepsIInv
<1> QED
  BY <1>1, <1>2, <1>3 DEF Next

\* The inductive invariant holds in every reachable state.
THEOREM Invariance == Spec => []IInv
BY InitIInv, NextIInv, PTL DEF Spec

\* Every variable keeps its type.
THEOREM TypeCorrect == Spec => []TypeOK
<1>1. IInv => TypeOK
  BY DEF IInv
<1> QED
  BY <1>1, Invariance, PTL

\* The cache ends where the server is, and the copy a reconciler could write
\* back is the server's object.
THEOREM CopiesCorrect == Spec => []CopiesAreVersions
<1>1. IInv => CopiesAreVersions
  BY DEF IInv
<1> QED
  BY <1>1, Invariance, PTL

\* A request leaves the API server alone, and its reconcile goes on with what
\* it has in hand or is over.
LEMMA RequestEnds ==
    ASSUME IInv, GetTenant \/ PostTenant \/ PutTenant
    PROVE  /\ UNCHANGED apiVars
           /\ Continues(ctl, ctl')
           /\ ctl'.pc # "unfin"
<1>1. UNCHANGED apiVars /\ ctl \in Working
  BY AtCall DEF GetTenant, PostTenant, PutTenant, IInv, TypeOK
<1>2. \/ ctl' \in {Idle, Finalizing(ctl), Comparing(ctl), [ctl EXCEPT !.pc = "post"]}
      \/ \E m, t : ctl' = Recording(ctl, m, t)
  BY DEF GetTenant, PostTenant, PutTenant, Answers
<1> QED
  BY <1>1, <1>2, RequestMoves

-----------------------------------------------------------------------------
(* What the steps do to the resources in the API server *)

LEMMA NextIsClean == IInv /\ [Next]_vars => [CleanStep]_vars
<1> SUFFICES ASSUME IInv, Next
             PROVE  CleanStep
  BY DEF vars
<1>1. CASE GetTenant \/ PostTenant \/ PutTenant \/ DeleteTenant
  BY <1>1, NoWriteIsClean DEF GetTenant, PostTenant, PutTenant, DeleteTenant, DeleteResource, apiVars
<1>2. CASE Common
  BY <1>2, CommonIsClean
<1>3. CASE Environment
  BY <1>3, EnvironmentIsClean
<1> QED
  BY <1>1, <1>2, <1>3 DEF Next, Step, Common

\* No step of the reconciler undoes a user's edit, or revives an object.
THEOREM SpecIsKept == Spec => ControllerKeepsSpec
<1>1. CleanStep => KeepsSpec
  BY DEF CleanStep
<1>2. IInv /\ [Next]_vars => [KeepsSpec]_vars
  BY <1>1, NextIsClean
<1> QED
  BY <1>2, Invariance, PTL DEF Spec, ControllerKeepsSpec

\* An object with the finalizer leaves only as the end of a deletion, after
\* the name of its final spec was sent to Pinot.
THEOREM RemovalIsClean == Spec => CleanRemoval
<1>1. CleanStep => RemovesCleanly
  BY DEF CleanStep
<1>2. IInv /\ [Next]_vars => [RemovesCleanly]_vars
  BY <1>1, NextIsClean
<1> QED
  BY <1>2, Invariance, PTL DEF Spec, CleanRemoval

-----------------------------------------------------------------------------
(* The refinement of the finalizer's contract *)

\* GET, POST and PUT happen outside the contract.
LEMMA RequestAllowed ==
    ASSUME IInv, GetTenant \/ PostTenant \/ PutTenant
    PROVE  Allowed
<1>1. UNCHANGED api /\ ctl.pc \in {"get", "post", "put"}
  BY DEF GetTenant, PostTenant, PutTenant, apiVars
<1> QED
  BY <1>1, RequestEnds, CallAllowed

LEMMA NextAllowed == IInv /\ [Next]_vars => Allowed
<1> SUFFICES ASSUME IInv, [Next]_vars
             PROVE  Allowed
  OBVIOUS
<1>1. CASE Step
  BY <1>1, RequestAllowed, DeleteAllowed, CommonAllowed DEF Step, Common, DeleteTenant
<1>2. CASE Environment
  BY <1>2, EnvironmentAllowed
<1>3. CASE UNCHANGED vars
  BY <1>3, StutterAllowed
<1> QED
  BY <1>1, <1>2, <1>3 DEF Next

\* The controller implements the contract of its finalizer.
THEOREM LifecycleImplemented == Spec => ImplementsLifecycle
<1>1. IInv /\ [Next]_vars => [Lifecycle!Next]_(Lifecycle!vars)
  BY NextAllowed DEF Allowed
<1> QED
  BY <1>1, InitAllowed, Invariance, PTL DEF Spec, ImplementsLifecycle, Lifecycle!Spec

-----------------------------------------------------------------------------
(* Settled resources, and what a deletion leaves *)

LEMMA DeleteCallGone ==
    ASSUME IInv, DeleteTenant
    PROVE  Gone'
BY DeleteGone DEF DeleteTenant

LEMMA NextGone == IInv /\ Gone /\ [Next]_vars => Gone'
<1> SUFFICES ASSUME IInv, Gone, [Next]_vars
             PROVE  Gone'
  OBVIOUS
<1>1. CASE GetTenant \/ PostTenant \/ PutTenant
  BY <1>1, RequestEnds DEF Gone
<1> QED
  BY <1>1, DeleteCallGone, CommonGone, EnvironmentGone, StutterGone DEF Next, Step, Common

LEMMA NextLeavesNothing == IInv /\ Gone /\ [Next]_vars => [LeavesNothing]_vars
<1> SUFFICES ASSUME IInv, Gone, Next
             PROVE  LeavesNothing
  BY DEF vars
<1>1. CASE GetTenant \/ PostTenant \/ PutTenant \/ DeleteTenant
  BY <1>1, NoWriteLeavesNothing DEF GetTenant, PostTenant, PutTenant, DeleteTenant, DeleteResource, apiVars
<1> QED
  BY <1>1, CommonLeavesNothing, EnvironmentLeavesNothing DEF Next, Step, Common

\* If no request ever failed, an object with the finalizer leaves only when
\* Pinot has nothing in the place of its document, of whatever other resource.
THEOREM NothingIsLeft == Spec => RemovalLeavesNothing
<1>1. Spec => []Gone
  BY InitGone, Invariance, NextGone, PTL DEF Spec
<1> QED
  BY <1>1, Invariance, NextLeavesNothing, PTL DEF Spec, RemovalLeavesNothing, LeavesNothing

LEMMA NextCalm == IInv /\ Calm /\ [Next]_vars => Calm'
<1> SUFFICES ASSUME IInv, Calm, [Next]_vars
             PROVE  Calm'
  OBVIOUS
<1>1. CASE Step
  <2>1. disturbed \subseteq disturbed'
    BY <1>1 DEF Step, NoteCut, Note
  <2>2. CASE GetTenant \/ PostTenant \/ PutTenant
    BY <2>1, <2>2, RequestEnds, RequestCalm
  <2>3. CASE DeleteTenant
    <3>1. ctl \in Working /\ UNCHANGED apiVars
      BY <2>3, AtCall DEF DeleteTenant, DeleteResource, IInv, TypeOK
    <3>2. ctl' = Idle \/ ctl' = [ctl EXCEPT !.pc = "unfin"]
      BY <2>3 DEF DeleteTenant, DeleteResource
    <3>3. Continues(ctl, ctl')
      BY <3>1, <3>2 DEF Working, Continues
    <3> QED
      BY <2>1, <3>1, <3>3, RequestCalm
  <2> QED
    BY <1>1, <2>2, <2>3, CommonCalm DEF Step, Common
<1> QED
  BY <1>1, EnvironmentCalm, StutterCalm DEF Next

\* The versions of a settled resource that anyone has or will receive follow
\* from its present spec, whatever happens to other resources.
THEOREM SettledIsCalm == Spec => []Calm
BY InitCalm, Invariance, NextCalm, PTL DEF Spec

\* What the status of a settled resource records can be compared with.
THEOREM RecordParses == Spec => []RecordedParses
BY SettledIsCalm, CalmRecords, PTL

-----------------------------------------------------------------------------
(* Resources that are given no name in common *)

\* All four requests leave the API server alone.
LEMMA RequestShape ==
    ASSUME IInv, GetTenant \/ PostTenant \/ PutTenant \/ DeleteTenant
    PROVE  ctl \in Working /\ UNCHANGED apiVars /\ Continues(ctl, ctl')
<1>1. ctl \in Working
  BY AtCall DEF GetTenant, PostTenant, PutTenant, DeleteTenant, DeleteResource, IInv, TypeOK
<1>2. CASE GetTenant \/ PostTenant \/ PutTenant
  BY <1>1, <1>2, RequestEnds
<1>3. CASE DeleteTenant
  <2>1. UNCHANGED apiVars /\ (ctl' = Idle \/ ctl' = [ctl EXCEPT !.pc = "unfin"])
    BY <1>3 DEF DeleteTenant, DeleteResource
  <2> QED
    BY <1>1, <2>1 DEF Working, Continues
<1> QED
  BY <1>2, <1>3

LEMMA NextOwned ==
    ASSUME NEW mine
    PROVE  IInv /\ IInv' /\ Own(mine)' /\ Owned(mine) /\ [Next]_vars => Owned(mine)'
<1> SUFFICES ASSUME IInv, IInv', Own(mine)', Owned(mine), [Next]_vars
             PROVE  Owned(mine)'
  OBVIOUS
<1>1. ASSUME NEW c \in CRs
      PROVE  Sees(c)
  <2>1. CASE GetTenant \/ PostTenant \/ PutTenant \/ DeleteTenant
    BY <2>1, RequestShape, WriteSees
  <2> QED
    BY <2>1, CommonSees, EnvironmentSees, StutterSees DEF Next, Step, Common
<1> QED
  BY <1>1, SeesOwned

LEMMA GetAnswers ==
    ASSUME IInv, GetTenant, NoteCut,
           NEW c \in CRs, Busy(c), c \notin disturbed', Settled(c), Coherent(c)
    PROVE  TrueAnswer(c, "reported")
<1> "reported" \in Claims
  BY DEF Claims
<1>1. ctl.pc = "get" /\ ctl \in Working /\ UNCHANGED <<pinot, apiVars>>
  BY AtCall DEF GetTenant, Get, IInv, TypeOK
<1> PICK answer \in Answers :
      /\ Get(ctl.path, answer)
      /\ ctl' = CASE answer = "absent" -> [ctl EXCEPT !.pc = "post"]
                  [] answer = "ok" -> Comparing(ctl)
                  [] answer = "refused" -> Finalizing(ctl)
                  [] answer = "error" -> Idle
  BY DEF GetTenant
<1>2. CASE answer = "absent"
  <2>1. ctl' = [ctl EXCEPT !.pc = "post"] /\ ~Holds(ctl.path)
    BY <1>2 DEF Get
  <2> QED
    BY <1>1, <2>1, AbsentAnswer, EndingCompares DEF TrueAnswer
<1>3. CASE ctl' \in {Idle, Comparing(ctl), Finalizing(ctl)}
  <2>1. ctl'.pc \in {"idle", "put", "addfin", "delete"}
    BY <1>1, <1>3, ComparingEffect, FinalizingEffect, IdleWorker
  <2>2. Ending(c) => ~Busy(c)' \/ ctl'.pc = "delete"
    BY <1>1, <1>3, EndingCompares, IdleWorker DEF Busy
  <2> QED
    BY <1>1, <2>1, <2>2, UnrecordedAnswer DEF TrueAnswer
<1> QED
  BY <1>2, <1>3 DEF Answers

LEMMA PostAnswers ==
    ASSUME IInv, PostTenant, NoteCut,
           NEW c \in CRs, Busy(c), c \notin disturbed', Settled(c), Coherent(c)
    PROVE  TrueAnswer(c, "reported")
<1> "reported" \in Claims
  BY DEF Claims
<1>1. ctl.pc = "post" /\ ctl \in Working /\ UNCHANGED apiVars
  BY AtCall DEF PostTenant, IInv, TypeOK
<1> PICK answer \in Answers :
      /\ Post(ctl.obj.doc, answer)
      /\ ctl' = CASE answer = "ok" -> Recording(ctl, "CreateSuccess", "finalize")
                  [] answer = "refused" -> Recording(ctl, "CreateFail", "finalize")
                  [] OTHER -> Idle
  BY DEF PostTenant
<1>2. ~Ending(c) /\ {"CreateSuccess", "CreateFail"} \subseteq Messages \ {""}
  BY <1>1 DEF Ending, Messages
<1>3. CASE answer = "ok"
  <2>1. pinot' = With(ctl.obj.doc) /\ ctl' = Recording(ctl, "CreateSuccess", "finalize")
    BY <1>3 DEF Post, Change, Refuse
  <2> QED
    BY <1>1, <1>2, <2>1, RecordedAnswer DEF TrueAnswer, Fails
<1>4. CASE answer = "refused"
  <2>1. UNCHANGED pinot /\ ctl' = Recording(ctl, "CreateFail", "finalize")
    BY <1>4 DEF Post, Change, Refuse, pinotVars
  <2> QED
    BY <1>1, <1>2, <2>1, RecordedAnswer DEF TrueAnswer, Fails
<1>5. CASE answer \notin {"ok", "refused"}
  <2>1. Fault /\ ctl' = Idle
    BY <1>5 DEF Post, Change, Refuse
  <2> QED
    BY <2>1, CutDisturbs
<1> QED
  BY <1>3, <1>4, <1>5

LEMMA PutAnswers ==
    ASSUME IInv, PutTenant, NoteCut,
           NEW c \in CRs, Busy(c), c \notin disturbed', Settled(c), Coherent(c)
    PROVE  TrueAnswer(c, "reported")
<1> "reported" \in Claims
  BY DEF Claims
<1>1. ctl.pc = "put" /\ ctl \in Working /\ UNCHANGED apiVars
  BY AtCall DEF PutTenant, IInv, TypeOK
<1> PICK answer \in Answers :
      /\ Put(GetValueFromJson(ctl.obj.doc), ctl.obj.doc, answer)
      /\ ctl' = CASE answer = "ok" -> Recording(ctl, "UpdateSuccess", "finalize")
                  [] answer = "refused" -> Finalizing(ctl)
                  [] OTHER -> Idle
  BY DEF PutTenant
<1>2. ~Ending(c) /\ "UpdateSuccess" \in Messages \ {""}
  BY <1>1 DEF Ending, Messages
<1>3. CASE answer = "ok"
  <2>1. pinot' = With(ctl.obj.doc) /\ ctl' = Recording(ctl, "UpdateSuccess", "finalize")
    BY <1>3 DEF Put, Change, Refuse
  <2> QED
    BY <1>1, <1>2, <2>1, RecordedAnswer DEF TrueAnswer, Fails
<1>4. CASE answer = "refused"
  <2>1. UNCHANGED pinot /\ ctl' = Finalizing(ctl)
    BY <1>4 DEF Put, Change, Refuse, pinotVars
  <2>2. ctl'.pc \in {"idle", "addfin", "delete"}
    BY <1>1, <2>1, FinalizingEffect
  <2> QED
    BY <1>2, <2>1, <2>2, UnrecordedAnswer DEF TrueAnswer
<1>5. CASE answer \notin {"ok", "refused"}
  <2>1. Fault /\ ctl' = Idle
    BY <1>5 DEF Put, Change, Refuse
  <2> QED
    BY <2>1, CutDisturbs
<1> QED
  BY <1>3, <1>4, <1>5

LEMMA NextAlone ==
    ASSUME NEW mine, NamesApart(mine)
    PROVE  /\ IInv /\ Calm /\ Own(mine) /\ Own(mine)' /\ Owned(mine) /\ Alone(mine, "reported")
           /\ [Next]_vars
           => Alone(mine, "reported")'
<1> SUFFICES ASSUME IInv, Calm, Own(mine), Own(mine)', Owned(mine), Alone(mine, "reported"),
                    [Next]_vars
             PROVE  Alone(mine, "reported")'
  OBVIOUS
<1> "reported" \in Claims
  BY DEF Claims
<1>1. CASE (GetTenant \/ PostTenant \/ PutTenant) /\ NoteCut
  <2>1. ctl \in Working /\ UNCHANGED apiVars /\ Continues(ctl, ctl')
    BY <1>1, RequestShape
  <2>2. ctl.pc \in {"get", "post", "put"} /\ \E answer : Requests({}, answer)
    BY <1>1, <2>1 DEF GetTenant, PostTenant, PutTenant, Requests, GetValueFromJson
  <2>3. \A c \in CRs : Busy(c) /\ c \notin disturbed' /\ Settled(c) /\ Coherent(c) =>
                         TrueAnswer(c, "reported")
    BY <1>1, GetAnswers, PostAnswers, PutAnswers
  <2> QED
    BY <1>1, <2>2, <2>3, RequestAlone
<1>2. CASE DeleteTenant /\ NoteCut
  BY <1>2, DeleteAlone DEF DeleteTenant
<1>3. CASE Common /\ NoteCut
  BY <1>3, CommonAlone
<1>4. CASE Environment
  BY <1>4, EnvironmentAlone
<1>5. CASE UNCHANGED vars
  BY <1>5, StutterAlone
<1> QED
  BY <1>1, <1>2, <1>3, <1>4, <1>5 DEF Next, Step, Common

LEMMA AloneStays ==
    ASSUME NEW mine, NamesApart(mine)
    PROVE  Spec /\ []Own(mine) => [](Calm /\ Alone(mine, "reported"))
<1>1. Init => Owned(mine) /\ Alone(mine, "reported")
  BY InitOwned, InitAlone
<1>2. /\ IInv /\ IInv' /\ Calm /\ Own(mine) /\ Own(mine)' /\ Owned(mine) /\ Alone(mine, "reported")
      /\ [Next]_vars
      => Owned(mine)' /\ Alone(mine, "reported")'
  BY NextOwned, NextAlone
<1> QED
  BY <1>1, <1>2, Invariance, SettledIsCalm, PTL DEF Spec

\* However many resources there are, if their users never give one the name of
\* another, a settled resource whose status shows its spec and no failure has
\* that spec in Pinot.
THEOREM StatusIsTrue ==
    ASSUME NEW mine, NamesApart(mine)
    PROVE  Spec /\ []Own(mine) => []NoSilentDivergence
BY AloneStays, NoDivergence, PTL

\* One resource shares its names with no other: nothing is asked of its users.
LEMMA OneOwns ==
    ASSUME \A c, e \in CRs : c = e
    PROVE  LET mine == [c \in CRs |-> Docs] IN NamesApart(mine) /\ (IInv => Own(mine))
BY DEF NamesApart, Own, IInv, TypeOK, ApiTypeOK, Objects

\* With one resource, whatever its user does and whatever fails, it holds.
THEOREM OneStatusIsTrue ==
    ASSUME \A c, e \in CRs : c = e
    PROVE  Spec => []NoSilentDivergence
<1> PICK mine : mine = [c \in CRs |-> Docs]
  OBVIOUS
<1>1. NamesApart(mine) /\ (IInv => Own(mine))
  BY OneOwns
<1> QED
  BY <1>1, Invariance, StatusIsTrue, PTL

-----------------------------------------------------------------------------
(* Resources that may share a name, but not a name and a role *)

PlacesApart(mine) ==
    \A c, e \in CRs : c # e =>
      \A d \in mine[c], f \in mine[e] :
        Parses(d) => NameOf[d] # NameOf[f] \/ RoleOf[d] # RoleOf[f]

KeepsLive ==
    \A c \in CRs :
      /\ api[c] # Nil /\ ~api[c].deleting
      /\ c \notin disturbed
      /\ ServedFor(api[c].doc) # Nil
      => pinot'[<<NameOf[api[c].doc], RoleOf[api[c].doc]>>] # Nil

\* GET, POST and PUT leave Pinot no less than it had.
LEMMA RequestKeepsLive ==
    ASSUME IInv, GetTenant \/ PostTenant \/ PutTenant
    PROVE  KeepsLive
<1>1. ctl \in Working /\ ctl.obj.doc \in Docs
  BY AtCall DEF GetTenant, PostTenant, PutTenant, IInv, TypeOK, Working, Objects
<1>2. pinot' \in {pinot, With(ctl.obj.doc)}
  BY DEF GetTenant, PostTenant, PutTenant, Get, Post, Put, Change, Refuse, pinotVars
<1>3. \A k \in Names \X Roles : pinot[k] # Nil => pinot'[k] # Nil
  BY <1>1, <1>2, DocumentsAssumption DEF With, IInv, TypeOK, PinotTypeOK
<1> SUFFICES ASSUME NEW c \in CRs, api[c] # Nil, ServedFor(api[c].doc) # Nil
             PROVE  pinot'[<<NameOf[api[c].doc], RoleOf[api[c].doc]>>] # Nil
  BY DEF KeepsLive
<1>4. api[c].doc \in Docs
  BY DEF IInv, TypeOK, ApiTypeOK, Objects
<1>5. <<NameOf[api[c].doc], RoleOf[api[c].doc]>> \in Names \X Roles
  BY <1>4, DocumentsAssumption DEF ServedFor, Parses
<1> QED
  BY <1>3, <1>5 DEF ServedFor

\* DELETE has the name and role of the object's own document, and a live
\* settled resource has no reconcile that sends one.
LEMMA DeleteKeepsLive ==
    ASSUME NEW mine, PlacesApart(mine), IInv, Calm, Own(mine), Owned(mine), DeleteTenant
    PROVE  KeepsLive
<1> SUFFICES ASSUME NEW c \in CRs, api[c] # Nil, ~api[c].deleting, c \notin disturbed,
                    ServedFor(api[c].doc) # Nil
             PROVE  pinot'[<<NameOf[api[c].doc], RoleOf[api[c].doc]>>] # Nil
  BY DEF KeepsLive
<1> PICK d \in Docs : d = api[c].doc
  BY DEF IInv, TypeOK, ApiTypeOK, Objects
<1>1. /\ ctl.pc = "delete" /\ ctl \in Working /\ ctl.cr \in CRs
      /\ ctl.obj \in Objects /\ ctl.path = NameOf[ctl.obj.doc]
  BY AtCall DEF DeleteTenant, DeleteResource, IInv, TypeOK, DeletesOwnName, Working, GetValueFromJson
<1>2. Parses(d) /\ <<NameOf[d], RoleOf[d]>> \in Names \X Roles /\ pinot[<<NameOf[d], RoleOf[d]>>] # Nil
  BY DocumentsAssumption DEF ServedFor, Parses
<1>3. c # ctl.cr
  BY <1>1, DeletesEnding DEF Busy, Calm, Settled
<1>4. NameOf[d] # ctl.path \/ RoleOf[d] # RoleOf[ctl.obj.doc]
  <2>1. ctl.obj.doc \in mine[ctl.cr] /\ d \in mine[c]
    BY <1>1, ApiServerAssumption DEF Own, Owned, Held, Busy
  <2> QED
    BY <1>1, <1>2, <1>3, <2>1 DEF PlacesApart
<1>5. Without(ctl.path, {RoleOf[ctl.obj.doc]})[<<NameOf[d], RoleOf[d]>>] # Nil
  BY <1>2, <1>4 DEF Without
<1>6. pinot' \in {pinot, Without(ctl.path, {RoleOf[ctl.obj.doc]})}
  BY DEF DeleteTenant, DeleteResource, Delete, Change, Refuse, pinotVars
<1> QED
  BY <1>2, <1>5, <1>6

LEMMA NextKeepsLive ==
    ASSUME NEW mine, PlacesApart(mine)
    PROVE  IInv /\ Calm /\ Own(mine) /\ Owned(mine) /\ [Next]_vars => [KeepsLive]_vars
<1> SUFFICES ASSUME IInv, Calm, Own(mine), Owned(mine), Next
             PROVE  KeepsLive
  BY DEF vars
<1>1. CASE UNCHANGED pinot
  BY <1>1 DEF KeepsLive, ServedFor
<1>2. Common \/ Environment => UNCHANGED pinot
  BY DEF Common, Reread, Patch, AddFinalizer, RemoveFinalizer, Environment, Interrupt, Abandon,
         StartReconcile, Reconcile, DeliverEvent, UserCreate, UserEdit, UserDelete, pinotVars
<1> QED
  BY <1>1, <1>2, RequestKeepsLive, DeleteKeepsLive DEF Next, Step, Common

\* If no two resources are given the same name and role, no step takes from
\* Pinot what a live resource that its user let settle has been given.
THEOREM OwnIsKept ==
    ASSUME NEW mine, PlacesApart(mine)
    PROVE  Spec /\ []Own(mine) => LiveKeepsItsOwn
<1>1. Init => Owned(mine)
  BY InitOwned
<1>2. IInv /\ IInv' /\ Own(mine)' /\ Owned(mine) /\ [Next]_vars => Owned(mine)'
  BY NextOwned
<1>3. IInv /\ Calm /\ Own(mine) /\ Owned(mine) /\ [Next]_vars => [KeepsLive]_vars
  BY NextKeepsLive
<1> QED
  BY <1>1, <1>2, <1>3, Invariance, SettledIsCalm, PTL DEF Spec, LiveKeepsItsOwn, KeepsLive
=============================================================================
