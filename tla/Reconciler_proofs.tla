-------------------------- MODULE Reconciler_proofs --------------------------
(***************************************************************************)
(* What a reconciler's steps and its surroundings preserve, whichever kind *)
(* of resource it reconciles, for any resources, documents, lag of the     *)
(* cache and number of faults.  The proofs about the schema, tenant and    *)
(* table controllers add the calls that are their own.                     *)
(***************************************************************************)
EXTENDS ManagedResource, TLAPS

\* Finalizing leads a worker to a worker.
LEMMA FinalizingType ==
    ASSUME NEW k \in Working
    PROVE  Finalizing(k) \in Workers
<1> k.obj \in Objects /\ k.obj.doc \in Docs
  BY DEF Working, Objects
<1>1. CASE ~k.obj.deleting /\ ~k.obj.fin
  BY <1>1 DEF Finalizing, Working, Workers, Calls
<1>2. CASE k.obj.deleting /\ k.obj.fin /\ GetValueFromJson(k.obj.doc) # Nil
  <2>1. GetValueFromJson(k.obj.doc) \in Names
    BY <1>2, DocumentsAssumption DEF GetValueFromJson
  <2>2. Finalizing(k) = [k EXCEPT !.pc = "delete", !.path = GetValueFromJson(k.obj.doc)]
    BY <1>2 DEF Finalizing
  <2> QED
    BY <2>1, <2>2 DEF Working, Workers, Calls
<1>3. CASE /\ ~(~k.obj.deleting /\ ~k.obj.fin)
           /\ ~(k.obj.deleting /\ k.obj.fin /\ GetValueFromJson(k.obj.doc) # Nil)
  BY <1>3 DEF Finalizing, Workers
<1> QED
  BY <1>1, <1>2, <1>3

\* Comparing leads a worker to a worker.
LEMMA ComparingType ==
    ASSUME NEW k \in Working
    PROVE  Comparing(k) \in Workers
<1> DEFINE r == IsEqualJson(k.obj.current, k.obj.doc)
<1>1. r \in {"error", "equal", "different"}
  BY DEF IsEqualJson
<1>2. CASE r = "error"
  BY <1>2 DEF Comparing, Workers
<1>3. CASE r = "equal"
  BY <1>3, FinalizingType DEF Comparing
<1>4. CASE r = "different"
  BY <1>4 DEF Comparing, Working, Workers, Calls
<1> QED
  BY <1>1, <1>2, <1>3, <1>4

\* A worker that is at some call is in a reconcile.
LEMMA AtCall ==
    ASSUME ctl \in Workers, ctl.pc # "idle"
    PROVE  ctl \in Working
<1>1. Idle.pc = "idle"
  BY DEF Idle
<1> QED
  BY <1>1 DEF Workers

-----------------------------------------------------------------------------
(* The operations of the API server keep its types, and the informer behind  *)
(* a write is the informer before it with one more event to receive.         *)

\* Only the empty sequence has length 0.
LEMMA EmptyLen ==
    ASSUME NEW S, NEW s \in Seq(S)
    PROVE  s = <<>> <=> Len(s) = 0
OBVIOUS

\* Taking the first element of a sequence leaves its last one, or was it.
LEMMA LastOfTail ==
    ASSUME NEW S, NEW s \in Seq(S), s # <<>>
    PROVE  s[Len(s)] = IF Tail(s) = <<>> THEN Head(s) ELSE Tail(s)[Len(Tail(s))]
<1>1. Len(s) \in Nat /\ Len(s) > 0
  OBVIOUS
<1>2. Tail(s) \in Seq(S) /\ Len(Tail(s)) = Len(s) - 1
  BY <1>1
<1>3. CASE Len(s) = 1
  <2>1. Len(Tail(s)) = 0
    BY <1>2, <1>3
  <2>2. Tail(s) = <<>>
    BY <1>2, <2>1, EmptyLen, Zenon
  <2> QED
    BY <1>3, <2>2
<1>4. CASE Len(s) > 1
  <2>1. Len(Tail(s)) # 0
    BY <1>1, <1>2, <1>4
  <2>2. Tail(s) # <<>>
    BY <1>2, <2>1, EmptyLen, Zenon
  <2>3. Tail(s)[Len(s) - 1] = s[Len(s)]
    BY <1>1, <1>2, <1>4
  <2> QED
    BY <1>2, <2>2, <2>3
<1> QED
  BY <1>1, <1>3, <1>4

LEMMA PublishType ==
    ASSUME ApiTypeOK, NEW c \in CRs, NEW o \in Objects \cup {Nil}, Publish(c, o)
    PROVE  ApiTypeOK'
BY DEF ApiTypeOK, Publish

LEMMA PublishFollows ==
    ASSUME ApiTypeOK, CacheFollows, NEW c \in CRs, NEW o \in Objects \cup {Nil},
           Publish(c, o)
    PROVE  CacheFollows'
<1> SUFFICES ASSUME NEW e \in CRs
             PROVE  api'[e] = IF watch'[e] = <<>> THEN cache'[e]
                              ELSE watch'[e][Len(watch'[e])]
  BY DEF CacheFollows
<1>1. CASE e = c
  <2>1. api'[e] = o /\ watch'[e] = Append(watch[e], o)
    BY <1>1 DEF Publish, ApiTypeOK
  <2>2. watch[e] \in Seq(Objects \cup {Nil})
    BY DEF ApiTypeOK
  <2> QED
    BY <2>1, <2>2
<1>2. CASE e # c
  <2>1. api'[e] = api[e] /\ watch'[e] = watch[e] /\ cache'[e] = cache[e]
    BY <1>2 DEF Publish, ApiTypeOK
  <2> QED
    BY <2>1 DEF CacheFollows
<1> QED
  BY <1>1, <1>2

LEMMA DeliverType ==
    ASSUME ApiTypeOK, NEW c \in CRs, Deliver(c)
    PROVE  ApiTypeOK'
<1>1. watch[c] \in Seq(Objects \cup {Nil}) /\ watch[c] # <<>>
  BY DEF ApiTypeOK, Deliver
<1>2. Head(watch[c]) \in Objects \cup {Nil} /\ Tail(watch[c]) \in Seq(Objects \cup {Nil})
  BY <1>1
<1> QED
  BY <1>2 DEF ApiTypeOK, Deliver

LEMMA DeliverFollows ==
    ASSUME ApiTypeOK, CacheFollows, NEW c \in CRs, Deliver(c)
    PROVE  CacheFollows'
<1> SUFFICES ASSUME NEW e \in CRs
             PROVE  api'[e] = IF watch'[e] = <<>> THEN cache'[e]
                              ELSE watch'[e][Len(watch'[e])]
  BY DEF CacheFollows
<1>1. CASE e = c
  <2>1. /\ api'[e] = watch[e][Len(watch[e])]
        /\ cache'[e] = Head(watch[e])
        /\ watch'[e] = Tail(watch[e])
        /\ watch[e] # <<>>
    BY <1>1 DEF Deliver, ApiTypeOK, CacheFollows
  <2>2. watch[e] \in Seq(Objects \cup {Nil})
    BY DEF ApiTypeOK
  <2> QED
    BY <2>1, <2>2, LastOfTail
<1>2. CASE e # c
  <2>1. api'[e] = api[e] /\ watch'[e] = watch[e] /\ cache'[e] = cache[e]
    BY <1>2 DEF Deliver, ApiTypeOK
  <2> QED
    BY <2>1 DEF CacheFollows
<1> QED
  BY <1>1, <1>2

LEMMA ReadType ==
    ASSUME ApiTypeOK, NEW c \in CRs, Read(c)
    PROVE  ApiTypeOK'
BY DEF ApiTypeOK, Read

LEMMA ReadFollows ==
    ASSUME CacheFollows, NEW c \in CRs, Read(c)
    PROVE  CacheFollows'
BY DEF CacheFollows, Read

\* What a write of the reconciler does to the object c: nothing, or it
\* publishes an object with the same spec and deletion mark, or, from an
\* Update without finalizer of an object being deleted, Nil.
LEMMA UpdateEffect ==
    ASSUME ApiTypeOK, NEW c \in CRs, NEW o \in Objects, Update(c, o),
           c \in uptodate /\ api[c] # Nil => api[c].doc = o.doc
    PROVE  \/ UNCHANGED apiVars
           \/ \E new \in Objects \cup {Nil} :
                /\ Publish(c, new)
                /\ api[c] # Nil
                /\ c \in uptodate
                /\ IF new = Nil
                     THEN api[c].deleting /\ ~o.fin
                     ELSE new.doc = api[c].doc /\ new.deleting = api[c].deleting
<1>1. CASE api[c] # Nil /\ c \in uptodate
  <2> api[c] \in Objects
    BY <1>1 DEF ApiTypeOK
  <2>1. CASE api[c].deleting /\ ~o.fin
    <3>1. Publish(c, Nil)
      BY <1>1, <2>1 DEF Update, VersionMatches
    <3> QED
      BY <1>1, <2>1, <3>1
  <2>2. CASE ~(api[c].deleting /\ ~o.fin)
    <3> DEFINE new == [api[c] EXCEPT !.doc = o.doc, !.fin = o.fin]
    <3>1. Publish(c, new)
      BY <1>1, <2>2 DEF Update, VersionMatches
    <3>2. new \in Objects /\ new.doc = o.doc /\ new.deleting = api[c].deleting
      BY DEF Objects
    <3>3. new # Nil
      BY <3>2, ApiServerAssumption
    <3> QED
      BY <1>1, <3>1, <3>2, <3>3
  <2> QED
    BY <2>1, <2>2
<1>2. CASE ~(api[c] # Nil /\ c \in uptodate)
  BY <1>2 DEF Update, VersionMatches
<1> QED
  BY <1>1, <1>2

LEMMA PatchEffect ==
    ASSUME ApiTypeOK, NEW c \in CRs, api[c] # Nil, NEW base \in Objects,
           NEW msg \in Messages, PatchStatus(c, base, msg)
    PROVE  \/ UNCHANGED apiVars
           \/ \E new \in Objects :
                /\ Publish(c, new)
                /\ new.doc = api[c].doc
                /\ new.deleting = api[c].deleting
                /\ new.fin = api[c].fin
<1> DEFINE wanted == Transform(base, msg)
           new == [api[c] EXCEPT
                     !.current = IF wanted.current = base.current THEN @ ELSE wanted.current,
                     !.msg = IF wanted.msg = base.msg THEN @ ELSE wanted.msg]
<1>1. api[c] \in Objects
  BY DEF ApiTypeOK
<1>2. wanted.current \in Docs \cup {Nil} /\ wanted.msg \in Messages
  BY DEF Transform, Objects
<1>3. /\ new \in Objects
      /\ new.doc = api[c].doc /\ new.deleting = api[c].deleting /\ new.fin = api[c].fin
  BY <1>1, <1>2 DEF Objects
<1>4. Publish(c, new) \/ UNCHANGED apiVars
  BY DEF PatchStatus
<1> QED
  BY <1>3, <1>4

-----------------------------------------------------------------------------
(* The inductive invariant: types, copies, and the one fact about the        *)
(* worker's program that the removal of an object rests on.                  *)

DeletesOwnName ==
    ctl.pc \in {"delete", "unfin"} =>
      ctl.obj.deleting /\ ctl.path = GetValueFromJson(ctl.obj.doc)

IInv == TypeOK /\ CopiesAreVersions /\ DeletesOwnName

\* Where a step leaves the worker k: idle, or going on with the resource and
\* the object in hand, under their name.
Continues(k, next) ==
    \/ next = Idle
    \/ /\ next.cr = k.cr
       /\ next.obj = k.obj
       /\ next.path \in {k.path, GetValueFromJson(k.obj.doc)}

LEMMA FinalizingEffect ==
    ASSUME NEW k \in Working
    PROVE  /\ Continues(k, Finalizing(k))
           /\ Finalizing(k).pc \in {"idle", "addfin", "delete"}
           /\ Finalizing(k).pc = "delete" =>
                /\ k.obj.deleting
                /\ Finalizing(k).path = GetValueFromJson(k.obj.doc)
<1>1. CASE ~k.obj.deleting /\ ~k.obj.fin
  BY <1>1 DEF Finalizing, Working, Continues
<1>2. CASE k.obj.deleting /\ k.obj.fin /\ GetValueFromJson(k.obj.doc) # Nil
  <2>1. Finalizing(k) = [k EXCEPT !.pc = "delete", !.path = GetValueFromJson(k.obj.doc)]
    BY <1>2 DEF Finalizing
  <2> QED
    BY <1>2, <2>1 DEF Working, Continues
<1>3. CASE /\ ~(~k.obj.deleting /\ ~k.obj.fin)
           /\ ~(k.obj.deleting /\ k.obj.fin /\ GetValueFromJson(k.obj.doc) # Nil)
  BY <1>3 DEF Finalizing, Continues, Idle
<1> QED
  BY <1>1, <1>2, <1>3

LEMMA ComparingEffect ==
    ASSUME NEW k \in Working
    PROVE  /\ Continues(k, Comparing(k))
           /\ Comparing(k).pc \in {"idle", "put", "addfin", "delete"}
           /\ Comparing(k).pc = "delete" =>
                /\ k.obj.deleting
                /\ Comparing(k).path = GetValueFromJson(k.obj.doc)
<1> DEFINE r == IsEqualJson(k.obj.current, k.obj.doc)
<1>1. r \in {"error", "equal", "different"}
  BY DEF IsEqualJson
<1>2. CASE r = "error"
  BY <1>2 DEF Comparing, Continues, Idle
<1>3. CASE r = "equal"
  BY <1>3, FinalizingEffect DEF Comparing
<1>4. CASE r = "different"
  BY <1>4 DEF Comparing, Working, Continues
<1> QED
  BY <1>1, <1>2, <1>3, <1>4

\* The requests keep the type of what Pinot holds.
LEMMA RequestType ==
    ASSUME PinotTypeOK, NEW n, NEW d \in Docs, NEW roles, NEW answer,
           \/ Get(n, answer) \/ Post(d, answer) \/ Put(n, d, answer)
           \/ Delete(n, roles, answer)
    PROVE  PinotTypeOK'
<1>1. ASSUME NEW new \in [Names \X Roles -> Docs \cup {Nil}], Change(new, answer)
      PROVE  PinotTypeOK'
  BY <1>1, PinotRestAssumption DEF Change, Fault, PinotTypeOK
<1>2. ASSUME Refuse(answer)
      PROVE  PinotTypeOK'
  BY <1>2 DEF Refuse, PinotTypeOK, pinotVars
<1>3. With(d) \in [Names \X Roles -> Docs \cup {Nil}]
  BY DEF With, PinotTypeOK
<1>4. Without(n, roles) \in [Names \X Roles -> Docs \cup {Nil}]
  BY DEF Without, PinotTypeOK
<1>5. ASSUME Get(n, answer)
      PROVE  PinotTypeOK'
  BY <1>5, PinotRestAssumption DEF Get, Fault, PinotTypeOK
<1>6. ASSUME Post(d, answer)
      PROVE  PinotTypeOK'
  BY <1>1, <1>2, <1>3, <1>6 DEF Post
<1>7. ASSUME Put(n, d, answer)
      PROVE  PinotTypeOK'
  BY <1>1, <1>2, <1>3, <1>7 DEF Put
<1>8. ASSUME Delete(n, roles, answer)
      PROVE  PinotTypeOK'
  BY <1>1, <1>2, <1>4, <1>8 DEF Delete
<1> QED
  BY <1>5, <1>6, <1>7, <1>8

LEMMA InitIInv == Init => IInv
<1> SUFFICES ASSUME Init
             PROVE  IInv
  OBVIOUS
<1>1. ApiTypeOK
  BY DEF Init, ApiInit, ApiTypeOK
<1>2. PinotTypeOK
  BY PinotRestAssumption DEF Init, PinotInit, PinotTypeOK
<1>3. ctl \in Workers /\ disturbed \subseteq CRs /\ ctl = Idle
  BY DEF Init, Workers
<1>4. CopiesAreVersions
  BY DEF Init, ApiInit, CopiesAreVersions, CacheFollows
<1>5. DeletesOwnName
  BY <1>3 DEF DeletesOwnName, Idle
<1> QED
  BY <1>1, <1>2, <1>3, <1>4, <1>5 DEF IInv, TypeOK

\* An idle worker holds no resource.
LEMMA IdleWorker == Idle.cr \notin CRs /\ Idle.pc = "idle"
BY ApiServerAssumption DEF Idle

\* A step in which the worker keeps its object or gives it up, and the server
\* takes at most one write, keeps the invariant.
LEMMA KeepsIInv ==
    ASSUME IInv,
           PinotTypeOK', ctl' \in Workers, disturbed' \subseteq CRs, DeletesOwnName',
           \/ UNCHANGED apiVars
           \/ \E c \in CRs, o \in Objects \cup {Nil} : Publish(c, o),
           ctl' = Idle \/ (ctl'.cr = ctl.cr /\ ctl'.obj = ctl.obj)
    PROVE  IInv'
<1> USE DEF IInv, TypeOK
<1>1. ApiTypeOK' /\ CacheFollows'
  <2>1. CASE UNCHANGED apiVars
    BY <2>1 DEF apiVars, ApiTypeOK, CopiesAreVersions, CacheFollows
  <2>2. CASE \E c \in CRs, o \in Objects \cup {Nil} : Publish(c, o)
    BY <2>2, PublishType, PublishFollows DEF CopiesAreVersions
  <2> QED
    BY <2>1, <2>2
<1>2. ASSUME NEW e \in CRs, e \in uptodate', ctl'.cr = e
      PROVE  ctl'.obj = api'[e]
  <2>1. ctl'.cr = ctl.cr /\ ctl'.obj = ctl.obj
    BY <1>2, IdleWorker
  <2>2. e \in uptodate /\ api'[e] = api[e]
    <3>1. CASE UNCHANGED apiVars
      BY <1>2, <3>1 DEF apiVars
    <3>2. CASE \E c \in CRs, o \in Objects \cup {Nil} : Publish(c, o)
      BY <1>2, <3>2 DEF Publish, ApiTypeOK
    <3> QED
      BY <3>1, <3>2
  <2> QED
    BY <1>2, <2>1, <2>2 DEF CopiesAreVersions, Busy
<1> QED
  BY <1>1, <1>2 DEF CopiesAreVersions, Busy

\* Reading an object into the worker's hands keeps the invariant.
LEMMA ReadKeepsIInv ==
    ASSUME IInv, NEW c \in CRs, Read(c), UNCHANGED pinotVars, disturbed' \subseteq CRs,
           ctl' \in Workers, DeletesOwnName',
           ctl' = Idle \/ (ctl'.cr = c /\ ctl'.obj = cache[c])
    PROVE  IInv'
<1> USE DEF IInv, TypeOK
<1>1. ApiTypeOK' /\ CacheFollows'
  BY ReadType, ReadFollows DEF CopiesAreVersions
<1>2. PinotTypeOK'
  BY DEF PinotTypeOK, pinotVars
<1>3. ASSUME NEW e \in CRs, e \in uptodate', ctl'.cr = e
      PROVE  ctl'.obj = api'[e]
  <2>1. e = c /\ ctl'.obj = cache[c]
    BY <1>3, IdleWorker
  <2>2. watch[c] = <<>> /\ api'[c] = api[c]
    BY <1>3, <2>1 DEF Read
  <2> QED
    BY <2>1, <2>2 DEF CopiesAreVersions, CacheFollows
<1> QED
  BY <1>1, <1>2, <1>3 DEF CopiesAreVersions, Busy

LEMMA StartKeepsIInv ==
    ASSUME IInv, NEW c \in CRs, StartReconcile(c)
    PROVE  IInv'
<1> USE DEF IInv, TypeOK
<1> DEFINE name == GetValueFromJson(cache[c].doc)
<1>1. Read(c) /\ UNCHANGED pinotVars /\ cache[c] \in Objects /\ disturbed' \subseteq CRs
  BY DEF StartReconcile, Reconcile, ApiTypeOK, Note
<1>2. name \in Names
  BY <1>1, DocumentsAssumption DEF StartReconcile, Reconcile, GetValueFromJson, Objects
<1>3. ctl' = [pc |-> "get", cr |-> c, obj |-> cache[c], path |-> name, msg |-> "", then |-> ""]
  BY DEF StartReconcile, Reconcile, Idle
<1>4. ctl' \in Workers
  BY <1>1, <1>2, <1>3 DEF Workers, Working, Calls, Messages
<1>5. DeletesOwnName'
  BY <1>3 DEF DeletesOwnName
<1> QED
  BY <1>1, <1>3, <1>4, <1>5, ReadKeepsIInv

LEMMA RereadKeepsIInv ==
    ASSUME IInv, Reread, disturbed' \subseteq CRs
    PROVE  IInv'
<1> USE DEF IInv, TypeOK
<1>1. ctl \in Working /\ ctl.cr \in CRs
  BY AtCall DEF Reread, Working
<1>2. Read(ctl.cr) /\ UNCHANGED pinotVars
  BY DEF Reread
<1>3. CASE cache[ctl.cr] = Nil
  <2>1. ctl' = Idle
    BY <1>3 DEF Reread
  <2> QED
    BY <1>1, <1>2, <2>1, ReadKeepsIInv DEF Workers, DeletesOwnName, Idle
<1>4. CASE cache[ctl.cr] # Nil
  <2>1. ctl' = [ctl EXCEPT !.pc = "patch", !.obj = cache[ctl.cr]] /\ cache[ctl.cr] \in Objects
    BY <1>1, <1>4 DEF Reread, ApiTypeOK
  <2>2. ctl' \in Working /\ ctl'.pc = "patch" /\ ctl'.cr = ctl.cr /\ ctl'.obj = cache[ctl.cr]
    BY <1>1, <2>1 DEF Working, Calls
  <2> QED
    BY <1>1, <1>2, <2>2, ReadKeepsIInv DEF Workers, DeletesOwnName
<1> QED
  BY <1>3, <1>4

\* What a step leaves in ctl when it ends in a status patch.
LEMMA RecordingType ==
    ASSUME NEW k \in Working, NEW msg \in Messages, NEW then \in {"compare", "finalize"}
    PROVE  /\ Recording(k, msg, then) \in Working
           /\ Recording(k, msg, then).pc = "reread"
           /\ Recording(k, msg, then).cr = k.cr
           /\ Recording(k, msg, then).obj = k.obj
BY DEF Recording, Working, Calls

\* The outcomes of a call: the reconcile is over, it goes on at another call,
\* or it gets to the comparison or to the end of do().
LEMMA CallKeepsIInv ==
    ASSUME IInv, ctl.pc # "idle", PinotTypeOK', disturbed' \subseteq CRs,
           \/ UNCHANGED apiVars
           \/ \E c \in CRs, o \in Objects \cup {Nil} : Publish(c, o),
           \/ ctl' \in {Idle, Comparing(ctl), Finalizing(ctl), [ctl EXCEPT !.pc = "post"]}
           \/ ctl.pc = "delete" /\ ctl' = [ctl EXCEPT !.pc = "unfin"]
           \/ \E msg \in Messages, then \in {"compare", "finalize"} :
                ctl' = Recording(ctl, msg, then)
    PROVE  IInv'
<1> USE DEF IInv, TypeOK
<1>0. ctl \in Working
  BY AtCall
<1>1. CASE ctl' = Idle
  BY <1>1, KeepsIInv, IdleWorker DEF Workers, DeletesOwnName
<1>2. CASE ctl' = Comparing(ctl)
  <2>1. ctl' \in Workers
    BY <1>0, <1>2, ComparingType
  <2>2. CASE Comparing(ctl) = Idle
    BY <1>1, <1>2, <2>2
  <2>3. CASE Comparing(ctl) # Idle
    BY <1>0, <1>2, <2>1, <2>3, ComparingEffect, KeepsIInv DEF DeletesOwnName, Continues
  <2> QED
    BY <2>2, <2>3
<1>3. CASE ctl' = Finalizing(ctl)
  <2>1. ctl' \in Workers
    BY <1>0, <1>3, FinalizingType
  <2>2. CASE Finalizing(ctl) = Idle
    BY <1>1, <1>3, <2>2
  <2>3. CASE Finalizing(ctl) # Idle
    BY <1>0, <1>3, <2>1, <2>3, FinalizingEffect, KeepsIInv DEF DeletesOwnName, Continues
  <2> QED
    BY <2>2, <2>3
<1>4. CASE ctl' = [ctl EXCEPT !.pc = "post"]
  <2>1. ctl' \in Working /\ ctl'.pc = "post" /\ ctl'.cr = ctl.cr /\ ctl'.obj = ctl.obj
    BY <1>0, <1>4 DEF Working, Calls
  <2> QED
    BY <2>1, KeepsIInv DEF Workers, DeletesOwnName
<1>5. CASE ctl.pc = "delete" /\ ctl' = [ctl EXCEPT !.pc = "unfin"]
  <2>1. /\ ctl' \in Working
        /\ ctl'.cr = ctl.cr /\ ctl'.obj = ctl.obj /\ ctl'.path = ctl.path
    BY <1>0, <1>5 DEF Working, Calls
  <2>2. DeletesOwnName'
    BY <1>5, <2>1 DEF DeletesOwnName
  <2> QED
    BY <2>1, <2>2, KeepsIInv DEF Workers
<1>6. ASSUME NEW msg \in Messages, NEW then \in {"compare", "finalize"},
             ctl' = Recording(ctl, msg, then)
      PROVE  IInv'
  BY <1>0, <1>6, RecordingType, KeepsIInv DEF Workers, DeletesOwnName
<1> QED
  BY <1>1, <1>2, <1>3, <1>4, <1>5, <1>6

LEMMA DeleteKeepsIInv ==
    ASSUME IInv, NEW roles, DeleteResource(roles), disturbed' \subseteq CRs
    PROVE  IInv'
<1> USE DEF IInv, TypeOK
<1>1. ctl \in Working /\ ctl.obj.doc \in Docs
  BY AtCall DEF DeleteResource, Working, Objects
<1> PICK answer \in Answers :
      /\ Delete(ctl.path, roles, answer)
      /\ ctl' = IF answer = "error" THEN Idle ELSE [ctl EXCEPT !.pc = "unfin"]
  BY DEF DeleteResource
<1>2. PinotTypeOK'
  BY <1>1, RequestType
<1>3. ctl.pc = "delete" /\ UNCHANGED apiVars
  BY DEF DeleteResource
<1> QED
  BY <1>2, <1>3, CallKeepsIInv

LEMMA PatchKeepsIInv ==
    ASSUME IInv, Patch, disturbed' \subseteq CRs
    PROVE  IInv'
<1> USE DEF IInv, TypeOK
<1>1. /\ ctl \in Working /\ ctl.cr \in CRs /\ ctl.obj \in Objects /\ ctl.msg \in Messages
      /\ ctl.pc # "idle"
  BY AtCall DEF Patch, Working
<1>2. PinotTypeOK'
  BY DEF Patch, pinotVars, PinotTypeOK
<1>3. \/ UNCHANGED apiVars
      \/ \E c \in CRs, o \in Objects \cup {Nil} : Publish(c, o)
  BY <1>1, PatchEffect DEF Patch
<1>4. ctl' \in {Idle, Comparing(ctl), Finalizing(ctl)}
  BY DEF Patch
<1> QED
  BY <1>1, <1>2, <1>3, <1>4, CallKeepsIInv

\* The two writes of a whole object: what they can change, given that a copy
\* the server accepts is its own object.
LEMMA FinalizerWrite ==
    ASSUME IInv, NEW f \in BOOLEAN, ctl \in Working,
           Update(ctl.cr, [ctl.obj EXCEPT !.fin = f])
    PROVE  \/ UNCHANGED apiVars
           \/ \E new \in Objects \cup {Nil} :
                /\ Publish(ctl.cr, new)
                /\ api[ctl.cr] # Nil
                /\ ctl.obj = api[ctl.cr]
                /\ IF new = Nil
                     THEN api[ctl.cr].deleting /\ ~f
                     ELSE new.doc = api[ctl.cr].doc /\ new.deleting = api[ctl.cr].deleting
<1> DEFINE c == ctl.cr
           o == [ctl.obj EXCEPT !.fin = f]
<1>1. c \in CRs /\ ctl.obj \in Objects
  BY DEF Working
<1>2. o \in Objects /\ o.doc = ctl.obj.doc /\ o.fin = f
  BY <1>1 DEF Objects
<1>3. c \in uptodate => ctl.obj = api[c]
  BY <1>1 DEF IInv, CopiesAreVersions, Busy
<1>4. ApiTypeOK /\ Update(c, o)
  BY DEF IInv, TypeOK
<1> HIDE DEF o
<1>5. c \in uptodate /\ api[c] # Nil => api[c].doc = o.doc
  BY <1>2, <1>3
<1>6. \/ UNCHANGED apiVars
      \/ \E new \in Objects \cup {Nil} :
           /\ Publish(c, new)
           /\ api[c] # Nil
           /\ c \in uptodate
           /\ IF new = Nil
                THEN api[c].deleting /\ ~o.fin
                ELSE new.doc = api[c].doc /\ new.deleting = api[c].deleting
  BY <1>1, <1>2, <1>4, <1>5, UpdateEffect
<1> QED
  BY <1>2, <1>3, <1>6

LEMMA FinalizerKeepsIInv ==
    ASSUME IInv, AddFinalizer \/ RemoveFinalizer, disturbed' \subseteq CRs
    PROVE  IInv'
<1> USE DEF IInv, TypeOK
<1>1. ctl \in Working /\ ctl.cr \in CRs /\ ctl.pc # "idle"
  BY AtCall DEF AddFinalizer, RemoveFinalizer, Working
<1>2. PinotTypeOK' /\ ctl' = Idle
  BY DEF AddFinalizer, RemoveFinalizer, pinotVars, PinotTypeOK
<1>3. \/ UNCHANGED apiVars
      \/ \E c \in CRs, o \in Objects \cup {Nil} : Publish(c, o)
  BY <1>1, FinalizerWrite DEF AddFinalizer, RemoveFinalizer
<1> QED
  BY <1>1, <1>2, <1>3, CallKeepsIInv

LEMMA AbandonKeepsIInv ==
    ASSUME IInv, Abandon, disturbed' \subseteq CRs
    PROVE  IInv'
<1> USE DEF IInv, TypeOK
<1>1. PinotTypeOK'
  BY PinotRestAssumption DEF Abandon, Fault, PinotTypeOK
<1>2. ctl' = Idle /\ UNCHANGED apiVars
  BY DEF Abandon
<1> QED
  BY <1>1, <1>2, KeepsIInv, IdleWorker DEF Workers, DeletesOwnName

\* Whatever a user does is one write of an object.
LEMMA UserWrite ==
    ASSUME ApiTypeOK, NEW c \in CRs, NEW d \in Docs, Create(c, d) \/ Edit(c, d) \/ Remove(c)
    PROVE  \E o \in Objects \cup {Nil} : Publish(c, o)
<1>1. CASE Create(c, d)
  BY <1>1 DEF Create, Objects, Messages
<1>2. CASE Edit(c, d)
  BY <1>2 DEF Edit, ApiTypeOK, Objects
<1>3. CASE Remove(c)
  BY <1>3 DEF Remove, ApiTypeOK, Objects
<1> QED
  BY <1>1, <1>2, <1>3

LEMMA UserKeepsIInv ==
    ASSUME IInv, NEW c \in CRs, NEW d \in Docs,
           UserCreate(c, d) \/ UserEdit(c, d) \/ UserDelete(c)
    PROVE  IInv'
<1> USE DEF IInv, TypeOK
<1>1. \E o \in Objects \cup {Nil} : Publish(c, o)
  BY UserWrite DEF UserCreate, UserEdit, UserDelete
<1>2. UNCHANGED <<pinotVars, ctl>> /\ disturbed' \subseteq CRs
  BY DEF UserCreate, UserEdit, UserDelete, Note
<1>3. PinotTypeOK' /\ DeletesOwnName'
  BY <1>2 DEF pinotVars, PinotTypeOK, DeletesOwnName
<1> QED
  BY <1>1, <1>2, <1>3, KeepsIInv

LEMMA DeliverKeepsIInv ==
    ASSUME IInv, NEW c \in CRs, DeliverEvent(c)
    PROVE  IInv'
<1> USE DEF IInv, TypeOK
<1>1. ApiTypeOK' /\ CacheFollows'
  BY DeliverType, DeliverFollows DEF DeliverEvent, CopiesAreVersions
<1>2. UNCHANGED <<pinotVars, ctl, disturbed, api, uptodate>>
  BY DEF DeliverEvent, Deliver
<1>3. PinotTypeOK' /\ DeletesOwnName'
  BY <1>2 DEF pinotVars, PinotTypeOK, DeletesOwnName
<1> QED
  BY <1>1, <1>2, <1>3 DEF CopiesAreVersions, Busy

-----------------------------------------------------------------------------
(* The steps all controllers share, put together *)

\* NoteCut notes a resource.
LEMMA NoteCutType ==
    ASSUME IInv, ctl.pc # "idle", NoteCut
    PROVE  disturbed' \subseteq CRs
<1>1. ctl.cr \in CRs
  BY AtCall DEF IInv, TypeOK, Working
<1> QED
  BY <1>1 DEF NoteCut, Note, IInv, TypeOK

\* The calls that are not requests to Pinot.
Common == Reread \/ Patch \/ AddFinalizer \/ RemoveFinalizer

LEMMA CommonKeepsIInv ==
    ASSUME IInv, Common, NoteCut
    PROVE  IInv'
<1>1. ctl.pc # "idle"
  BY DEF Common, Reread, Patch, AddFinalizer, RemoveFinalizer
<1>2. disturbed' \subseteq CRs
  BY <1>1, NoteCutType
<1> QED
  BY <1>2, RereadKeepsIInv, PatchKeepsIInv, FinalizerKeepsIInv DEF Common

LEMMA EnvironmentKeepsIInv ==
    ASSUME IInv, Environment
    PROVE  IInv'
<1>1. CASE Interrupt
  <2>1. ctl.pc # "idle"
    BY <1>1 DEF Interrupt, Abandon, IInv, TypeOK, Workers, Working, Calls
  <2> QED
    BY <1>1, <2>1, NoteCutType, AbandonKeepsIInv DEF Interrupt
<1>2. ASSUME NEW c \in CRs, StartReconcile(c) \/ DeliverEvent(c)
      PROVE  IInv'
  BY <1>2, StartKeepsIInv, DeliverKeepsIInv
<1>3. ASSUME NEW c \in CRs, NEW d \in Docs, UserCreate(c, d) \/ UserEdit(c, d)
      PROVE  IInv'
  BY <1>3, UserKeepsIInv
<1>4. ASSUME NEW c \in CRs, UserDelete(c)
      PROVE  IInv'
  <2>1. api[c] \in Objects
    BY <1>4 DEF UserDelete, Remove, IInv, TypeOK, ApiTypeOK
  <2>2. api[c].doc \in Docs
    BY <2>1 DEF Objects
  <2> QED
    BY <1>4, <2>2, UserKeepsIInv
<1> QED
  BY <1>1, <1>2, <1>3, <1>4 DEF Environment

LEMMA StutterKeepsIInv ==
    ASSUME IInv, UNCHANGED vars
    PROVE  IInv'
BY DEF vars, IInv, TypeOK, ApiTypeOK, PinotTypeOK, CopiesAreVersions, CacheFollows,
   DeletesOwnName, Busy

-----------------------------------------------------------------------------
(* What another informer of the same server hears of a step *)

\* One version of one object, or none.
Writes ==
    \/ \E c \in CRs, o \in Objects \cup {Nil} : Publish(c, o)
    \/ UNCHANGED api /\ ~\E c \in CRs : Len(watch'[c]) > Len(watch[c])

LEMMA NoWrite ==
    ASSUME IInv, UNCHANGED <<api, watch>>
    PROVE  Writes
<1>1. \A c \in CRs : Len(watch[c]) \in Nat
  BY DEF IInv, TypeOK, ApiTypeOK
<1> QED
  BY <1>1 DEF Writes

LEMMA CommonWrites ==
    ASSUME IInv, Common
    PROVE  Writes
<1>1. CASE Reread
  BY <1>1, NoWrite DEF Reread, Read
<1>2. CASE Patch
  <2>1. ctl \in Working /\ ctl.cr \in CRs /\ ctl.obj \in Objects /\ ctl.msg \in Messages
    BY <1>2, AtCall DEF Patch, Working, IInv, TypeOK
  <2>2. UNCHANGED apiVars \/ \E o \in Objects \cup {Nil} : Publish(ctl.cr, o)
    BY <1>2, <2>1, PatchEffect DEF Patch, IInv, TypeOK
  <2> QED
    BY <2>1, <2>2, NoWrite DEF Writes, apiVars
<1>3. CASE AddFinalizer \/ RemoveFinalizer
  <2>1. ctl \in Working /\ ctl.cr \in CRs
    BY <1>3, AtCall DEF AddFinalizer, RemoveFinalizer, Working, IInv, TypeOK
  <2>2. UNCHANGED apiVars \/ \E o \in Objects \cup {Nil} : Publish(ctl.cr, o)
    BY <1>3, <2>1, FinalizerWrite DEF AddFinalizer, RemoveFinalizer
  <2> QED
    BY <2>1, <2>2, NoWrite DEF Writes, apiVars
<1> QED
  BY <1>1, <1>2, <1>3 DEF Common

LEMMA EnvironmentWrites ==
    ASSUME IInv, Environment
    PROVE  Writes
<1>1. CASE Interrupt \/ \E c \in CRs : StartReconcile(c)
  BY <1>1, NoWrite DEF Interrupt, Abandon, StartReconcile, Reconcile, Read, apiVars
<1>2. ASSUME NEW c \in CRs, DeliverEvent(c)
      PROVE  Writes
  <2>1. /\ UNCHANGED api /\ watch' = [watch EXCEPT ![c] = Tail(@)]
        /\ watch \in [CRs -> Seq(Objects \cup {Nil})] /\ watch[c] # <<>>
    BY <1>2 DEF DeliverEvent, Deliver, IInv, TypeOK, ApiTypeOK
  <2>2. Len(watch[c]) \in Nat /\ Len(Tail(watch[c])) = Len(watch[c]) - 1
    BY <2>1
  <2>3. \A e \in CRs : Len(watch[e]) \in Nat
    BY <2>1
  <2>4. ~\E e \in CRs : Len(watch'[e]) > Len(watch[e])
    BY <2>1, <2>2, <2>3
  <2> QED
    BY <2>1, <2>4 DEF Writes
<1>3. ASSUME NEW c \in CRs, NEW d \in Docs,
             UserCreate(c, d) \/ UserEdit(c, d) \/ UserDelete(c)
      PROVE  Writes
  BY <1>3, UserWrite DEF UserCreate, UserEdit, UserDelete, Writes, IInv, TypeOK
<1>4. Docs # {} \/ ~\E c \in CRs : UserDelete(c)
  BY DEF UserDelete, Remove, IInv, TypeOK, ApiTypeOK, Objects
<1> QED
  BY <1>1, <1>2, <1>3, <1>4 DEF Environment

-----------------------------------------------------------------------------
(* What the reconciler's writes leave alone *)

\* A write of c changes no other object.
LEMMA PublishOthers ==
    ASSUME ApiTypeOK, NEW c \in CRs, NEW o, Publish(c, o)
    PROVE  api'[c] = o /\ \A e \in CRs \ {c} : api'[e] = api[e]
BY DEF ApiTypeOK, Publish

LEMMA PatchKeepsSpec ==
    ASSUME IInv, Patch
    PROVE  /\ \A c \in CRs : api[c] = Nil <=> api'[c] = Nil
           /\ KeepsSpec
<1> USE DEF IInv, TypeOK
<1>1. /\ ctl \in Working /\ ctl.cr \in CRs /\ ctl.obj \in Objects /\ ctl.msg \in Messages
  BY AtCall DEF Patch, Working
<1>2. CASE UNCHANGED apiVars
  BY <1>2 DEF apiVars, KeepsSpec
<1>3. CASE api[ctl.cr] # Nil /\ PatchStatus(ctl.cr, ctl.obj, ctl.msg) /\ ~UNCHANGED apiVars
  <2>1. PICK new \in Objects :
          /\ Publish(ctl.cr, new)
          /\ new.doc = api[ctl.cr].doc /\ new.deleting = api[ctl.cr].deleting
    BY <1>1, <1>3, PatchEffect
  <2>2. new # Nil
    BY ApiServerAssumption
  <2> QED
    BY <1>1, <1>3, <2>1, <2>2, PublishOthers DEF KeepsSpec
<1> QED
  BY <1>2, <1>3 DEF Patch

LEMMA FinalizerKeepsSpec ==
    ASSUME IInv, AddFinalizer \/ RemoveFinalizer
    PROVE  /\ KeepsSpec
           /\ \A c \in CRs : api[c] # Nil /\ api'[c] = Nil =>
                /\ RemoveFinalizer /\ Busy(c)
                /\ api[c].deleting /\ ctl.obj = api[c]
<1> USE DEF IInv, TypeOK
<1>1. ctl \in Working /\ ctl.cr \in CRs
  BY AtCall DEF AddFinalizer, RemoveFinalizer, Working
<1>2. CASE UNCHANGED apiVars
  BY <1>2 DEF apiVars, KeepsSpec
<1>3. ASSUME NEW f \in BOOLEAN, ~f => RemoveFinalizer, ~UNCHANGED apiVars,
             Update(ctl.cr, [ctl.obj EXCEPT !.fin = f])
      PROVE  /\ KeepsSpec
             /\ \A c \in CRs : api[c] # Nil /\ api'[c] = Nil =>
                  /\ RemoveFinalizer /\ Busy(c)
                  /\ api[c].deleting /\ ctl.obj = api[c]
  <2>1. PICK new \in Objects \cup {Nil} :
          /\ Publish(ctl.cr, new)
          /\ api[ctl.cr] # Nil
          /\ ctl.obj = api[ctl.cr]
          /\ IF new = Nil
               THEN api[ctl.cr].deleting /\ ~f
               ELSE new.doc = api[ctl.cr].doc /\ new.deleting = api[ctl.cr].deleting
    BY <1>1, <1>3, FinalizerWrite
  <2>2. api'[ctl.cr] = new /\ \A e \in CRs \ {ctl.cr} : api'[e] = api[e]
    BY <1>1, <2>1, PublishOthers
  <2>3. KeepsSpec
    BY <1>1, <2>1, <2>2 DEF KeepsSpec
  <2>4. ASSUME NEW c \in CRs, api[c] # Nil, api'[c] = Nil
        PROVE  /\ RemoveFinalizer /\ Busy(c)
               /\ api[c].deleting /\ ctl.obj = api[c]
    <3>1. c = ctl.cr
      BY <2>2, <2>4
    <3> QED
      BY <1>3, <2>1, <2>2, <2>4, <3>1 DEF Busy
  <2> QED
    BY <2>3, <2>4
<1>4. CASE AddFinalizer
  BY <1>2, <1>3, <1>4 DEF AddFinalizer
<1>5. CASE RemoveFinalizer
  BY <1>2, <1>3, <1>5 DEF RemoveFinalizer
<1> QED
  BY <1>4, <1>5

-----------------------------------------------------------------------------
(* How an object with the finalizer leaves *)

LEMMA UserKeepsManaged ==
    ASSUME IInv, NEW c \in CRs, NEW d \in Docs,
           UserCreate(c, d) \/ UserEdit(c, d) \/ UserDelete(c)
    PROVE  \A e \in CRs : api[e] # Nil /\ api[e].fin => api'[e] # Nil
<1> USE DEF IInv, TypeOK
<1> SUFFICES ASSUME NEW e \in CRs, api[e] # Nil, api'[e] = Nil, api[e].fin
             PROVE  FALSE
  OBVIOUS
<1>1. PICK o : Publish(c, o)
  BY UserWrite DEF UserCreate, UserEdit, UserDelete
<1>2. e = c /\ api[c] \in Objects
  BY <1>1, PublishOthers DEF ApiTypeOK
<1>3. CASE UserCreate(c, d)
  BY <1>2, <1>3 DEF UserCreate, Create
<1>4. CASE UserEdit(c, d)
  <2> DEFINE new == [api[c] EXCEPT !.doc = d]
  <2>1. new \in Objects /\ Publish(c, new)
    BY <1>2, <1>4 DEF UserEdit, Edit, Objects
  <2> QED
    BY <1>2, <2>1, PublishOthers, ApiServerAssumption
<1>5. CASE UserDelete(c)
  <2> DEFINE new == [api[c] EXCEPT !.deleting = TRUE]
  <2>1. new \in Objects /\ Publish(c, new)
    BY <1>2, <1>5 DEF UserDelete, Remove, Objects
  <2> QED
    BY <1>2, <2>1, PublishOthers, ApiServerAssumption
<1> QED
  BY <1>3, <1>4, <1>5

\* A step of the two action properties at once.
CleanStep == KeepsSpec /\ RemovesCleanly

\* A step that does not touch the API server is clean.
LEMMA NoWriteIsClean ==
    ASSUME UNCHANGED api
    PROVE  CleanStep
BY DEF CleanStep, KeepsSpec, RemovesCleanly

LEMMA CommonIsClean ==
    ASSUME IInv, Common
    PROVE  CleanStep
<1>1. CASE Reread
  BY <1>1, NoWriteIsClean DEF Reread, Read
<1>2. CASE Patch
  BY <1>2, PatchKeepsSpec DEF CleanStep, RemovesCleanly
<1>3. CASE AddFinalizer \/ RemoveFinalizer
  BY <1>3, FinalizerKeepsSpec
  DEF CleanStep, RemovesCleanly, RemoveFinalizer, IInv, DeletesOwnName
<1> QED
  BY <1>1, <1>2, <1>3 DEF Common

\* Nothing around the reconciler takes away an object with the finalizer.
LEMMA EnvironmentKeepsManaged ==
    ASSUME IInv, Environment
    PROVE  \A e \in CRs : api[e] # Nil /\ api[e].fin => api'[e] # Nil
<1>1. CASE Interrupt \/ \E c \in CRs : StartReconcile(c) \/ DeliverEvent(c)
  BY <1>1
  DEF Interrupt, Abandon, StartReconcile, Reconcile, Read, DeliverEvent, Deliver, apiVars
<1>2. ASSUME NEW c \in CRs, UserDelete(c)
      PROVE  \A e \in CRs : api[e] # Nil /\ api[e].fin => api'[e] # Nil
  <2>1. api[c] \in Objects
    BY <1>2 DEF UserDelete, Remove, IInv, TypeOK, ApiTypeOK
  <2>2. api[c].doc \in Docs
    BY <2>1 DEF Objects
  <2> QED
    BY <1>2, <2>2, UserKeepsManaged
<1> QED
  BY <1>1, <1>2, UserKeepsManaged DEF Environment

LEMMA EnvironmentIsClean ==
    ASSUME IInv, Environment
    PROVE  CleanStep
<1>1. ctl' # ctl => UNCHANGED api
  BY DEF Environment, Interrupt, Abandon, StartReconcile, Reconcile, Read, DeliverEvent,
         UserCreate, UserEdit, UserDelete, apiVars
<1>2. KeepsSpec
  BY <1>1 DEF KeepsSpec
<1> QED
  BY <1>2, EnvironmentKeepsManaged DEF CleanStep, RemovesCleanly

-----------------------------------------------------------------------------
(***************************************************************************)
(* The refinement: the steps that the three controllers share implement    *)
(* the finalizer's contract, ResourceLifecycle, under the mapping of       *)
(* ManagedResource.  The controllers add their requests, none of which the *)
(* contract sees but DELETE.                                               *)
(***************************************************************************)

\* A step of the contract, or one it does not see.
Allowed == [Lifecycle!Next]_(Lifecycle!vars)

\* What the contract sees of a resource.
View(c) == <<PhaseOf(c), NameNow(c), SentNow(c)>>

LEMMA InitAllowed == Init => Lifecycle!Init
<1> SUFFICES ASSUME Init
             PROVE  Lifecycle!Init
  OBVIOUS
<1>1. ASSUME NEW c \in CRs
      PROVE  PhaseOf(c) = "absent" /\ NameNow(c) = Nil /\ SentNow(c) = {}
  BY DEF Init, ApiInit, Idle, PhaseOf, NameNow, SentNow
<1> QED
  BY <1>1 DEF Lifecycle!Init

\* A step that changes no resource's view.
LEMMA UnseenAllowed ==
    ASSUME \A c \in CRs : /\ PhaseOf(c)' = PhaseOf(c)
                          /\ NameNow(c)' = NameNow(c)
                          /\ SentNow(c)' = SentNow(c)
    PROVE  Allowed
BY DEF Allowed, Lifecycle!vars

\* The functions of the mapping after a step that changes the view of c only.
LEMMA OneView ==
    ASSUME NEW c \in CRs,
           \A e \in CRs \ {c} : /\ PhaseOf(e)' = PhaseOf(e)
                                /\ NameNow(e)' = NameNow(e)
                                /\ SentNow(e)' = SentNow(e)
    PROVE  /\ [e \in CRs |-> PhaseOf(e)]' = [[e \in CRs |-> PhaseOf(e)] EXCEPT ![c] = PhaseOf(c)']
           /\ [e \in CRs |-> NameNow(e)]' = [[e \in CRs |-> NameNow(e)] EXCEPT ![c] = NameNow(c)']
           /\ [e \in CRs |-> SentNow(e)]' = [[e \in CRs |-> SentNow(e)] EXCEPT ![c] = SentNow(c)']
OBVIOUS

-----------------------------------------------------------------------------
(* The user *)

LEMMA UserAllowed ==
    ASSUME IInv, NEW c \in CRs, NEW d \in Docs,
           UserCreate(c, d) \/ UserEdit(c, d) \/ UserDelete(c)
    PROVE  Allowed
<1> USE DEF IInv, TypeOK
<1> DEFINE phase == [e \in CRs |-> PhaseOf(e)]
           name == [e \in CRs |-> NameNow(e)]
           sent == [e \in CRs |-> SentNow(e)]
<1>1. PICK o \in Objects \cup {Nil} : Publish(c, o)
  BY UserWrite DEF UserCreate, UserEdit, UserDelete
<1>2. ctl' = ctl
  BY DEF UserCreate, UserEdit, UserDelete
<1>3. api'[c] = o /\ \A e \in CRs \ {c} : api'[e] = api[e]
  BY <1>1, PublishOthers
<1>4. \A e \in CRs : SentNow(e)' = SentNow(e)
  BY <1>2 DEF SentNow, Busy
<1>5. \A e \in CRs \ {c} : PhaseOf(e)' = PhaseOf(e) /\ NameNow(e)' = NameNow(e)
  BY <1>3 DEF PhaseOf, NameNow, GetValueFromJson
<1>6. /\ phase' = [phase EXCEPT ![c] = PhaseOf(c)']
      /\ name' = [name EXCEPT ![c] = NameNow(c)']
      /\ sent' = sent
  BY <1>4, <1>5
<1>7. NameOf[d] \in Names \cup {Nil}
  BY DocumentsAssumption
<1>8. Nil \notin Objects
  BY ApiServerAssumption
<1>9. CASE UserCreate(c, d)
  <2> DEFINE new == [doc |-> d, current |-> Nil, msg |-> "", fin |-> FALSE, deleting |-> FALSE]
  <2>1. api[c] = Nil /\ Publish(c, new)
    BY <1>9 DEF UserCreate, Create
  <2>2. new \in Objects
    BY DEF Objects, Messages
  <2>3. api'[c] = new
    BY <2>1, PublishOthers
  <2>4. new.doc = d /\ new.fin = FALSE /\ new.deleting = FALSE /\ new # Nil
    BY <1>8, <2>2
  <2> HIDE DEF new
  <2>5. PhaseOf(c) = "absent" /\ PhaseOf(c)' = "new" /\ NameNow(c)' = NameOf[d]
    BY <2>1, <2>3, <2>4 DEF PhaseOf, NameNow, GetValueFromJson
  <2>6. Lifecycle!Create(c, NameOf[d])
    BY <1>6, <2>5 DEF Lifecycle!Create, Lifecycle!MoveTo
  <2> QED
    BY <1>7, <2>6 DEF Allowed, Lifecycle!Next
<1>10. CASE UserEdit(c, d)
  <2> DEFINE new == [api[c] EXCEPT !.doc = d]
  <2>1. api[c] # Nil /\ api[c] \in Objects /\ Publish(c, new)
    BY <1>10 DEF UserEdit, Edit, ApiTypeOK
  <2>2. /\ api'[c] = new /\ new # Nil
        /\ new.doc = d /\ new.deleting = api[c].deleting /\ new.fin = api[c].fin
    BY <1>8, <2>1, PublishOthers DEF Objects
  <2>3. PhaseOf(c) # "absent" /\ PhaseOf(c)' = PhaseOf(c) /\ NameNow(c)' = NameOf[d]
    BY <2>1, <2>2 DEF PhaseOf, NameNow, GetValueFromJson
  <2>4. Lifecycle!Rename(c, NameOf[d])
    BY <1>6, <2>3 DEF Lifecycle!Rename
  <2> QED
    BY <1>7, <2>4 DEF Allowed, Lifecycle!Next
<1>11. CASE UserDelete(c)
  <2>1. api[c] # Nil /\ api[c] \in Objects /\ ~api[c].deleting
    BY <1>11 DEF UserDelete, Remove, ApiTypeOK
  <2>2. CASE api[c].fin
    <3> DEFINE new == [api[c] EXCEPT !.deleting = TRUE]
    <3>1. Publish(c, new)
      BY <1>11, <2>2 DEF UserDelete, Remove
    <3>2. /\ api'[c] = new /\ new # Nil
          /\ new.doc = api[c].doc /\ new.deleting
      BY <1>8, <2>1, <3>1, PublishOthers DEF Objects
    <3>3. PhaseOf(c) = "managed" /\ PhaseOf(c)' = "ending" /\ NameNow(c)' = NameNow(c)
      BY <2>1, <2>2, <3>2 DEF PhaseOf, NameNow, GetValueFromJson
    <3>4. Lifecycle!End(c)
      BY <1>6, <3>3 DEF Lifecycle!End, Lifecycle!MoveTo
    <3> QED
      BY <3>4 DEF Allowed, Lifecycle!Next
  <2>3. CASE ~api[c].fin
    <3>1. api'[c] = Nil
      BY <1>11, <2>3, PublishOthers DEF UserDelete, Remove
    <3>2. PhaseOf(c) = "new" /\ PhaseOf(c)' = "absent" /\ NameNow(c)' = Nil
      BY <2>1, <2>3, <3>1 DEF PhaseOf, NameNow
    <3>3. Lifecycle!Discard(c)
      BY <1>6, <3>2 DEF Lifecycle!Discard, Lifecycle!MoveTo
    <3> QED
      BY <3>3 DEF Allowed, Lifecycle!Next
  <2> QED
    BY <2>2, <2>3
<1> QED
  BY <1>9, <1>10, <1>11

-----------------------------------------------------------------------------
(* The reconciler *)

\* Before and after every call but DELETE and the two writes of the finalizer.
LEMMA CallAllowed ==
    ASSUME UNCHANGED api, ctl.pc # "unfin", ctl'.pc # "unfin"
    PROVE  Allowed
<1>1. \A c \in CRs : /\ PhaseOf(c)' = PhaseOf(c)
                     /\ NameNow(c)' = NameNow(c)
                     /\ SentNow(c)' = SentNow(c)
  BY DEF PhaseOf, NameNow, SentNow, GetValueFromJson
<1> QED
  BY <1>1, UnseenAllowed

\* Where a request other than DELETE leaves the worker.
LEMMA RequestMoves ==
    ASSUME ctl \in Working,
           \/ ctl' \in {Idle, Finalizing(ctl), Comparing(ctl), [ctl EXCEPT !.pc = "post"]}
           \/ \E m, t : ctl' = Recording(ctl, m, t)
    PROVE  Continues(ctl, ctl') /\ ctl'.pc # "unfin"
<1>1. CASE ctl' \in {Idle, Finalizing(ctl), Comparing(ctl)}
  BY <1>1, FinalizingEffect, ComparingEffect, IdleWorker DEF Continues
<1>2. CASE ctl' = [ctl EXCEPT !.pc = "post"] \/ \E m, t : ctl' = Recording(ctl, m, t)
  BY <1>2 DEF Recording, Working, Continues
<1> QED
  BY <1>1, <1>2

\* An answer to DELETE, of whatever status, is the contract's SendDelete.
LEMMA DeleteAllowed ==
    ASSUME IInv, NEW roles, DeleteResource(roles)
    PROVE  Allowed
<1> DEFINE phase == [e \in CRs |-> PhaseOf(e)]
           name == [e \in CRs |-> NameNow(e)]
           sent == [e \in CRs |-> SentNow(e)]
<1>1. /\ ctl.pc = "delete" /\ UNCHANGED api
      /\ ctl' \in {Idle, [ctl EXCEPT !.pc = "unfin"]}
  BY DEF DeleteResource, apiVars
<1>2. ctl \in Working /\ ctl.cr \in CRs /\ ctl.path \in Names
  BY <1>1, AtCall DEF IInv, TypeOK, Working
<1>3. CASE ctl' = Idle
  BY <1>1, <1>3, CallAllowed, IdleWorker
<1>4. CASE ctl' = [ctl EXCEPT !.pc = "unfin"]
  <2>1. ctl'.pc = "unfin" /\ ctl'.cr = ctl.cr /\ ctl'.path = ctl.path
    BY <1>2, <1>4 DEF Working
  <2> PICK c \in CRs, n \in Names : c = ctl.cr /\ n = ctl.path
    BY <1>2
  <2>2. /\ SentNow(c) = {} /\ SentNow(c)' = {n}
        /\ \A e \in CRs \ {c} : SentNow(e)' = SentNow(e)
    BY <1>1, <2>1 DEF SentNow, Busy
  <2>3. \A e \in CRs : PhaseOf(e)' = PhaseOf(e) /\ NameNow(e)' = NameNow(e)
    BY <1>1 DEF PhaseOf, NameNow, GetValueFromJson
  <2>4. phase' = phase /\ name' = name
    BY <2>3
  <2>5. sent' = [sent EXCEPT ![c] = sent[c] \cup {n}]
    BY <2>2
  <2>6. Lifecycle!SendDelete(c, n)
    BY <2>4, <2>5 DEF Lifecycle!SendDelete
  <2> QED
    BY <2>6 DEF Allowed, Lifecycle!Next
<1> QED
  BY <1>1, <1>3, <1>4

\* The reconcile ends, whatever had been sent.
LEMMA AbandonAllowed ==
    ASSUME IInv, Abandon
    PROVE  Allowed
<1> DEFINE phase == [e \in CRs |-> PhaseOf(e)]
           name == [e \in CRs |-> NameNow(e)]
           sent == [e \in CRs |-> SentNow(e)]
<1>1. UNCHANGED api /\ ctl' = Idle /\ ctl # Idle
  BY DEF Abandon, apiVars
<1>2. ctl.cr \in CRs
  BY <1>1 DEF IInv, TypeOK, Workers, Working
<1> PICK c \in CRs : c = ctl.cr
  BY <1>2
<1>3. SentNow(c)' = {} /\ \A e \in CRs \ {c} : SentNow(e)' = SentNow(e)
  BY <1>1, IdleWorker DEF SentNow, Busy
<1>4. \A e \in CRs : PhaseOf(e)' = PhaseOf(e) /\ NameNow(e)' = NameNow(e)
  BY <1>1 DEF PhaseOf, NameNow, GetValueFromJson
<1>5. phase' = phase /\ name' = name
  BY <1>4
<1>6. sent' = [sent EXCEPT ![c] = {}]
  BY <1>3
<1>7. Lifecycle!GiveUp(c)
  BY <1>5, <1>6 DEF Lifecycle!GiveUp, Lifecycle!Forget
<1> QED
  BY <1>7 DEF Allowed, Lifecycle!Next

\* The finalizer is set on the object that was read, or not at all.
LEMMA AddFinalizerAllowed ==
    ASSUME IInv, AddFinalizer
    PROVE  Allowed
<1> USE DEF IInv, TypeOK
<1> DEFINE phase == [e \in CRs |-> PhaseOf(e)]
           name == [e \in CRs |-> NameNow(e)]
           sent == [e \in CRs |-> SentNow(e)]
<1>1. /\ ctl.pc = "addfin" /\ ctl' = Idle
      /\ Update(ctl.cr, [ctl.obj EXCEPT !.fin = TRUE])
  BY DEF AddFinalizer
<1>2. ctl \in Working /\ ctl.cr \in CRs /\ ctl.obj \in Objects
  BY <1>1, AtCall DEF Working
<1> PICK c \in CRs : c = ctl.cr
  BY <1>2
<1>3. \A e \in CRs : SentNow(e) = {} /\ SentNow(e)' = {}
  BY <1>1, IdleWorker DEF SentNow, Busy
<1>4. CASE UNCHANGED apiVars
  BY <1>1, <1>4, CallAllowed, IdleWorker DEF apiVars
<1>5. CASE api[c] # Nil /\ c \in uptodate
  <2> DEFINE o == [ctl.obj EXCEPT !.fin = TRUE]
             new == [api[c] EXCEPT !.doc = o.doc, !.fin = o.fin]
  <2>1. ctl.obj = api[c]
    BY <1>5 DEF CopiesAreVersions, Busy
  <2>2. o.fin = TRUE /\ o.doc = api[c].doc
    BY <1>2, <2>1 DEF Objects
  <2>3. Publish(c, new)
    BY <1>1, <1>5, <2>2 DEF Update, VersionMatches
  <2>4. /\ new \in Objects /\ new.doc = api[c].doc
        /\ new.deleting = api[c].deleting /\ new.fin = TRUE
    BY <1>2, <2>1, <2>2 DEF Objects
  <2>5. new # Nil
    BY <2>4, ApiServerAssumption
  <2> HIDE DEF new
  <2>6. api'[c] = new /\ \A e \in CRs \ {c} : api'[e] = api[e]
    BY <2>3, PublishOthers
  <2>7. \A e \in CRs : NameNow(e)' = NameNow(e)
    BY <1>5, <2>4, <2>5, <2>6 DEF NameNow, GetValueFromJson
  <2>8. \A e \in CRs \ {c} : PhaseOf(e)' = PhaseOf(e)
    BY <2>6 DEF PhaseOf
  <2>9. name' = name /\ sent' = sent
    BY <1>3, <2>7
  <2>10. CASE PhaseOf(c) = "new"
    <3>1. PhaseOf(c)' = "managed"
      BY <1>5, <2>4, <2>5, <2>6, <2>10 DEF PhaseOf
    <3>2. phase' = [phase EXCEPT ![c] = "managed"]
      BY <2>8, <3>1
    <3>3. Lifecycle!Manage(c)
      BY <2>9, <2>10, <3>2 DEF Lifecycle!Manage, Lifecycle!MoveTo
    <3> QED
      BY <3>3 DEF Allowed, Lifecycle!Next
  <2>11. CASE PhaseOf(c) # "new"
    <3>1. PhaseOf(c)' = PhaseOf(c)
      BY <1>5, <2>4, <2>5, <2>6, <2>11 DEF PhaseOf
    <3> QED
      BY <1>3, <2>7, <2>8, <3>1, UnseenAllowed
  <2> QED
    BY <2>10, <2>11
<1> QED
  BY <1>1, <1>4, <1>5 DEF Update, VersionMatches

\* The finalizer goes from the object that was read, which is being deleted
\* and whose name was sent, or the write is refused.
LEMMA RemoveFinalizerAllowed ==
    ASSUME IInv, RemoveFinalizer
    PROVE  Allowed
<1> USE DEF IInv, TypeOK
<1> DEFINE phase == [e \in CRs |-> PhaseOf(e)]
           name == [e \in CRs |-> NameNow(e)]
           sent == [e \in CRs |-> SentNow(e)]
<1>1. /\ ctl.pc = "unfin" /\ ctl' = Idle
      /\ Update(ctl.cr, [ctl.obj EXCEPT !.fin = FALSE])
  BY DEF RemoveFinalizer
<1>2. ctl \in Working /\ ctl.cr \in CRs /\ ctl.obj \in Objects
  BY <1>1, AtCall DEF Working
<1> PICK c \in CRs : c = ctl.cr
  BY <1>2
<1>3. /\ SentNow(c) = {ctl.path} /\ SentNow(c)' = {}
      /\ \A e \in CRs \ {c} : SentNow(e)' = SentNow(e)
  BY <1>1, IdleWorker DEF SentNow, Busy
<1>4. sent' = [sent EXCEPT ![c] = {}]
  BY <1>3
<1>5. CASE UNCHANGED apiVars
  <2>1. \A e \in CRs : PhaseOf(e)' = PhaseOf(e) /\ NameNow(e)' = NameNow(e)
    BY <1>5 DEF apiVars, PhaseOf, NameNow, GetValueFromJson
  <2>2. phase' = phase /\ name' = name
    BY <2>1
  <2>3. Lifecycle!GiveUp(c)
    BY <1>4, <2>2 DEF Lifecycle!GiveUp, Lifecycle!Forget
  <2> QED
    BY <2>3 DEF Allowed, Lifecycle!Next
<1>6. CASE api[c] # Nil /\ c \in uptodate
  <2>1. ctl.obj = api[c] /\ api[c] \in Objects
    BY <1>2, <1>6 DEF CopiesAreVersions, Busy
  <2>2. api[c].deleting /\ ctl.path = GetValueFromJson(api[c].doc)
    BY <1>1, <2>1 DEF DeletesOwnName
  <2>3. ~[ctl.obj EXCEPT !.fin = FALSE].fin
    BY <1>2 DEF Objects
  <2>4. Publish(c, Nil)
    BY <1>1, <1>6, <2>2, <2>3 DEF Update, VersionMatches
  <2>5. api'[c] = Nil /\ \A e \in CRs \ {c} : api'[e] = api[e]
    BY <2>4, PublishOthers
  <2>6. /\ PhaseOf(c) = "ending" /\ PhaseOf(c)' = "absent"
        /\ NameNow(c) = ctl.path /\ NameNow(c)' = Nil
    BY <1>6, <2>2, <2>5 DEF PhaseOf, NameNow
  <2>7. \A e \in CRs \ {c} : PhaseOf(e)' = PhaseOf(e) /\ NameNow(e)' = NameNow(e)
    BY <2>5 DEF PhaseOf, NameNow, GetValueFromJson
  <2>8. /\ phase' = [phase EXCEPT ![c] = "absent"]
        /\ name' = [name EXCEPT ![c] = Nil]
    BY <2>6, <2>7
  <2>9. Lifecycle!Drop(c)
    BY <1>3, <1>4, <2>6, <2>8 DEF Lifecycle!Drop, Lifecycle!MoveTo, Lifecycle!Forget
  <2> QED
    BY <2>9 DEF Allowed, Lifecycle!Next
<1> QED
  BY <1>1, <1>5, <1>6 DEF Update, VersionMatches

\* A status patch changes neither spec nor metadata.
LEMMA PatchAllowed ==
    ASSUME IInv, Patch
    PROVE  Allowed
<1> USE DEF IInv, TypeOK
<1>1. /\ ctl.pc = "patch"
      /\ ctl \in Working /\ ctl.cr \in CRs /\ ctl.obj \in Objects /\ ctl.msg \in Messages
  BY AtCall DEF Patch, Working
<1> PICK c \in CRs : c = ctl.cr
  BY <1>1
<1>2. ctl'.pc # "unfin"
  BY <1>1, FinalizingEffect, ComparingEffect, IdleWorker DEF Patch
<1>3. \A e \in CRs : SentNow(e)' = SentNow(e)
  BY <1>1, <1>2 DEF SentNow
<1>4. CASE UNCHANGED apiVars
  BY <1>1, <1>2, <1>4, CallAllowed DEF apiVars
<1>5. CASE api[c] # Nil /\ PatchStatus(c, ctl.obj, ctl.msg) /\ ~UNCHANGED apiVars
  <2>1. PICK new \in Objects :
          /\ Publish(c, new)
          /\ new.doc = api[c].doc
          /\ new.deleting = api[c].deleting
          /\ new.fin = api[c].fin
    BY <1>1, <1>5, PatchEffect
  <2>2. new # Nil
    BY ApiServerAssumption
  <2>3. api'[c] = new /\ \A e \in CRs \ {c} : api'[e] = api[e]
    BY <2>1, PublishOthers
  <2>4. \A e \in CRs : PhaseOf(e)' = PhaseOf(e) /\ NameNow(e)' = NameNow(e)
    BY <1>5, <2>1, <2>2, <2>3 DEF PhaseOf, NameNow, GetValueFromJson
  <2> QED
    BY <1>3, <2>4, UnseenAllowed
<1> QED
  BY <1>4, <1>5 DEF Patch

-----------------------------------------------------------------------------
(* Put together *)

LEMMA CommonAllowed ==
    ASSUME IInv, Common
    PROVE  Allowed
<1>1. CASE Reread
  <2>1. UNCHANGED api /\ ctl.pc = "reread" /\ ctl \in Working
    BY <1>1, AtCall DEF Reread, Read, IInv, TypeOK
  <2>2. ctl'.pc # "unfin"
    BY <1>1, <2>1, IdleWorker DEF Reread, Working
  <2> QED
    BY <2>1, <2>2, CallAllowed
<1> QED
  BY <1>1, PatchAllowed, AddFinalizerAllowed, RemoveFinalizerAllowed DEF Common

LEMMA EnvironmentAllowed ==
    ASSUME IInv, Environment
    PROVE  Allowed
<1>1. CASE Interrupt
  BY <1>1, AbandonAllowed DEF Interrupt
<1>2. ASSUME NEW c \in CRs, StartReconcile(c)
      PROVE  Allowed
  <2>1. UNCHANGED api /\ ctl.pc # "unfin" /\ ctl'.pc # "unfin"
    BY <1>2, IdleWorker DEF StartReconcile, Reconcile, Read, Idle
  <2> QED
    BY <2>1, CallAllowed
<1>3. ASSUME NEW c \in CRs, DeliverEvent(c)
      PROVE  Allowed
  <2>1. UNCHANGED <<api, ctl>>
    BY <1>3 DEF DeliverEvent, Deliver
  <2>2. \A e \in CRs : /\ PhaseOf(e)' = PhaseOf(e)
                       /\ NameNow(e)' = NameNow(e)
                       /\ SentNow(e)' = SentNow(e)
    BY <2>1 DEF PhaseOf, NameNow, SentNow, Busy, GetValueFromJson
  <2> QED
    BY <2>2, UnseenAllowed
<1>4. ASSUME NEW c \in CRs, NEW d \in Docs, UserCreate(c, d) \/ UserEdit(c, d)
      PROVE  Allowed
  BY <1>4, UserAllowed
<1>5. ASSUME NEW c \in CRs, UserDelete(c)
      PROVE  Allowed
  <2>1. api[c].doc \in Docs
    BY <1>5 DEF UserDelete, Remove, IInv, TypeOK, ApiTypeOK, Objects
  <2> QED
    BY <1>5, <2>1, UserAllowed
<1> QED
  BY <1>1, <1>2, <1>3, <1>4, <1>5 DEF Environment

LEMMA StutterAllowed ==
    ASSUME UNCHANGED vars
    PROVE  Allowed
<1>1. \A e \in CRs : /\ PhaseOf(e)' = PhaseOf(e)
                     /\ NameNow(e)' = NameNow(e)
                     /\ SentNow(e)' = SentNow(e)
  BY DEF vars, PhaseOf, NameNow, SentNow, Busy, GetValueFromJson
<1> QED
  BY <1>1, UnseenAllowed

-----------------------------------------------------------------------------
(* What a deletion leaves in Pinot *)

\* Once DELETE was answered, and no request failed, the resource of the
\* object in hand is gone.
Gone == ctl.pc = "unfin" /\ faults = 0 => ServedFor(ctl.obj.doc) = Nil

\* A step of RemovalLeavesNothing.
LeavesNothing ==
    \A c \in CRs :
      api[c] # Nil /\ api'[c] = Nil /\ api[c].fin /\ faults = 0 =>
        ServedFor(api[c].doc) = Nil

LEMMA InitGone == Init => Gone
BY IdleWorker DEF Init, Gone

\* Without a fault the answer to DELETE means that nothing of the name is left
\* in the roles of the request.
LEMMA DeleteGone ==
    ASSUME IInv, NEW roles, DeleteResource(roles), RoleOf[ctl.obj.doc] \in roles
    PROVE  Gone'
<1> PICK d : d = ctl.obj.doc
  OBVIOUS
<1> DEFINE n == NameOf[d]
           r == RoleOf[d]
<1>1. /\ ctl \in Working /\ d \in Docs
      /\ ctl.path = n /\ ctl.path \in Names /\ r \in Roles /\ r \in roles
  BY AtCall, DocumentsAssumption
  DEF DeleteResource, IInv, TypeOK, DeletesOwnName, GetValueFromJson, Working, Objects
<1> SUFFICES ASSUME ctl'.pc = "unfin", faults' = 0
             PROVE  ServedFor(d)' = Nil
  <2>1. ctl'.pc = "unfin" => ctl' = [ctl EXCEPT !.pc = "unfin"]
    BY IdleWorker DEF DeleteResource
  <2>2. ctl'.pc = "unfin" => ctl'.obj = ctl.obj
    BY <1>1, <2>1 DEF Working
  <2> QED
    BY <2>2 DEF Gone, ServedFor, Parses
<1>2. PICK answer \in Answers : Delete(n, roles, answer) /\ answer # "error"
  BY <1>1, IdleWorker DEF DeleteResource
<1>3. faults' = faults
  BY <1>2, PinotRestAssumption
  DEF IInv, TypeOK, PinotTypeOK, Delete, Change, Refuse, Fault, pinotVars
<1>4. pinot'[<<n, r>>] = Nil
  <2>1. CASE \E q \in roles : pinot[<<n, q>>] # Nil
    <3>1. pinot' = Without(n, roles)
      BY <1>2, <1>3, <2>1, PinotRestAssumption
      DEF Delete, Change, Fault, IInv, TypeOK, PinotTypeOK
    <3> QED
      BY <1>1, <3>1 DEF Without
  <2>2. CASE ~\E q \in roles : pinot[<<n, q>>] # Nil
    BY <1>2, <2>2 DEF Delete, Refuse, pinotVars
  <2> QED
    BY <2>1, <2>2
<1> QED
  BY <1>4 DEF ServedFor, Parses

LEMMA CommonGone ==
    ASSUME IInv, Common
    PROVE  Gone'
<1>1. ctl \in Working
  BY AtCall DEF Common, Reread, Patch, AddFinalizer, RemoveFinalizer, IInv, TypeOK
<1>2. ctl'.pc # "unfin"
  BY <1>1, FinalizingEffect, ComparingEffect, IdleWorker
  DEF Common, Reread, Patch, AddFinalizer, RemoveFinalizer, Working
<1> QED
  BY <1>2 DEF Gone

LEMMA EnvironmentGone ==
    ASSUME IInv, Gone, Environment
    PROVE  Gone'
<1>1. CASE Interrupt
  BY <1>1, IdleWorker DEF Interrupt, Abandon, Gone
<1>2. ASSUME NEW c \in CRs, StartReconcile(c)
      PROVE  Gone'
  BY <1>2, IdleWorker DEF StartReconcile, Reconcile, Idle, Gone
<1>3. CASE UNCHANGED <<ctl, pinotVars>>
  BY <1>3 DEF Gone, ServedFor, Parses, pinotVars
<1> QED
  BY <1>1, <1>2, <1>3 DEF Environment, DeliverEvent, UserCreate, UserEdit, UserDelete

LEMMA StutterGone ==
    ASSUME Gone, UNCHANGED vars
    PROVE  Gone'
BY DEF vars, Gone, ServedFor, Parses

LEMMA NoWriteLeavesNothing ==
    ASSUME UNCHANGED api
    PROVE  LeavesNothing
BY DEF LeavesNothing

LEMMA CommonLeavesNothing ==
    ASSUME IInv, Gone, Common
    PROVE  LeavesNothing
<1>1. CASE Reread
  BY <1>1, NoWriteLeavesNothing DEF Reread, Read
<1>2. CASE Patch
  BY <1>2, PatchKeepsSpec DEF LeavesNothing
<1>3. CASE AddFinalizer \/ RemoveFinalizer
  BY <1>3, FinalizerKeepsSpec DEF LeavesNothing, Gone, RemoveFinalizer
<1> QED
  BY <1>1, <1>2, <1>3 DEF Common

LEMMA EnvironmentLeavesNothing ==
    ASSUME IInv, Environment
    PROVE  LeavesNothing
BY EnvironmentKeepsManaged DEF LeavesNothing
=============================================================================
