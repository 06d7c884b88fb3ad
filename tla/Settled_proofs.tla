---------------------------- MODULE Settled_proofs ----------------------------
(***************************************************************************)
(* What can be relied on for a settled resource, one whose user let every  *)
(* reconcile finish and of whose reconciles none was cut short, whichever  *)
(* kind of resource it is.  All its versions that the informer or a        *)
(* reconciler has, or will receive, then follow from its present spec.     *)
(***************************************************************************)
EXTENDS Reconciler_proofs

Settled(c) == c \notin disturbed /\ api[c] # Nil

\* Versions on their way to the informer, and the one in a reconciler's hands.
Events(c) == {watch[c][i] : i \in 1..Len(watch[c])}

Held(c) == IF Busy(c) THEN {ctl.obj} ELSE {}

\* The versions in sight that have the present spec.
Copies(c) ==
    {o \in {api[c], cache[c]} \cup Events(c) \cup Held(c) : o # Nil /\ o.doc = api[c].doc}

\* Every version on its way, and every one a reconcile under way has or may
\* read, has the present spec, and the reconcile knows its name.
SameSpec(c) ==
    /\ \A o \in Events(c) : o # Nil /\ o.doc = api[c].doc
    /\ Busy(c) => /\ ctl.obj.doc = api[c].doc /\ Parses(ctl.obj.doc)
                  /\ ctl.path = NameOf[api[c].doc]
                  /\ cache[c] # Nil /\ cache[c].doc = api[c].doc

\* An older version of the present spec is not ahead of the server's.
NoneAhead(c) ==
    \A o \in Copies(c) :
      /\ o.deleting => api[c].deleting
      /\ o.current = o.doc => api[c].current = o.doc

Coherent(c) ==
    /\ SameSpec(c)
    /\ NoneAhead(c)
    /\ api[c].current = Nil \/ Parses(api[c].current)

Calm == \A c \in CRs : Settled(c) => Coherent(c)

-----------------------------------------------------------------------------
(* The events of a resource *)

LEMMA AppendEvents ==
    ASSUME NEW S, NEW s \in Seq(S), NEW o \in S
    PROVE  {Append(s, o)[i] : i \in 1..Len(Append(s, o))} = {s[i] : i \in 1..Len(s)} \cup {o}
<1>1. /\ Len(s) \in Nat /\ Len(Append(s, o)) = Len(s) + 1
      /\ \A i \in 1..Len(s) : Append(s, o)[i] = s[i]
      /\ Append(s, o)[Len(s) + 1] = o
  OBVIOUS
<1>2. 1..(Len(s) + 1) = 1..Len(s) \cup {Len(s) + 1}
  BY <1>1
<1> QED
  BY <1>1, <1>2

LEMMA TailEvents ==
    ASSUME NEW S, NEW s \in Seq(S), s # <<>>
    PROVE  /\ Head(s) \in {s[i] : i \in 1..Len(s)}
           /\ {Tail(s)[i] : i \in 1..Len(Tail(s))} \subseteq {s[i] : i \in 1..Len(s)}
<1>1. /\ Len(s) \in Nat /\ Len(s) > 0 /\ Len(Tail(s)) = Len(s) - 1
      /\ Head(s) = s[1]
      /\ \A i \in 1..(Len(s) - 1) : Tail(s)[i] = s[i + 1]
  OBVIOUS
<1>2. 1 \in 1..Len(s) /\ \A i \in 1..(Len(s) - 1) : i + 1 \in 1..Len(s)
  BY <1>1
<1> QED
  BY <1>1, <1>2

\* A write of c is one more event of c, and nothing to the other resources.
LEMMA PublishEvents ==
    ASSUME ApiTypeOK, NEW c \in CRs, NEW o \in Objects \cup {Nil}, Publish(c, o)
    PROVE  /\ api'[c] = o /\ cache' = cache
           /\ Events(c)' = Events(c) \cup {o}
           /\ \A e \in CRs \ {c} : api'[e] = api[e] /\ watch'[e] = watch[e]
<1>1. /\ api'[c] = o /\ cache' = cache
      /\ watch'[c] = Append(watch[c], o)
      /\ \A e \in CRs \ {c} : api'[e] = api[e] /\ watch'[e] = watch[e]
  BY DEF ApiTypeOK, Publish
<1>2. watch[c] \in Seq(Objects \cup {Nil})
  BY DEF ApiTypeOK
<1> QED
  BY <1>1, <1>2, AppendEvents DEF Events

LEMMA DeliverEvents ==
    ASSUME ApiTypeOK, NEW c \in CRs, Deliver(c)
    PROVE  /\ api' = api
           /\ cache'[c] \in Events(c)
           /\ Events(c)' \subseteq Events(c)
           /\ \A e \in CRs \ {c} : cache'[e] = cache[e] /\ watch'[e] = watch[e]
<1>1. /\ api' = api /\ watch[c] # <<>>
      /\ cache'[c] = Head(watch[c]) /\ watch'[c] = Tail(watch[c])
      /\ \A e \in CRs \ {c} : cache'[e] = cache[e] /\ watch'[e] = watch[e]
  BY DEF ApiTypeOK, Deliver
<1>2. watch[c] \in Seq(Objects \cup {Nil})
  BY DEF ApiTypeOK
<1> QED
  BY <1>1, <1>2, TailEvents DEF Events

-----------------------------------------------------------------------------
(* What comes into sight in a step *)

\* The versions of c in sight after the step were in sight before it, or are
\* the server's; a reconcile goes on under the name it has, or its object's.
Sees(c) ==
    /\ Events(c)' \subseteq Events(c) \cup {api'[c]}
    /\ cache'[c] \in {cache[c]} \cup Events(c)
    /\ Busy(c)' => /\ ctl'.obj = cache[c] \/ (Busy(c) /\ ctl'.obj = ctl.obj)
                   /\ \/ ctl'.path = NameOf[ctl'.obj.doc]
                      \/ Busy(c) /\ ctl'.path = ctl.path

\* Every step but those in which the reconciler or the informer reads.
LEMMA WriteSees ==
    ASSUME IInv, NEW c \in CRs, Continues(ctl, ctl'),
           \/ UNCHANGED apiVars
           \/ \E e \in CRs, o \in Objects \cup {Nil} : Publish(e, o)
    PROVE  Sees(c)
<1>1. Busy(c)' => /\ Busy(c) /\ ctl'.obj = ctl.obj
                  /\ ctl'.path \in {ctl.path, NameOf[ctl'.obj.doc]}
  BY IdleWorker DEF Busy, Continues, GetValueFromJson
<1>2. CASE UNCHANGED apiVars
  BY <1>1, <1>2 DEF Sees, Events, apiVars
<1>3. ASSUME NEW e \in CRs, NEW o \in Objects \cup {Nil}, Publish(e, o)
      PROVE  Sees(c)
  <2>1. /\ api'[e] = o /\ cache' = cache
        /\ Events(e)' = Events(e) \cup {o}
        /\ \A u \in CRs \ {e} : watch'[u] = watch[u]
    BY <1>3, PublishEvents DEF IInv, TypeOK
  <2>2. CASE c = e
    BY <1>1, <2>1, <2>2 DEF Sees
  <2>3. CASE c # e
    BY <1>1, <2>1, <2>3 DEF Sees, Events
  <2> QED
    BY <2>2, <2>3
<1> QED
  BY <1>2, <1>3

LEMMA StartSees ==
    ASSUME IInv, NEW c \in CRs, NEW e \in CRs, StartReconcile(e)
    PROVE  Sees(c)
<1>1. UNCHANGED <<cache, watch>>
  BY DEF StartReconcile, Reconcile, Read
<1>2. ctl' = [Idle EXCEPT !.pc = "get", !.cr = e, !.obj = cache[e],
                          !.path = GetValueFromJson(cache[e].doc)]
  BY DEF StartReconcile, Reconcile
<1>3. ctl'.cr = e /\ ctl'.obj = cache[e] /\ ctl'.path = NameOf[cache[e].doc]
  BY <1>2 DEF Idle, GetValueFromJson
<1> QED
  BY <1>1, <1>3 DEF Sees, Events, Busy

LEMMA RereadSees ==
    ASSUME IInv, NEW c \in CRs, Reread
    PROVE  Sees(c)
<1>1. UNCHANGED <<cache, watch>> /\ ctl \in Working
  BY AtCall DEF Reread, Read, IInv, TypeOK
<1>2. ctl' = Idle \/ ctl' = [ctl EXCEPT !.pc = "patch", !.obj = cache[ctl.cr]]
  BY DEF Reread
<1>3. \/ ctl' = Idle
      \/ ctl'.cr = ctl.cr /\ ctl'.obj = cache[ctl.cr] /\ ctl'.path = ctl.path
  BY <1>1, <1>2 DEF Working
<1> QED
  BY <1>1, <1>3, IdleWorker DEF Sees, Events, Busy

LEMMA DeliverSees ==
    ASSUME IInv, NEW c \in CRs, NEW e \in CRs, DeliverEvent(e)
    PROVE  Sees(c)
<1>1. /\ ctl' = ctl
      /\ cache'[e] \in Events(e) /\ Events(e)' \subseteq Events(e)
      /\ \A u \in CRs \ {e} : cache'[u] = cache[u] /\ watch'[u] = watch[u]
  BY DeliverEvents DEF DeliverEvent, IInv, TypeOK
<1>2. CASE c = e
  BY <1>1, <1>2 DEF Sees, Busy
<1>3. CASE c # e
  BY <1>1, <1>3 DEF Sees, Events, Busy
<1> QED
  BY <1>2, <1>3

LEMMA PatchSees ==
    ASSUME IInv, NEW c \in CRs, Patch
    PROVE  Sees(c)
<1> USE DEF IInv, TypeOK
<1>1. ctl \in Working /\ ctl.cr \in CRs /\ ctl.obj \in Objects /\ ctl.msg \in Messages
  BY AtCall DEF Patch, Working
<1>2. Continues(ctl, ctl')
  BY <1>1, ComparingEffect, FinalizingEffect DEF Patch, Continues
<1>3. \/ UNCHANGED apiVars
      \/ \E e \in CRs, o \in Objects \cup {Nil} : Publish(e, o)
  BY <1>1, PatchEffect DEF Patch
<1> QED
  BY <1>2, <1>3, WriteSees

LEMMA FinalizerSees ==
    ASSUME IInv, NEW c \in CRs, AddFinalizer \/ RemoveFinalizer
    PROVE  Sees(c)
<1>1. ctl \in Working /\ ctl.cr \in CRs /\ ctl' = Idle
  BY AtCall DEF AddFinalizer, RemoveFinalizer, Working, IInv, TypeOK
<1>2. \/ UNCHANGED apiVars
      \/ \E e \in CRs, o \in Objects \cup {Nil} : Publish(e, o)
  BY <1>1, FinalizerWrite DEF AddFinalizer, RemoveFinalizer
<1> QED
  BY <1>1, <1>2, WriteSees DEF Continues

LEMMA UserSees ==
    ASSUME IInv, NEW c \in CRs, NEW e \in CRs, NEW d \in Docs,
           UserCreate(e, d) \/ UserEdit(e, d) \/ UserDelete(e)
    PROVE  Sees(c)
<1>1. \E o \in Objects \cup {Nil} : Publish(e, o)
  BY UserWrite DEF UserCreate, UserEdit, UserDelete, IInv, TypeOK
<1>2. Continues(ctl, ctl')
  BY DEF UserCreate, UserEdit, UserDelete, Continues
<1> QED
  BY <1>1, <1>2, WriteSees

LEMMA CommonSees ==
    ASSUME IInv, NEW c \in CRs, Common
    PROVE  Sees(c)
BY RereadSees, PatchSees, FinalizerSees DEF Common

LEMMA EnvironmentSees ==
    ASSUME IInv, NEW c \in CRs, Environment
    PROVE  Sees(c)
<1>1. CASE Interrupt
  BY <1>1, WriteSees DEF Interrupt, Abandon, Continues
<1>2. ASSUME NEW e \in CRs, UserDelete(e)
      PROVE  Sees(c)
  <2>1. api[e].doc \in Docs
    BY <1>2 DEF UserDelete, Remove, IInv, TypeOK, ApiTypeOK, Objects
  <2> QED
    BY <1>2, <2>1, UserSees
<1> QED
  BY <1>1, <1>2, StartSees, DeliverSees, UserSees DEF Environment

LEMMA StutterSees ==
    ASSUME NEW c \in CRs, UNCHANGED vars
    PROVE  Sees(c)
BY DEF vars, Sees, Events, Busy

-----------------------------------------------------------------------------
(* Steps that leave the spec of a resource alone *)

\* The spec of c stays, what its status records is of that spec or was there
\* before, and a reconcile that begins does so with the present spec.
Carries(c) ==
    /\ Sees(c)
    /\ api[c] # Nil /\ api'[c] # Nil
    /\ api'[c].doc = api[c].doc
    /\ api[c].deleting => api'[c].deleting
    /\ \/ api'[c].current = api[c].current
       \/ Busy(c) /\ api'[c].current = api[c].doc
    /\ Busy(c)' /\ ~Busy(c) =>
         /\ cache'[c] = cache[c]
         /\ cache[c] # Nil /\ cache[c].doc = api[c].doc /\ Parses(cache[c].doc)

LEMMA SeenCopies ==
    ASSUME NEW c \in CRs, Sees(c), api'[c].doc = api[c].doc
    PROVE  Copies(c)' \subseteq Copies(c) \cup {api'[c]}
<1> SUFFICES ASSUME NEW o \in Copies(c)', o # api'[c]
             PROVE  o \in Copies(c)
  OBVIOUS
<1>1. /\ o # Nil /\ o.doc = api[c].doc
      /\ o \in {cache'[c]} \cup Events(c)' \cup Held(c)'
  BY DEF Copies
<1>2. o \in {cache[c]} \cup Events(c) \cup Held(c)
  <2>1. o \in Held(c)' => o \in Held(c) \cup {cache[c]}
    BY DEF Held, Sees
  <2> QED
    BY <1>1, <2>1 DEF Sees
<1> QED
  BY <1>1, <1>2 DEF Copies

LEMMA CarriedCoherent ==
    ASSUME NEW c \in CRs, Coherent(c), Carries(c)
    PROVE  Coherent(c)'
<1>1. SameSpec(c)'
  <2>1. \A o \in Events(c)' : o # Nil /\ o.doc = api'[c].doc
    BY DEF Coherent, SameSpec, Carries, Sees
  <2>2. ASSUME Busy(c)'
        PROVE  /\ ctl'.obj.doc = api'[c].doc /\ Parses(ctl'.obj.doc)
               /\ ctl'.path = NameOf[api'[c].doc]
               /\ cache'[c] # Nil /\ cache'[c].doc = api'[c].doc
    BY <2>2 DEF Coherent, SameSpec, Carries, Sees
  <2> QED
    BY <2>1, <2>2 DEF SameSpec, Parses
<1>2. NoneAhead(c)'
  BY SeenCopies DEF Coherent, NoneAhead, Carries, Copies
<1>3. api'[c].current = Nil \/ Parses(api'[c].current)
  BY DEF Coherent, SameSpec, Carries
<1> QED
  BY <1>1, <1>2, <1>3 DEF Coherent, Parses

\* A step that changes nothing of c but that its reconcile may end.
LEMMA AsideCarries ==
    ASSUME NEW c \in CRs, Sees(c), api[c] # Nil, api'[c] = api[c], Busy(c)' => Busy(c)
    PROVE  Carries(c)
BY DEF Carries

\* A request to Pinot, or the end of a reconcile.
LEMMA RequestCarries ==
    ASSUME IInv, NEW c \in CRs, api[c] # Nil, UNCHANGED apiVars, Continues(ctl, ctl')
    PROVE  Carries(c)
BY WriteSees, AsideCarries, IdleWorker DEF apiVars, Continues, Busy

LEMMA RereadCarries ==
    ASSUME IInv, NEW c \in CRs, api[c] # Nil, Reread
    PROVE  Carries(c)
<1>1. ctl \in Working /\ UNCHANGED api
  BY AtCall DEF Reread, Read, IInv, TypeOK
<1>2. ctl' = Idle \/ ctl' = [ctl EXCEPT !.pc = "patch", !.obj = cache[ctl.cr]]
  BY DEF Reread
<1>3. Busy(c)' => Busy(c)
  BY <1>1, <1>2, IdleWorker DEF Busy, Working
<1> QED
  BY <1>1, <1>3, RereadSees, AsideCarries

\* The status that a patch leaves: the field that the object read before it
\* had already is not written.
LEMMA PatchRecords ==
    ASSUME ApiTypeOK, NEW c \in CRs, api[c] # Nil, NEW base \in Objects,
           NEW msg \in Messages, PatchStatus(c, base, msg)
    PROVE  /\ api'[c] \in Objects
           /\ api'[c].doc = api[c].doc /\ api'[c].deleting = api[c].deleting
           /\ api'[c].current = IF base.doc = base.current THEN api[c].current ELSE base.doc
           /\ api'[c].msg = IF msg = base.msg THEN api[c].msg ELSE msg
           /\ cache' = cache
           /\ Events(c)' \subseteq Events(c) \cup {api'[c]}
           /\ \A e \in CRs \ {c} : api'[e] = api[e] /\ watch'[e] = watch[e]
<1> DEFINE new == [api[c] EXCEPT
                     !.current = IF base.doc = base.current THEN @ ELSE base.doc,
                     !.msg = IF msg = base.msg THEN @ ELSE msg]
<1>1. api[c] \in Objects
  BY DEF ApiTypeOK
<1>2. /\ new \in Objects
      /\ new.doc = api[c].doc /\ new.deleting = api[c].deleting
      /\ new.current = IF base.doc = base.current THEN api[c].current ELSE base.doc
      /\ new.msg = IF msg = base.msg THEN api[c].msg ELSE msg
  BY <1>1 DEF Objects
<1>3. Transform(base, msg).current = base.doc /\ Transform(base, msg).msg = msg
  BY DEF Transform, Objects
<1>4. Publish(c, new) \/ (new = api[c] /\ UNCHANGED apiVars)
  BY <1>3 DEF PatchStatus
<1> HIDE DEF new
<1>5. CASE Publish(c, new)
  BY <1>2, <1>5, PublishEvents
<1>6. CASE new = api[c] /\ UNCHANGED apiVars
  BY <1>1, <1>2, <1>6 DEF apiVars, Events
<1> QED
  BY <1>4, <1>5, <1>6

LEMMA PatchKeepsDeleting ==
    ASSUME IInv, Patch, NEW c \in CRs, c = ctl.cr, api[c] # Nil
    PROVE  api'[c].deleting = api[c].deleting
<1> USE DEF IInv, TypeOK
<1>1. ctl \in Working /\ ctl.obj \in Objects /\ ctl.msg \in Messages
  BY AtCall DEF Patch, Working
<1>2. PatchStatus(c, ctl.obj, ctl.msg)
  BY DEF Patch
<1> QED
  BY <1>1, <1>2, PatchRecords

LEMMA PatchCarries ==
    ASSUME IInv, NEW c \in CRs, Busy(c) => SameSpec(c), api[c] # Nil, Patch
    PROVE  Carries(c)
<1> USE DEF IInv, TypeOK
<1>1. /\ ctl \in Working /\ ctl.cr \in CRs /\ ctl.obj \in Objects /\ ctl.msg \in Messages
  BY AtCall DEF Patch, Working
<1>2. Continues(ctl, ctl')
  BY <1>1, ComparingEffect, FinalizingEffect DEF Patch, Continues
<1>3. Busy(c)' => Busy(c)
  BY <1>2, IdleWorker DEF Busy, Continues
<1>4. CASE UNCHANGED apiVars
  BY <1>2, <1>4, RequestCarries
<1>5. CASE api[ctl.cr] # Nil /\ PatchStatus(ctl.cr, ctl.obj, ctl.msg)
  <2>1. CASE c = ctl.cr
    <3>1. Busy(c) /\ ctl.obj.doc = api[c].doc
      BY <2>1 DEF Busy, SameSpec
    <3>2. /\ api'[c] \in Objects
          /\ api'[c].doc = api[c].doc /\ api'[c].deleting = api[c].deleting
          /\ api'[c].current \in {api[c].current, ctl.obj.doc}
      BY <1>1, <1>5, <2>1, PatchRecords
    <3> QED
      BY <1>3, <3>1, <3>2, PatchSees, ApiServerAssumption DEF Carries
  <2>2. CASE c # ctl.cr
    BY <1>1, <1>3, <1>5, <2>2, PatchRecords, PatchSees, AsideCarries
  <2> QED
    BY <2>1, <2>2
<1> QED
  BY <1>4, <1>5 DEF Patch

\* The two writes of a whole object set the finalizer and nothing else.
LEMMA FinalizerSets ==
    ASSUME IInv, NEW f \in BOOLEAN, ctl \in Working,
           Update(ctl.cr, [ctl.obj EXCEPT !.fin = f])
    PROVE  \/ UNCHANGED apiVars /\ ~(api[ctl.cr] # Nil /\ ctl.cr \in uptodate)
           \/ /\ api[ctl.cr] \in Objects /\ ctl.cr \in uptodate
              /\ Publish(ctl.cr, IF api[ctl.cr].deleting /\ ~f
                                   THEN Nil ELSE [api[ctl.cr] EXCEPT !.fin = f])
<1> DEFINE c == ctl.cr
           o == [ctl.obj EXCEPT !.fin = f]
<1>1. c \in CRs /\ ctl.obj \in Objects
  BY DEF Working
<1>2. CASE api[c] # Nil /\ c \in uptodate
  <2>1. ctl.obj = api[c] /\ api[c] \in Objects
    BY <1>1, <1>2 DEF IInv, TypeOK, ApiTypeOK, CopiesAreVersions, Busy
  <2>2. /\ o.fin = f
        /\ [api[c] EXCEPT !.doc = o.doc, !.fin = o.fin] = [api[c] EXCEPT !.fin = f]
    BY <1>1, <2>1 DEF Objects
  <2>3. Publish(c, IF api[c].deleting /\ ~o.fin
                     THEN Nil ELSE [api[c] EXCEPT !.doc = o.doc, !.fin = o.fin])
    BY <1>2 DEF Update, VersionMatches
  <2> QED
    BY <1>2, <2>1, <2>2, <2>3
<1>3. CASE ~(api[c] # Nil /\ c \in uptodate)
  BY <1>3 DEF Update, VersionMatches
<1> QED
  BY <1>2, <1>3

LEMMA FinalizerCarries ==
    ASSUME IInv, NEW c \in CRs, api[c] # Nil, api'[c] # Nil, AddFinalizer \/ RemoveFinalizer
    PROVE  Carries(c)
<1> USE DEF IInv, TypeOK
<1>1. ctl \in Working /\ ctl.cr \in CRs /\ ctl' = Idle
  BY AtCall DEF AddFinalizer, RemoveFinalizer, Working
<1>2. ASSUME NEW f \in BOOLEAN, Update(ctl.cr, [ctl.obj EXCEPT !.fin = f])
      PROVE  Carries(c)
  <2>1. CASE UNCHANGED apiVars
    BY <1>1, <2>1, RequestCarries DEF Continues
  <2>2. ASSUME api[ctl.cr] \in Objects,
               Publish(ctl.cr, IF api[ctl.cr].deleting /\ ~f
                                 THEN Nil ELSE [api[ctl.cr] EXCEPT !.fin = f])
        PROVE  Carries(c)
    <3> PICK e \in CRs : e = ctl.cr
      BY <1>1
    <3> DEFINE new == IF api[e].deleting /\ ~f THEN Nil ELSE [api[e] EXCEPT !.fin = f]
    <3>1. new \in Objects \cup {Nil} /\ Publish(e, new)
      BY <2>2 DEF Objects
    <3>2. new # Nil =>
            /\ new.doc = api[e].doc /\ new.current = api[e].current
            /\ new.deleting = api[e].deleting
      BY <2>2 DEF Objects
    <3> HIDE DEF new
    <3>3. api'[e] = new /\ \A u \in CRs \ {e} : api'[u] = api[u]
      BY <1>1, <3>1, PublishEvents
    <3>4. ~Busy(c)'
      BY <1>1, IdleWorker DEF Busy
    <3>5. CASE c = e
      BY <3>2, <3>3, <3>4, <3>5, FinalizerSees DEF Carries
    <3>6. CASE c # e
      BY <3>3, <3>4, <3>6, FinalizerSees, AsideCarries
    <3> QED
      BY <3>5, <3>6
  <2> QED
    BY <1>1, <1>2, <2>1, <2>2, FinalizerSets
<1> QED
  BY <1>2 DEF AddFinalizer, RemoveFinalizer

\* A calm deletion.
LEMMA UserDeleteCarries ==
    ASSUME IInv, NEW c \in CRs, NEW e \in CRs, api[c] # Nil, api'[c] # Nil, UserDelete(e)
    PROVE  Carries(c)
<1> USE DEF IInv, TypeOK
<1>1. ctl' = ctl
  BY DEF UserDelete
<1>2. api[e] \in Objects
  BY DEF UserDelete, Remove, ApiTypeOK
<1> DEFINE new == IF api[e].fin THEN [api[e] EXCEPT !.deleting = TRUE] ELSE Nil
<1>3. new \in Objects \cup {Nil} /\ Publish(e, new)
  BY <1>2 DEF UserDelete, Remove, Objects
<1>4. new # Nil => new.doc = api[e].doc /\ new.current = api[e].current /\ new.deleting
  BY <1>2 DEF Objects
<1> HIDE DEF new
<1>5. api'[e] = new /\ \A u \in CRs \ {e} : api'[u] = api[u]
  BY <1>3, PublishEvents
<1>6. Sees(c) /\ (Busy(c)' => Busy(c))
  BY <1>1, <1>2, UserSees DEF Busy, Objects
<1>7. CASE c = e
  BY <1>4, <1>5, <1>6, <1>7 DEF Carries
<1>8. CASE c # e
  BY <1>5, <1>6, <1>8, AsideCarries
<1> QED
  BY <1>7, <1>8

LEMMA DeliverCarries ==
    ASSUME IInv, NEW c \in CRs, NEW e \in CRs, api[c] # Nil, DeliverEvent(e)
    PROVE  Carries(c)
BY DeliverSees, AsideCarries DEF DeliverEvent, Deliver, Busy

\* A reconcile that begins calmly.
LEMMA StartCarries ==
    ASSUME IInv, NEW c \in CRs, NEW e \in CRs, Settled(c), c \notin disturbed',
           StartReconcile(e)
    PROVE  Carries(c)
<1>1. UNCHANGED <<api, cache>>
  BY DEF StartReconcile, Reconcile, Read
<1>2. ctl'.cr = e
  BY DEF StartReconcile, Reconcile, Idle
<1>3. CASE c = e
  <2>1. cache[c] # Nil /\ cache[c].doc = api[c].doc
    BY <1>3 DEF StartReconcile, Reconcile, Note, Settled
  <2>2. cache[c].doc \in Docs
    BY <2>1 DEF IInv, TypeOK, ApiTypeOK, Objects
  <2>3. Parses(cache[c].doc)
    BY <1>3, <2>2, DocumentsAssumption DEF StartReconcile, Reconcile, GetValueFromJson, Parses
  <2> QED
    BY <1>1, <2>1, <2>3, StartSees DEF Carries, Settled
<1>4. CASE c # e
  BY <1>1, <1>2, <1>4, StartSees, AsideCarries DEF Busy, Settled
<1> QED
  BY <1>3, <1>4

-----------------------------------------------------------------------------
(* Steps that give a resource a spec *)

LEMMA EmptyEvents ==
    ASSUME NEW c, watch[c] = <<>>
    PROVE  Events(c) = {}
<1>1. Len(watch[c]) = 0
  OBVIOUS
<1> QED
  BY <1>1 DEF Events

\* At rest, the new version is the only one of its spec.
LEMMA UserSpecifies ==
    ASSUME IInv, NEW c \in CRs, NEW d \in Docs, UserCreate(c, d) \/ UserEdit(c, d),
           c \notin disturbed'
    PROVE  /\ Quiet(c) /\ ~Busy(c)'
           /\ api'[c] \in Objects /\ api'[c].doc = d
           /\ ctl' = ctl /\ pinot' = pinot
           /\ IF UserCreate(c, d)
                THEN api'[c].current = Nil /\ api'[c].msg = "" /\ ~Taken(d)
                ELSE /\ api[c] \in Objects
                     /\ api'[c].current = api[c].current /\ api'[c].msg = api[c].msg
                     /\ ~api[c].deleting
                     /\ api[c].current = Nil => ~Taken(d)
           /\ ~api'[c].deleting
           /\ Events(c)' = {api'[c]}
           /\ cache'[c] = Nil \/ cache'[c].doc # d
           /\ \A e \in CRs \ {c} :
                api'[e] = api[e] /\ watch'[e] = watch[e] /\ cache'[e] = cache[e]
<1> USE DEF IInv, TypeOK
<1>1. /\ ctl' = ctl /\ pinot' = pinot /\ Quiet(c)
      /\ UserCreate(c, d) => ~Taken(d)
      /\ UserEdit(c, d) => ~api[c].deleting /\ (api[c].current = Nil => ~Taken(d))
  BY DEF UserCreate, UserEdit, Note, pinotVars
<1>2. watch[c] = <<>> /\ ~Busy(c) /\ cache[c] = api[c]
  BY <1>1 DEF Quiet, CopiesAreVersions, CacheFollows
<1> DEFINE new == IF api[c] = Nil
                    THEN [doc |-> d, current |-> Nil, msg |-> "", fin |-> FALSE, deleting |-> FALSE]
                    ELSE [api[c] EXCEPT !.doc = d]
<1>3. /\ Publish(c, new) /\ new \in Objects /\ new.doc = d
      /\ UserCreate(c, d) => /\ api[c] = Nil
                             /\ new.current = Nil /\ new.msg = "" /\ ~new.deleting
      /\ ~UserCreate(c, d) => /\ api[c] \in Objects /\ api[c].doc # d
                              /\ new.current = api[c].current /\ new.msg = api[c].msg
                              /\ new.deleting = api[c].deleting
  <2>1. CASE api[c] = Nil
    <3>1. Create(c, d) /\ UserCreate(c, d)
      BY <2>1 DEF UserCreate, UserEdit, Edit
    <3> QED
      BY <2>1, <3>1 DEF Create, Objects, Messages
  <2>2. CASE api[c] # Nil
    <3>1. Edit(c, d) /\ ~UserCreate(c, d) /\ api[c] \in Objects
      BY <2>2 DEF UserCreate, UserEdit, Create, ApiTypeOK
    <3> QED
      BY <2>2, <3>1 DEF Edit, Objects
  <2> QED
    BY <2>1, <2>2
<1> HIDE DEF new
<1>4. /\ api'[c] = new /\ cache' = cache
      /\ Events(c)' = Events(c) \cup {new}
      /\ \A e \in CRs \ {c} : api'[e] = api[e] /\ watch'[e] = watch[e]
  BY <1>3, PublishEvents
<1>5. Events(c) = {}
  BY <1>2, EmptyEvents
<1>6. ~Busy(c)'
  BY <1>1, <1>2 DEF Busy
<1>7. cache'[c] = Nil \/ cache'[c].doc # d
  BY <1>2, <1>3, <1>4
<1>8. ~new.deleting
  BY <1>1, <1>3
<1> QED
  BY <1>1, <1>3, <1>4, <1>5, <1>6, <1>7, <1>8

\* The new version of c is then the only copy of the present spec.
LEMMA OnlyCopy ==
    ASSUME NEW c \in CRs, api'[c] \in Objects, Events(c)' = {api'[c]}, ~Busy(c)',
           cache'[c] = Nil \/ cache'[c].doc # api'[c].doc
    PROVE  Copies(c)' = {api'[c]}
BY ApiServerAssumption DEF Copies, Held

LEMMA SpecifiedCoherent ==
    ASSUME IInv, NEW c \in CRs, NEW d \in Docs, UserCreate(c, d) \/ UserEdit(c, d),
           c \notin disturbed', Settled(c) => Coherent(c)
    PROVE  Coherent(c)'
<1> /\ api'[c] \in Objects /\ api'[c].doc = d /\ Events(c)' = {api'[c]}
    /\ cache'[c] = Nil \/ cache'[c].doc # d
  BY UserSpecifies
<1> ~Busy(c)'
  BY UserSpecifies DEF Busy
<1> Copies(c)' = {api'[c]}
  BY OnlyCopy
<1>1. SameSpec(c)'
  BY ApiServerAssumption DEF SameSpec
<1>2. NoneAhead(c)'
  BY DEF NoneAhead
<1>3. api'[c].current = Nil \/ Parses(api'[c].current)
  <2>1. CASE UserCreate(c, d)
    BY <2>1, UserSpecifies
  <2>2. CASE ~UserCreate(c, d)
    <3>1. api[c] # Nil /\ api'[c].current = api[c].current
      BY <2>2, UserSpecifies, ApiServerAssumption
    <3>2. c \notin disturbed
      BY <2>2 DEF UserEdit, Note
    <3> QED
      BY <3>1, <3>2 DEF Settled, Coherent
  <2> QED
    BY <2>1, <2>2
<1> QED
  BY <1>1, <1>2, <1>3 DEF Coherent, Parses

-----------------------------------------------------------------------------
(* Calm is an invariant *)

LEMMA InitCalm == Init => Calm
BY DEF Init, ApiInit, Calm, Settled

LEMMA StutterCalm ==
    ASSUME Calm, UNCHANGED vars
    PROVE  Calm'
BY DEF vars, Calm, Settled, Coherent, SameSpec, NoneAhead, Copies, Events, Held, Busy, Parses

\* A step that carries every settled resource, and creates none.
LEMMA CarriesCalm ==
    ASSUME Calm, disturbed \subseteq disturbed',
           \A c \in CRs : api[c] = Nil => api'[c] = Nil,
           \A c \in CRs : Settled(c) /\ api'[c] # Nil => Carries(c)
    PROVE  Calm'
BY CarriedCoherent DEF Calm, Settled

LEMMA RequestCalm ==
    ASSUME IInv, Calm, UNCHANGED apiVars, disturbed \subseteq disturbed',
           Continues(ctl, ctl')
    PROVE  Calm'
BY RequestCarries, CarriesCalm DEF Settled, apiVars

\* The calls that are not requests carry every settled resource.
LEMMA CommonCarries ==
    ASSUME IInv, Calm, Common, NEW c \in CRs, Settled(c), api'[c] # Nil
    PROVE  Carries(c)
<1>1. SameSpec(c) /\ api[c] # Nil
  BY DEF Calm, Settled, Coherent
<1> QED
  BY <1>1, RereadCarries, PatchCarries, FinalizerCarries DEF Common

LEMMA CommonCalm ==
    ASSUME IInv, Calm, Common, NoteCut
    PROVE  Calm'
<1>1. disturbed \subseteq disturbed'
  BY DEF NoteCut, Note
<1>2. \A c \in CRs : api[c] = Nil => api'[c] = Nil
  <2>1. CASE Reread
    BY <2>1 DEF Reread, Read
  <2>2. CASE Patch
    BY <2>2, PatchKeepsSpec
  <2>3. CASE AddFinalizer \/ RemoveFinalizer
    <3>1. ctl' # ctl
      BY <2>3, IdleWorker DEF AddFinalizer, RemoveFinalizer
    <3> QED
      BY <2>3, <3>1, FinalizerKeepsSpec DEF KeepsSpec
  <2> QED
    BY <2>1, <2>2, <2>3 DEF Common
<1> QED
  BY <1>1, <1>2, CommonCarries, CarriesCalm

LEMMA EnvironmentCalm ==
    ASSUME IInv, Calm, Environment
    PROVE  Calm'
<1> SUFFICES ASSUME NEW c \in CRs, c \notin disturbed', api'[c] # Nil
             PROVE  Coherent(c)'
  BY DEF Calm, Settled
<1>1. c \notin disturbed
  <2>1. disturbed \subseteq disturbed'
    BY DEF Environment, Interrupt, StartReconcile, DeliverEvent, UserCreate, UserEdit, UserDelete,
           NoteCut, Note
  <2> QED
    BY <2>1
<1>2. Settled(c) => Coherent(c)
  BY DEF Calm
<1>3. api[c] # Nil /\ Carries(c) => Coherent(c)'
  BY <1>1, <1>2, CarriedCoherent DEF Settled
<1>4. CASE Interrupt
  BY <1>3, <1>4, RequestCarries DEF Interrupt, Abandon, Continues, apiVars
<1>5. ASSUME NEW e \in CRs, StartReconcile(e)
      PROVE  Coherent(c)'
  <2>1. api[c] # Nil
    BY <1>5 DEF StartReconcile, Reconcile, Read
  <2> QED
    BY <1>1, <1>3, <1>5, <2>1, StartCarries DEF Settled
<1>6. ASSUME NEW e \in CRs, DeliverEvent(e)
      PROVE  Coherent(c)'
  BY <1>3, <1>6, DeliverCarries DEF DeliverEvent, Deliver
<1>7. ASSUME NEW e \in CRs, UserDelete(e)
      PROVE  Coherent(c)'
  <2>1. api[c] # Nil
    <3>1. PICK o : Publish(e, o) /\ api[e] # Nil
      BY <1>7 DEF UserDelete, Remove
    <3> QED
      BY <3>1, PublishOthers DEF IInv, TypeOK
  <2> QED
    BY <1>3, <1>7, <2>1, UserDeleteCarries
<1>8. ASSUME NEW e \in CRs, NEW d \in Docs, UserCreate(e, d) \/ UserEdit(e, d)
      PROVE  Coherent(c)'
  <2>1. CASE e = c
    BY <1>2, <1>8, <2>1, SpecifiedCoherent
  <2>2. CASE e # c
    <3>1. PICK o : Publish(e, o) /\ ctl' = ctl
      BY <1>8 DEF UserCreate, UserEdit, Create, Edit
    <3>2. api'[c] = api[c]
      BY <2>2, <3>1, PublishOthers DEF IInv, TypeOK
    <3>3. Sees(c)
      BY <1>8, UserSees
    <3> QED
      BY <1>3, <3>1, <3>2, <3>3, AsideCarries DEF Busy
  <2> QED
    BY <2>1, <2>2
<1> QED
  BY <1>4, <1>5, <1>6, <1>7, <1>8 DEF Environment

\* What is recorded as current for a settled resource can be compared.
LEMMA CalmRecords == Calm => RecordedParses
BY DEF Calm, Settled, Coherent, RecordedParses

-----------------------------------------------------------------------------
(* Resources that are given no name in common *)

\* mine[c] are the documents that users ever write to the resource c.
Own(mine) == \A c \in CRs : api[c] # Nil => api[c].doc \in mine[c]

NamesApart(mine) ==
    \A c, e \in CRs : c # e =>
      \A d \in mine[c], f \in mine[e] : Parses(d) => NameOf[d] # NameOf[f]

\* A version of c that anyone has or will receive is of such a document, and
\* so is the name that the reconcile under way sends to Pinot.
Owned(mine) ==
    \A c \in CRs :
      /\ \A o \in {cache[c]} \cup Events(c) \cup Held(c) : o # Nil => o.doc \in mine[c]
      /\ Busy(c) => \E d \in mine[c] : NameOf[d] = ctl.path

LEMMA InitOwned ==
    ASSUME NEW mine, Init
    PROVE  Owned(mine)
<1>1. \A c \in CRs : cache[c] = Nil /\ watch[c] = <<>> /\ ~Busy(c)
  BY IdleWorker DEF Init, ApiInit, Busy
<1> QED
  BY <1>1, EmptyEvents DEF Owned, Held

LEMMA SeesOwned ==
    ASSUME NEW mine, IInv', Own(mine)', Owned(mine), \A c \in CRs : Sees(c)
    PROVE  Owned(mine)'
<1> SUFFICES ASSUME NEW c \in CRs
             PROVE  /\ \A o \in {cache'[c]} \cup Events(c)' \cup Held(c)' :
                         o # Nil => o.doc \in mine[c]
                    /\ Busy(c)' => \E d \in mine[c] : NameOf[d] = ctl'.path
  BY DEF Owned
<1>1. \A o \in Events(c)' \cup {cache'[c]} : o # Nil => o.doc \in mine[c]
  BY DEF Sees, Owned, Own
<1>2. ASSUME Busy(c)'
      PROVE  /\ ctl'.obj # Nil /\ ctl'.obj.doc \in mine[c]
             /\ \E d \in mine[c] : NameOf[d] = ctl'.path
  <2>1. ctl'.obj \in Objects
    BY <1>2, IdleWorker DEF IInv, TypeOK, Workers, Working, Busy
  <2>2. ctl'.obj # Nil /\ ctl'.obj.doc \in mine[c]
    BY <1>2, <2>1, ApiServerAssumption DEF Sees, Owned, Held
  <2> QED
    BY <1>2, <2>2 DEF Sees, Owned
<1> QED
  BY <1>1, <1>2 DEF Held

\* Pinot serves and holds as before what d and its name ask for.
Unmoved(d) ==
    Parses(d) => \A r \in Roles : pinot'[<<NameOf[d], r>>] = pinot[<<NameOf[d], r>>]

\* A reconcile of one resource leaves the names of the others alone.
LEMMA OthersUnmoved ==
    ASSUME NEW mine, NamesApart(mine), IInv, Owned(mine), ctl \in Working,
           NEW roles, NEW answer,
           \E n \in {ctl.path, NameOf[ctl.obj.doc]} :
             \/ Get(n, answer) \/ Post(ctl.obj.doc, answer) \/ Put(n, ctl.obj.doc, answer)
             \/ Delete(ctl.path, roles, answer),
           NEW c \in CRs, c # ctl.cr, NEW d \in Docs \cap mine[c]
    PROVE  Unmoved(d)
<1> SUFFICES ASSUME Parses(d), NEW r \in Roles
             PROVE  pinot'[<<NameOf[d], r>>] = pinot[<<NameOf[d], r>>]
  BY DEF Unmoved
<1>1. /\ ctl.cr \in CRs /\ ctl.path \in Names
      /\ ctl.obj \in Objects /\ ctl.obj.doc \in Docs
  BY DEF Working, Objects
<1>2. ctl.obj.doc \in mine[ctl.cr] /\ \E f \in mine[ctl.cr] : NameOf[f] = ctl.path
  BY <1>1, ApiServerAssumption DEF Owned, Busy, Held
<1>3. NameOf[d] \in Names /\ NameOf[d] # ctl.path /\ NameOf[d] # NameOf[ctl.obj.doc]
  BY <1>1, <1>2, DocumentsAssumption DEF NamesApart, Parses
<1>4. With(ctl.obj.doc)[<<NameOf[d], r>>] = pinot[<<NameOf[d], r>>]
  BY <1>3 DEF With, IInv, TypeOK, PinotTypeOK
<1>5. Without(ctl.path, roles)[<<NameOf[d], r>>] = pinot[<<NameOf[d], r>>]
  BY <1>3 DEF Without
<1> QED
  BY <1>4, <1>5 DEF Get, Post, Put, Delete, Change, Refuse, pinotVars

-----------------------------------------------------------------------------
(* What Pinot has for a resource whose names are its own *)

(***************************************************************************)
(* Three claims about the messages of a status.  Of schemas and tenants:   *)
(* every failure is "reported".  Of tables, whose POST is recorded as      *)
(* CreateSuccess even when Pinot refused it: whatever the message, but for *)
(* UpdateFail, the table is as "created" or not there; and it is as        *)
(* "updated" if the message is not that of a creation either.              *)
(***************************************************************************)
Claims == {"reported", "created", "updated"}

Fails(claim) ==
    CASE claim = "reported" -> {"CreateFail", "UpdateFail"}
      [] claim = "created" -> {"UpdateFail"}
      [] claim = "updated" -> {"CreateSuccess", "UpdateFail"}

\* Pinot serves d, or when POST may have failed unnoticed, nothing in its place.
Good(d, claim) == ServedFor(d) = d \/ (claim = "created" /\ ServedFor(d) = Nil)

Recorded(c) == Busy(c) /\ ctl.pc \in {"reread", "patch"}

\* The outcome on its way into the status of c is not a failure.
Succeeded(c, claim) == Recorded(c) /\ ctl.msg \notin Fails(claim)

\* Of a settled resource that is not being deleted: the outcome in the status,
\* or on its way there, tells what Pinot serves; so does the status of every
\* older copy that a patch may be made from.
Kept(c, claim) ==
    /\ api[c].msg # "" => api[c].current # Nil
    /\ Recorded(c) => ctl.msg # ""
    /\ Busy(c) /\ ctl.pc = "post" => ~Holds(NameOf[api[c].doc])
    /\ Succeeded(c, claim) => Good(api[c].doc, claim)
    /\ \A o \in Copies(c) :
         /\ o.msg \in Fails(claim) /\ api[c].msg \notin Fails(claim) => Good(api[c].doc, claim)
         /\ o.current = Nil /\ Taken(api[c].doc) => ServedFor(api[c].doc) = api[c].doc
    /\ api[c].current # Nil /\ api[c].msg \notin Fails(claim) =>
         /\ Good(api[c].current, claim) \/ Succeeded(c, claim)
         /\ claim # "created" => ServedFor(api[c].current) # Nil

\* Of one that is: a reconcile either has the version before the deletion, and
\* finds nothing to do, or the last one, and then nothing comes between.
Ending(c) ==
    /\ api[c].fin /\ api[c].current = api[c].doc /\ Parses(api[c].doc)
    /\ \A o \in Copies(c) : o.fin /\ o.current = o.doc
    /\ watch[c] # <<>> => Len(watch[c]) = 1 /\ ~cache[c].deleting
    /\ Busy(c) => ctl.pc \in {"get", "delete", "unfin"} /\ (ctl.obj.deleting => c \in uptodate)
    /\ ServedFor(api[c].doc) = api[c].doc \/ (Busy(c) /\ ctl.pc = "unfin")

Fits(c, mine, claim) ==
    /\ api[c].current = Nil \/ api[c].current \in mine[c]
    /\ IF api[c].deleting THEN Ending(c) ELSE Kept(c, claim)

Alone(mine, claim) == \A c \in CRs : Settled(c) => Fits(c, mine, claim)

LEMMA UnmovedServes ==
    ASSUME NEW d \in Docs \cup {Nil}, Unmoved(d)
    PROVE  /\ ServedFor(d)' = ServedFor(d)
           /\ Taken(d)' = Taken(d)
           /\ Parses(d) => Holds(NameOf[d])' = Holds(NameOf[d])
           /\ \A claim : Good(d, claim)' = Good(d, claim)
<1>1. ServedFor(d)' = ServedFor(d)
  BY DocumentsAssumption DEF Unmoved, ServedFor, Parses
<1>2. Parses(d) => Holds(NameOf[d])' = Holds(NameOf[d])
  BY DEF Unmoved, Holds
<1>3. Taken(d)' = Taken(d)
  BY <1>2 DEF Taken, Parses, GetValueFromJson, Unmoved, Holds
<1> QED
  BY <1>1, <1>2, <1>3 DEF Good

\* The step leaves what c is, and what Pinot has for it, and no outcome gets
\* lost or comes up.
LEMMA KeptStays ==
    ASSUME NEW c \in CRs, NEW claim \in Claims, Kept(c, claim),
           api[c] \in Objects, api'[c] \in Objects,
           api'[c].doc = api[c].doc, api'[c].current = api[c].current, api'[c].msg = api[c].msg,
           Copies(c)' \subseteq Copies(c) \cup {api'[c]},
           Unmoved(api[c].doc), Unmoved(api[c].current),
           Recorded(c)' <=> Recorded(c), Recorded(c) => ctl'.msg = ctl.msg,
           Busy(c)' /\ ctl'.pc = "post" => Busy(c) /\ ctl.pc = "post" /\ Parses(api[c].doc)
    PROVE  Kept(c, claim)'
<1> PICK d \in Docs : d = api[c].doc
  BY DEF Objects
<1> PICK u \in Docs \cup {Nil} : u = api[c].current
  BY DEF Objects
<1>1. /\ ServedFor(d)' = ServedFor(d) /\ Good(d, claim)' = Good(d, claim)
      /\ Taken(d)' = Taken(d) /\ (Parses(d) => Holds(NameOf[d])' = Holds(NameOf[d]))
      /\ ServedFor(u)' = ServedFor(u) /\ Good(u, claim)' = Good(u, claim)
  BY UnmovedServes
<1>2. Succeeded(c, claim)' = Succeeded(c, claim)
  BY DEF Succeeded, Fails
<1>3. /\ api'[c].msg # "" => api'[c].current # Nil
      /\ Recorded(c)' => ctl'.msg # ""
      /\ Busy(c)' /\ ctl'.pc = "post" => ~Holds(NameOf[d])'
      /\ Succeeded(c, claim)' => Good(d, claim)'
  BY <1>1, <1>2 DEF Kept
<1>4. ASSUME NEW o \in Copies(c)'
      PROVE  /\ o.msg \in Fails(claim) /\ api'[c].msg \notin Fails(claim) => Good(d, claim)'
             /\ o.current = Nil /\ Taken(d)' => ServedFor(d)' = d
  <2>1. api[c] \in Copies(c)
    BY ApiServerAssumption DEF Copies
  <2>2. CASE o \in Copies(c)
    BY <1>1, <2>2 DEF Kept
  <2>3. CASE o = api'[c]
    BY <1>1, <2>1, <2>3 DEF Kept
  <2> QED
    BY <1>4, <2>2, <2>3
<1>5. u # Nil /\ api'[c].msg \notin Fails(claim) =>
        /\ Good(u, claim)' \/ Succeeded(c, claim)'
        /\ claim # "created" => ServedFor(u)' # Nil
  BY <1>1, <1>2 DEF Kept
<1>6. /\ Good(d, claim)' = Good(api[c].doc, claim)' /\ Taken(d)' = Taken(api[c].doc)'
      /\ ServedFor(d)' = ServedFor(api[c].doc)' /\ Holds(NameOf[d])' = Holds(NameOf[api[c].doc])'
      /\ Good(u, claim)' = Good(api[c].current, claim)'
      /\ ServedFor(u)' = ServedFor(api[c].current)'
  BY DEF Good, Taken, ServedFor, Holds, Parses, GetValueFromJson
<1>7. Fails(claim)' = Fails(claim)
  BY DEF Fails
<1> QED
  BY <1>3, <1>4, <1>5, <1>6, <1>7 DEF Kept

\* What the request of a reconcile of c may do: nothing in Pinot, or set its
\* document and record a success or, where a success may count for nothing,
\* create it; and an outcome it records is a true one.
Answered(c, claim) ==
    LET d == api[c].doc
    IN  /\ \/ UNCHANGED pinot
           \/ /\ Parses(d) /\ pinot' = With(d)
              /\ Succeeded(c, claim)' \/ (claim # "created" /\ ~Holds(NameOf[d]))
        /\ Recorded(c)' => ctl'.msg # ""
        /\ Succeeded(c, claim)' => Good(api[c].doc, claim)'
        /\ Busy(c)' /\ ctl'.pc = "post" => UNCHANGED pinot /\ ~Holds(NameOf[d])

LEMMA WithServes ==
    ASSUME PinotTypeOK, NEW d \in Docs, Parses(d), pinot' = With(d)
    PROVE  /\ ServedFor(d)' = d
           /\ \A u \in Docs \cup {Nil} : ServedFor(u)' \in {ServedFor(u), d}
           /\ \A u \in Docs \cup {Nil} :
                ServedFor(u) # Nil /\ ~Holds(NameOf[d]) => ServedFor(u)' = ServedFor(u)
<1>1. <<NameOf[d], RoleOf[d]>> \in Names \X Roles
  BY DocumentsAssumption DEF Parses
<1>2. pinot'[<<NameOf[d], RoleOf[d]>>] = d
  BY <1>1 DEF With, PinotTypeOK
<1>3. \A k : k \in Names \X Roles => pinot'[k] \in {pinot[k], d}
  BY DEF With, PinotTypeOK
<1>4. ASSUME NEW u \in Docs \cup {Nil}
      PROVE  ServedFor(u)' \in {ServedFor(u), d}
  <2>1. CASE Parses(u)
    <3>1. <<NameOf[u], RoleOf[u]>> \in Names \X Roles
      BY <2>1, DocumentsAssumption DEF Parses
    <3> QED
      BY <1>3, <2>1, <3>1 DEF ServedFor, Parses
  <2>2. CASE ~Parses(u)
    BY <2>2 DEF ServedFor, Parses
  <2> QED
    BY <2>1, <2>2
<1>5. ASSUME NEW u \in Docs \cup {Nil}, ServedFor(u) # Nil, ~Holds(NameOf[d])
      PROVE  ServedFor(u)' = ServedFor(u)
  <2>1. Parses(u) /\ <<NameOf[u], RoleOf[u]>> \in Names \X Roles
    BY <1>5, DocumentsAssumption DEF ServedFor, Parses
  <2>2. <<NameOf[u], RoleOf[u]>> # <<NameOf[d], RoleOf[d]>>
    BY <1>5, <2>1 DEF ServedFor, Holds
  <2>3. pinot'[<<NameOf[u], RoleOf[u]>>] = pinot[<<NameOf[u], RoleOf[u]>>]
    BY <2>1, <2>2 DEF With, PinotTypeOK
  <2> QED
    BY <2>1, <2>3 DEF ServedFor, Parses
<1> QED
  BY <1>2, <1>4, <1>5 DEF ServedFor, Parses

LEMMA KeptRequest ==
    ASSUME PinotTypeOK, NEW c \in CRs, NEW claim \in Claims, Kept(c, claim),
           UNCHANGED api, api[c] \in Objects,
           Copies(c)' \subseteq Copies(c),
           ~Recorded(c), Answered(c, claim)
    PROVE  Kept(c, claim)'
<1> PICK d \in Docs : d = api[c].doc
  BY DEF Objects
<1> PICK u \in Docs \cup {Nil} : u = api[c].current
  BY DEF Objects
<1>1. \/ UNCHANGED pinot
      \/ /\ ServedFor(d)' = d /\ ServedFor(u)' \in {ServedFor(u), d}
         /\ \/ Succeeded(c, claim)'
            \/ claim # "created" /\ (ServedFor(u) # Nil => ServedFor(u)' = ServedFor(u))
  BY WithServes DEF Answered
<1>2. UNCHANGED pinot =>
        /\ ServedFor(d)' = ServedFor(d) /\ Good(d, claim)' = Good(d, claim)
        /\ Taken(d)' = Taken(d) /\ Holds(NameOf[d])' = Holds(NameOf[d])
        /\ ServedFor(u)' = ServedFor(u) /\ Good(u, claim)' = Good(u, claim)
  BY DEF ServedFor, Good, Taken, Holds, Parses, GetValueFromJson
<1>3. ServedFor(d)' = d => Good(d, claim)'
  BY DEF Good
<1>4. /\ Good(d, claim)' = Good(api[c].doc, claim)' /\ Taken(d)' = Taken(api[c].doc)'
      /\ ServedFor(d)' = ServedFor(api[c].doc)' /\ Holds(NameOf[d])' = Holds(NameOf[api[c].doc])'
      /\ Good(u, claim)' = Good(api[c].current, claim)'
      /\ ServedFor(u)' = ServedFor(api[c].current)'
  BY DEF Good, Taken, ServedFor, Holds, Parses, GetValueFromJson
<1>5. Fails(claim)' = Fails(claim)
  BY DEF Fails
<1>6. /\ api'[c].msg # "" => api'[c].current # Nil
      /\ Recorded(c)' => ctl'.msg # ""
      /\ Busy(c)' /\ ctl'.pc = "post" => ~Holds(NameOf[d])'
      /\ Succeeded(c, claim)' => Good(d, claim)'
  BY <1>2, <1>4 DEF Kept, Answered
<1>7. ASSUME NEW o \in Copies(c)'
      PROVE  /\ o.msg \in Fails(claim) /\ api'[c].msg \notin Fails(claim) => Good(d, claim)'
             /\ o.current = Nil /\ Taken(d)' => ServedFor(d)' = d
  BY <1>1, <1>2, <1>3, <1>7 DEF Kept
<1>8. u # Nil /\ api'[c].msg \notin Fails(claim) =>
        /\ Good(u, claim)' \/ Succeeded(c, claim)'
        /\ claim # "created" => ServedFor(u)' # Nil
  <2>1. d # Nil
    BY DocumentsAssumption
  <2>2. ~Succeeded(c, claim)
    BY DEF Succeeded
  <2>3. u # Nil /\ api[c].msg \notin Fails(claim) =>
          Good(u, claim) /\ (claim # "created" => ServedFor(u) # Nil)
    BY <2>2 DEF Kept
  <2>4. CASE UNCHANGED pinot
    BY <1>2, <2>3, <2>4
  <2>5. CASE claim # "created" /\ (ServedFor(u) # Nil => ServedFor(u)' = ServedFor(u))
    <3>1. Good(u, claim) => ServedFor(u) = u
      BY <2>5 DEF Good
    <3>2. ServedFor(u)' = u => Good(u, claim)'
      BY DEF Good
    <3> QED
      BY <2>3, <2>5, <3>1, <3>2
  <2>6. CASE Succeeded(c, claim)' /\ ServedFor(u)' \in {ServedFor(u), d}
    BY <2>1, <2>3, <2>6
  <2> QED
    BY <1>1, <2>4, <2>5, <2>6
<1> QED
  BY <1>4, <1>5, <1>6, <1>7, <1>8 DEF Kept

\* The patch: what it records is true, even where it does not write the field
\* because the copy it started from has the same.
LEMMA KeptPatch ==
    ASSUME IInv, NEW c \in CRs, NEW claim \in Claims, Busy(c), Kept(c, claim), Coherent(c),
           Patch, api'[c] # Nil
    PROVE  api'[c].current = api[c].doc /\ Kept(c, claim)'
<1> USE DEF IInv, TypeOK
<1>1. /\ ctl \in Working /\ ctl.cr = c /\ ctl.obj \in Objects /\ ctl.msg \in Messages
      /\ ctl.pc = "patch"
  BY AtCall DEF Patch, Working, Busy
<1> PICK base \in Objects : base = ctl.obj
  BY <1>1
<1>2. base \in Copies(c) /\ base.doc = api[c].doc
  BY <1>1, ApiServerAssumption DEF Copies, Held, Busy, Coherent, SameSpec
<1>3. api[c] # Nil /\ PatchStatus(c, base, ctl.msg)
  <2>1. api[ctl.cr] = Nil => UNCHANGED api
    BY DEF Patch, apiVars
  <2> QED
    BY <1>1, <2>1 DEF Patch
<1> PICK d \in Docs : d = api[c].doc
  BY <1>3 DEF ApiTypeOK, Objects
<1>4. /\ api'[c] \in Objects /\ api'[c].doc = d /\ api'[c].current = d
      /\ api'[c].msg = IF ctl.msg = base.msg THEN api[c].msg ELSE ctl.msg
  BY <1>1, <1>2, <1>3, PatchRecords DEF Coherent, NoneAhead
<1>5. ctl'.pc \in {"idle", "put", "addfin", "delete"} /\ UNCHANGED pinot
  <2>1. ctl' \in {Comparing(ctl), Finalizing(ctl)}
    BY <1>1, <1>3 DEF Patch
  <2> QED
    BY <1>1, <2>1, ComparingEffect, FinalizingEffect DEF Patch, pinotVars
<1>6. ~Recorded(c)' /\ ~(Busy(c)' /\ ctl'.pc = "post")
  BY <1>5 DEF Recorded
<1>7. Copies(c)' \subseteq Copies(c) \cup {api'[c]}
  BY <1>4, PatchSees, SeenCopies
<1>8. /\ ServedFor(d)' = ServedFor(d) /\ Good(d, claim)' = Good(d, claim)
      /\ Taken(d)' = Taken(d)
      /\ Good(d, claim)' = Good(api[c].doc, claim)' /\ Taken(d)' = Taken(api[c].doc)'
      /\ ServedFor(d)' = ServedFor(api[c].doc)'
      /\ Good(d, claim)' = Good(api[c].current, claim)'
      /\ ServedFor(d)' = ServedFor(api[c].current)'
  BY <1>4, <1>5 DEF ServedFor, Good, Taken, Holds, Parses, GetValueFromJson
<1>9. Fails(claim)' = Fails(claim)
  BY DEF Fails
<1>10. api'[c].msg \notin Fails(claim) => Good(d, claim)
  <2>1. CASE ctl.msg \notin Fails(claim)
    <3>1. Succeeded(c, claim)
      BY <1>1, <2>1 DEF Succeeded, Recorded
    <3> QED
      BY <3>1 DEF Kept
  <2>2. CASE ctl.msg \in Fails(claim)
    BY <1>2, <1>4, <2>2 DEF Kept
  <2> QED
    BY <2>1, <2>2
<1>11. ASSUME NEW o \in Copies(c)'
      PROVE  /\ o.msg \in Fails(claim) /\ api'[c].msg \notin Fails(claim) => Good(d, claim)'
             /\ o.current = Nil /\ Taken(d)' => ServedFor(d)' = d
  <2>1. CASE o \in Copies(c)
    BY <1>8, <1>10, <2>1 DEF Kept
  <2>2. CASE o = api'[c]
    BY <1>4, <2>2, DocumentsAssumption
  <2> QED
    BY <1>7, <1>11, <2>1, <2>2
<1>12. claim # "created" /\ Good(d, claim) => ServedFor(d) # Nil
  BY DocumentsAssumption DEF Good
<1>13. api'[c].current # Nil
  BY <1>4, DocumentsAssumption
<1> QED
  BY <1>4, <1>6, <1>8, <1>9, <1>10, <1>11, <1>12, <1>13 DEF Kept, Succeeded

\* A calm create or edit of a resource at rest.
LEMMA KeptSpecified ==
    ASSUME IInv, NEW c \in CRs, NEW d \in Docs, UserCreate(c, d) \/ UserEdit(c, d),
           c \notin disturbed', NEW mine, Own(mine)', NEW claim \in Claims,
           Settled(c) => Coherent(c) /\ Fits(c, mine, claim)
    PROVE  Fits(c, mine, claim)'
<1> api'[c] \in Objects /\ api'[c].doc = d /\ Events(c)' = {api'[c]} /\ UNCHANGED pinot
    /\ ~api'[c].deleting /\ (cache'[c] = Nil \/ cache'[c].doc # d)
  BY UserSpecifies
<1> ~Busy(c)'
  BY UserSpecifies DEF Busy
<1> Copies(c)' = {api'[c]}
  BY OnlyCopy
<1> Fails(claim)' = Fails(claim)
  BY DEF Fails
<1>1. CASE UserCreate(c, d)
  <2>1. api'[c].current = Nil /\ api'[c].msg = "" /\ ~Taken(d)
    BY <1>1, UserSpecifies
  <2>2. ~Taken(api[c].doc)'
    BY <2>1 DEF Taken, Holds, Parses, GetValueFromJson
  <2>3. "" \notin Fails(claim)
    BY DEF Claims, Fails
  <2> QED
    BY <2>1, <2>2, <2>3 DEF Fits, Kept, Recorded, Succeeded, Taken
<1>2. CASE ~UserCreate(c, d)
  <2>1. /\ api[c] \in Objects
        /\ api'[c].current = api[c].current /\ api'[c].msg = api[c].msg
        /\ ~api[c].deleting /\ (api[c].current = Nil => ~Taken(d))
        /\ ~Busy(c)
    BY <1>2, UserSpecifies DEF Quiet
  <2>2. Settled(c)
    BY <1>2, <2>1, ApiServerAssumption DEF UserEdit, Note, Settled
  <2>3. Kept(c, claim) /\ (api[c].current = Nil \/ api[c].current \in mine[c])
    BY <2>1, <2>2 DEF Fits
  <2>4. ~Succeeded(c, claim) /\ ~Recorded(c)' /\ ~Succeeded(c, claim)'
    BY <2>1 DEF Succeeded, Recorded
  <2>5. PICK u : u = api[c].current
    OBVIOUS
  <2>6. Good(u, claim)' = Good(u, claim) /\ ServedFor(u)' = ServedFor(u)
    BY DEF Good, ServedFor, Parses
  <2>7. api'[c].current # Nil /\ api'[c].msg \notin Fails(claim) =>
          /\ Good(api[c].current, claim)'
          /\ claim # "created" => ServedFor(api[c].current)' # Nil
    <3>1. u # Nil /\ api[c].msg \notin Fails(claim) =>
            Good(u, claim) /\ (claim # "created" => ServedFor(u) # Nil)
      BY <2>3, <2>4, <2>5 DEF Kept
    <3>2. Good(u, claim)' = Good(api[c].current, claim)'
      BY <2>1, <2>5
    <3> QED
      BY <2>1, <2>5, <2>6, <3>1 DEF Good, ServedFor, Parses
  <2>8. api[c].current = Nil => ~Taken(api[c].doc)'
    BY <2>1 DEF Taken, Holds, Parses, GetValueFromJson
  <2>9. api'[c].msg # "" => api'[c].current # Nil
    BY <2>1, <2>3 DEF Kept
  <2> QED
    BY <2>1, <2>3, <2>4, <2>7, <2>8, <2>9 DEF Fits, Kept, Taken
<1> QED
  BY <1>1, <1>2

LEMMA EndingGoesOn ==
    ASSUME NEW c \in CRs, Ending(c), api'[c] = api[c],
           Copies(c)' \subseteq Copies(c),
           watch'[c] = <<>> \/ (watch'[c] = watch[c] /\ cache'[c] = cache[c]),
           Busy(c)' => /\ ctl'.pc \in {"get", "delete", "unfin"}
                       /\ ctl'.obj.deleting => c \in uptodate',
           ServedFor(api[c].doc)' = api[c].doc \/ (Busy(c)' /\ ctl'.pc = "unfin")
    PROVE  Ending(c)'
<1>1. \A o \in Copies(c)' : o.fin /\ o.current = o.doc
  BY DEF Ending
<1>2. ServedFor(api[c].doc)' = api'[c].doc \/ (Busy(c)' /\ ctl'.pc = "unfin")
  BY DEF ServedFor, Parses
<1> QED
  BY <1>1, <1>2 DEF Ending, Parses

\* A calm deletion of a resource at rest.
LEMMA EndingBegins ==
    ASSUME IInv, NEW c \in CRs, UserDelete(c), c \notin disturbed', c \notin disturbed,
           api'[c] # Nil
    PROVE  Ending(c)' /\ api'[c].deleting /\ api'[c].current = api[c].current
<1> USE DEF IInv, TypeOK
<1>1. /\ AtRest(c) /\ UNCHANGED <<pinot, ctl>>
      /\ api[c] \in Objects /\ api[c].fin /\ api[c].current = api[c].doc
      /\ Parses(api[c].doc) /\ ServedFor(api[c].doc) = api[c].doc
  BY DEF UserDelete, Note, AtRest, ApiTypeOK, pinotVars
<1>2. watch[c] = <<>> /\ ~Busy(c) /\ cache[c] = api[c]
  BY <1>1 DEF AtRest, Quiet, CopiesAreVersions, CacheFollows
<1> PICK new : new = [api[c] EXCEPT !.deleting = TRUE]
  OBVIOUS
<1>3. Publish(c, new) /\ ~api[c].deleting
  BY <1>1 DEF UserDelete, Remove
<1>4. /\ new \in Objects /\ new.doc = api[c].doc /\ new.current = api[c].current
      /\ new.fin /\ new.deleting
  BY <1>1 DEF Objects
<1>5. api'[c] = new /\ cache' = cache /\ Events(c)' = Events(c) \cup {new}
  BY <1>3, <1>4, PublishEvents
<1>6. Copies(c)' \subseteq {new, api[c]}
  BY <1>1, <1>2, <1>5, EmptyEvents DEF Copies, Held, Busy
<1>7. Len(watch'[c]) = 1
  <2>1. watch'[c] = Append(<<>>, new)
    BY <1>2, <1>3 DEF Publish, ApiTypeOK
  <2> QED
    BY <2>1
<1>8. ServedFor(new.doc)' = new.doc
  BY <1>1, <1>4, DocumentsAssumption DEF ServedFor, Parses
<1>9. ~Busy(c)' /\ ~cache'[c].deleting
  BY <1>1, <1>2, <1>3, <1>5 DEF Busy
<1>10. ServedFor(new.doc)' = ServedFor(api[c].doc)'
  BY <1>5 DEF ServedFor, Parses
<1> QED
  BY <1>1, <1>4, <1>5, <1>6, <1>7, <1>8, <1>9, <1>10 DEF Ending, Parses

\* The step writes nothing for c, and makes no copy of it out of date.
Spares(c) ==
    /\ api'[c] = api[c]
    /\ c \in uptodate => c \in uptodate'
    /\ api[c].deleting => watch'[c] = <<>> \/ (watch'[c] = watch[c] /\ cache'[c] = cache[c])

LEMMA PublishSpares ==
    ASSUME ApiTypeOK, NEW e \in CRs, NEW c \in CRs \ {e}, NEW o, Publish(e, o)
    PROVE  Spares(c)
BY DEF ApiTypeOK, Publish, Spares

LEMMA ReadSpares ==
    ASSUME NEW e \in CRs, NEW c \in CRs \ {e}, Read(e)
    PROVE  Spares(c)
BY DEF Read, Spares

LEMMA SparedCopies ==
    ASSUME NEW c \in CRs, api[c] # Nil, Sees(c), api'[c] = api[c]
    PROVE  Copies(c)' \subseteq Copies(c)
BY SeenCopies DEF Copies

\* A step that has nothing to do with c.
LEMMA StaysFit ==
    ASSUME IInv, NEW c \in CRs, NEW mine, NEW claim \in Claims,
           Settled(c), Coherent(c), Fits(c, mine, claim),
           Sees(c), Spares(c), Unmoved(api[c].doc), Unmoved(api[c].current),
           ctl' = ctl \/ (~Busy(c) /\ ~Busy(c)')
    PROVE  Fits(c, mine, claim)'
<1>1. api[c] \in Objects /\ api'[c] = api[c]
  BY DEF Settled, IInv, TypeOK, ApiTypeOK, Spares
<1>2. Copies(c)' \subseteq Copies(c)
  BY <1>1, SparedCopies DEF Settled
<1>3. CASE ~api[c].deleting
  <2>1. /\ Recorded(c)' <=> Recorded(c)
        /\ Recorded(c) => ctl'.msg = ctl.msg
        /\ Busy(c)' /\ ctl'.pc = "post" => Busy(c) /\ ctl.pc = "post" /\ Parses(api[c].doc)
    BY DEF Recorded, Busy, Coherent, SameSpec
  <2>2. Kept(c, claim)
    BY <1>3 DEF Fits
  <2>3. Kept(c, claim)'
    BY <1>1, <1>2, <2>1, <2>2, KeptStays
  <2> QED
    BY <1>1, <1>3, <2>3 DEF Fits
<1>4. CASE api[c].deleting
  <2>1. Ending(c)
    BY <1>4 DEF Fits
  <2>2. /\ watch'[c] = <<>> \/ (watch'[c] = watch[c] /\ cache'[c] = cache[c])
        /\ c \in uptodate => c \in uptodate'
    BY <1>4 DEF Spares
  <2>3. Busy(c)' => Busy(c) /\ ctl' = ctl
    BY DEF Busy
  <2>4. PICK d \in Docs : d = api[c].doc
    BY <1>1 DEF Objects
  <2>5. ServedFor(d)' = ServedFor(d) /\ ServedFor(d)' = ServedFor(api[c].doc)'
    BY <1>1, <2>4, UnmovedServes DEF ServedFor, Parses
  <2>6. ServedFor(api[c].doc)' = api[c].doc \/ (Busy(c)' /\ ctl'.pc = "unfin")
    BY <2>1, <2>4, <2>5 DEF Ending, Busy
  <2>7. Busy(c)' => /\ ctl'.pc \in {"get", "delete", "unfin"}
                    /\ ctl'.obj.deleting => c \in uptodate'
    BY <2>1, <2>2, <2>3 DEF Ending
  <2>8. Ending(c)'
    BY <1>1, <1>2, <2>1, <2>2, <2>6, <2>7, EndingGoesOn
  <2> QED
    BY <1>1, <1>4, <2>8 DEF Fits
<1> QED
  BY <1>3, <1>4

\* A reconcile of c begins.
LEMMA StartFits ==
    ASSUME IInv, NEW c \in CRs, NEW mine, NEW claim \in Claims,
           Settled(c), Coherent(c), Fits(c, mine, claim), StartReconcile(c)
    PROVE  Fits(c, mine, claim)'
<1>1. api[c] \in Objects /\ UNCHANGED <<api, cache, watch, pinot>> /\ ctl = Idle
  BY DEF Settled, IInv, TypeOK, ApiTypeOK, StartReconcile, Reconcile, Read, pinotVars
<1>2. ctl'.pc = "get" /\ ctl'.obj = cache[c] /\ ~Busy(c)
  BY <1>1, IdleWorker DEF StartReconcile, Reconcile, Busy, Idle
<1>3. Copies(c)' \subseteq Copies(c)
  BY <1>1, StartSees, SparedCopies DEF Settled
<1>4. Unmoved(api[c].doc) /\ Unmoved(api[c].current)
  BY <1>1 DEF Unmoved
<1>5. CASE ~api[c].deleting
  <2>1. ~Recorded(c)' /\ ~Recorded(c) /\ ctl'.pc # "post"
    BY <1>2 DEF Recorded
  <2>2. Kept(c, claim)
    BY <1>5 DEF Fits
  <2>3. Kept(c, claim)'
    BY <1>1, <1>3, <1>4, <2>1, <2>2, KeptStays
  <2> QED
    BY <1>1, <1>5, <2>3 DEF Fits
<1>6. CASE api[c].deleting
  <2>1. Ending(c)
    BY <1>6 DEF Fits
  <2>2. ServedFor(api[c].doc)' = api[c].doc
    BY <1>1, <1>2, <2>1 DEF Ending, ServedFor, Parses
  <2>3. ctl'.obj.deleting => c \in uptodate'
    BY <1>2, <2>1 DEF Ending, StartReconcile, Reconcile, Read
  <2>4. Ending(c)'
    BY <1>1, <1>2, <1>3, <2>1, <2>2, <2>3, EndingGoesOn
  <2> QED
    BY <1>1, <1>6, <2>4 DEF Fits
<1> QED
  BY <1>5, <1>6

\* The informer gets an event of c.
LEMMA DeliverFits ==
    ASSUME IInv, NEW c \in CRs, NEW e \in CRs, NEW mine, NEW claim \in Claims,
           Settled(c), Coherent(c), Fits(c, mine, claim), DeliverEvent(e)
    PROVE  Fits(c, mine, claim)'
<1>1. UNCHANGED <<api, uptodate, pinot, ctl>>
  BY DEF DeliverEvent, Deliver, pinotVars
<1>2. api[c].deleting => watch'[c] = <<>> \/ (watch'[c] = watch[c] /\ cache'[c] = cache[c])
  <2>1. CASE c = e
    <3> SUFFICES ASSUME api[c].deleting
                 PROVE  watch'[c] = <<>>
      OBVIOUS
    <3>1. /\ watch[c] # <<>> /\ watch[c] \in Seq(Objects \cup {Nil})
          /\ watch'[c] = Tail(watch[c])
      BY <2>1 DEF DeliverEvent, Deliver, IInv, TypeOK, ApiTypeOK
    <3>2. Len(watch[c]) = 1
      BY <3>1 DEF Fits, Ending
    <3>3. Tail(watch[c]) \in Seq(Objects \cup {Nil}) /\ Len(Tail(watch[c])) = 0
      BY <3>1, <3>2
    <3> QED
      BY <3>1, <3>3, EmptyLen
  <2>2. CASE c # e
    BY <2>2 DEF DeliverEvent, Deliver, IInv, TypeOK, ApiTypeOK
  <2> QED
    BY <2>1, <2>2
<1> QED
  BY <1>1, <1>2, DeliverSees, StaysFit DEF Spares, Unmoved

-----------------------------------------------------------------------------
(* Alone is an invariant of all steps but the requests *)

LEMMA InitAlone ==
    ASSUME NEW mine, NEW claim, Init
    PROVE  Alone(mine, claim)
BY DEF Init, ApiInit, Alone, Settled

\* A step of the reconcile of another resource, or of another user.
LEMMA AsideFits ==
    ASSUME IInv, NEW c \in CRs, NEW mine, NEW claim \in Claims,
           Settled(c), Coherent(c), Fits(c, mine, claim),
           Sees(c), Spares(c), UNCHANGED pinot,
           ctl' = ctl \/ (~Busy(c) /\ ~Busy(c)')
    PROVE  Fits(c, mine, claim)'
<1>1. Unmoved(api[c].doc) /\ Unmoved(api[c].current)
  BY DEF Unmoved
<1> QED
  BY <1>1, StaysFit

LEMMA StutterFits ==
    ASSUME IInv, NEW c \in CRs, NEW mine, NEW claim \in Claims,
           Settled(c), Coherent(c), Fits(c, mine, claim), UNCHANGED vars
    PROVE  Fits(c, mine, claim)'
<1>1. Spares(c) /\ UNCHANGED <<pinot, ctl>>
  BY DEF vars, Spares
<1> QED
  BY <1>1, StutterSees, AsideFits

LEMMA CommonAside ==
    ASSUME IInv, Common, NEW c \in CRs, ~Busy(c)
    PROVE  Spares(c) /\ ~Busy(c)' /\ UNCHANGED pinot
<1> USE DEF IInv, TypeOK
<1>1. ctl \in Working /\ UNCHANGED pinot
  BY AtCall DEF Common, Reread, Patch, AddFinalizer, RemoveFinalizer, pinotVars
<1>2. /\ ctl.cr \in CRs /\ ctl.obj \in Objects /\ ctl.msg \in Messages /\ c # ctl.cr
  BY <1>1 DEF Working, Busy
<1>3. ~Busy(c)'
  <2>1. CASE Patch
    <3>1. ctl' \in {Idle, Comparing(ctl), Finalizing(ctl)}
      BY <2>1 DEF Patch
    <3>2. ctl'.cr \in {Idle.cr, ctl.cr}
      BY <1>1, <3>1, ComparingEffect, FinalizingEffect DEF Continues
    <3> QED
      BY <1>2, <3>2, IdleWorker DEF Busy
  <2>2. CASE Reread
    <3>1. ctl' = Idle \/ ctl' = [ctl EXCEPT !.pc = "patch", !.obj = cache[ctl.cr]]
      BY <2>2 DEF Reread
    <3>2. ctl'.cr \in {Idle.cr, ctl.cr}
      BY <1>1, <3>1 DEF Working
    <3> QED
      BY <1>2, <3>2, IdleWorker DEF Busy
  <2>3. CASE AddFinalizer \/ RemoveFinalizer
    BY <2>3, IdleWorker DEF AddFinalizer, RemoveFinalizer, Busy
  <2> QED
    BY <2>1, <2>2, <2>3 DEF Common
<1>4. CASE Reread
  BY <1>1, <1>2, <1>3, <1>4, ReadSpares DEF Reread
<1>5. CASE UNCHANGED apiVars
  BY <1>1, <1>3, <1>5 DEF apiVars, Spares
<1>6. ASSUME NEW o, Publish(ctl.cr, o)
      PROVE  Spares(c)
  BY <1>2, <1>6, PublishSpares
<1>7. Reread \/ UNCHANGED apiVars \/ \E o : Publish(ctl.cr, o)
  BY DEF Common, Patch, PatchStatus, AddFinalizer, RemoveFinalizer, Update
<1> QED
  BY <1>1, <1>3, <1>4, <1>5, <1>6, <1>7

\* The resource whose reconcile makes the call is not being deleted.
LEMMA CommonLive ==
    ASSUME IInv, Common, NEW mine, Own(mine), NEW claim \in Claims, NEW c \in CRs, Busy(c),
           Settled(c), Coherent(c), Fits(c, mine, claim), ~api[c].deleting, api'[c] # Nil
    PROVE  Fits(c, mine, claim)'
<1> USE DEF IInv, TypeOK
<1>1. /\ ctl \in Working /\ UNCHANGED pinot /\ c = ctl.cr /\ ctl.obj \in Objects
      /\ api[c] \in Objects
  BY AtCall
  DEF Common, Reread, Patch, AddFinalizer, RemoveFinalizer, pinotVars, Working, Busy, Settled, ApiTypeOK
<1>2. Kept(c, claim) /\ Unmoved(api[c].doc) /\ Unmoved(api[c].current)
  BY <1>1 DEF Fits, Unmoved
<1>3. CASE Reread
  <2>1. cache[c] # Nil /\ UNCHANGED api /\ ctl' = [ctl EXCEPT !.pc = "patch", !.obj = cache[c]]
    BY <1>1, <1>3 DEF Reread, Read, Coherent, SameSpec
  <2>2. ctl.pc = "reread" /\ ctl'.pc = "patch" /\ ctl'.msg = ctl.msg /\ ctl'.cr = c
    BY <1>1, <1>3, <2>1 DEF Reread, Working
  <2>3. Recorded(c) /\ Recorded(c)'
    BY <2>2 DEF Recorded, Busy
  <2>4. Copies(c)' \subseteq Copies(c)
    BY <1>3, <2>1, RereadSees, SparedCopies DEF Settled
  <2>5. Kept(c, claim)'
    BY <1>1, <1>2, <2>1, <2>2, <2>3, <2>4, KeptStays
  <2> QED
    BY <2>1, <2>5 DEF Fits
<1>4. CASE Patch
  <2>1. api'[c].current = api[c].doc /\ Kept(c, claim)'
    BY <1>2, <1>4, KeptPatch
  <2>2. api'[c].deleting = api[c].deleting /\ api[c].doc \in mine[c]
    BY <1>1, <1>4, PatchKeepsDeleting DEF Own, Settled
  <2> QED
    BY <2>1, <2>2 DEF Fits
<1>5. CASE AddFinalizer
  <2>1. ctl' = Idle /\ ctl.pc = "addfin" /\ Update(ctl.cr, [ctl.obj EXCEPT !.fin = TRUE])
    BY <1>5 DEF AddFinalizer
  <2>2. ~Busy(c)' /\ ~Recorded(c) /\ ~Recorded(c)'
    BY <2>1, IdleWorker DEF Busy, Recorded
  <2>3. /\ api'[c] \in Objects
        /\ api'[c].doc = api[c].doc /\ api'[c].current = api[c].current
        /\ api'[c].msg = api[c].msg /\ api'[c].deleting = api[c].deleting
    <3> PICK new : new = [api[c] EXCEPT !.fin = TRUE]
      OBVIOUS
    <3>1. /\ new \in Objects /\ new.doc = api[c].doc /\ new.current = api[c].current
          /\ new.msg = api[c].msg /\ new.deleting = api[c].deleting
      BY <1>1 DEF Objects
    <3>2. UNCHANGED apiVars \/ Publish(c, new)
      BY <1>1, <2>1, FinalizerSets
    <3>3. api'[c] \in {api[c], new}
      BY <3>1, <3>2, PublishEvents DEF apiVars
    <3> QED
      BY <1>1, <3>1, <3>3
  <2>4. Copies(c)' \subseteq Copies(c) \cup {api'[c]}
    BY <1>5, <2>3, FinalizerSees, SeenCopies
  <2>5. Kept(c, claim)'
    BY <1>1, <1>2, <2>2, <2>3, <2>4, KeptStays
  <2> QED
    BY <2>3, <2>5 DEF Fits
<1>6. CASE RemoveFinalizer
  <2>1. ctl.obj.deleting
    BY <1>6 DEF RemoveFinalizer, DeletesOwnName
  <2>2. ctl.obj \in Copies(c)
    BY <1>1, ApiServerAssumption DEF Copies, Held, Coherent, SameSpec
  <2> QED
    BY <2>1, <2>2 DEF Coherent, NoneAhead
<1> QED
  BY <1>3, <1>4, <1>5, <1>6 DEF Common

\* The only such call of a reconcile that has a deletion before it lets the
\* object go.
LEMMA CommonEnding ==
    ASSUME IInv, Common, NEW c \in CRs, Busy(c), Settled(c), Ending(c)
    PROVE  api'[c] = Nil
<1> USE DEF IInv, TypeOK
<1>1. RemoveFinalizer
  BY DEF Common, Reread, Patch, AddFinalizer, Ending
<1>2. /\ ctl \in Working /\ c = ctl.cr /\ ctl.pc = "unfin"
      /\ Update(ctl.cr, [ctl.obj EXCEPT !.fin = FALSE])
  BY <1>1, AtCall DEF RemoveFinalizer, Working, Busy
<1>3. c \in uptodate /\ ctl.obj.deleting
  BY <1>2 DEF DeletesOwnName, Ending
<1>4. ctl.obj = api[c] /\ api[c].deleting
  BY <1>3 DEF CopiesAreVersions
<1>5. Publish(c, Nil)
  BY <1>2, <1>3, <1>4, FinalizerSets DEF Settled
<1> QED
  BY <1>5, PublishEvents

LEMMA CommonFits ==
    ASSUME IInv, Common, NEW mine, Own(mine), NEW claim \in Claims, NEW c \in CRs,
           Settled(c), Coherent(c), Fits(c, mine, claim), api'[c] # Nil
    PROVE  Fits(c, mine, claim)'
<1>1. CASE ~Busy(c)
  BY <1>1, CommonAside, CommonSees, AsideFits
<1>2. CASE Busy(c) /\ ~api[c].deleting
  BY <1>2, CommonLive
<1>3. CASE Busy(c) /\ api[c].deleting
  BY <1>3, CommonEnding DEF Fits
<1> QED
  BY <1>1, <1>2, <1>3

\* A user's write of one resource, or the start of its reconcile, is nothing to
\* the others.
LEMMA EnvironmentAside ==
    ASSUME IInv, NEW c \in CRs, NEW e \in CRs, c # e,
           \/ StartReconcile(e) \/ UserDelete(e)
           \/ \E d \in Docs : UserCreate(e, d) \/ UserEdit(e, d)
    PROVE  /\ Spares(c) /\ UNCHANGED pinot
           /\ ctl' = ctl \/ (~Busy(c) /\ ~Busy(c)')
<1>1. UNCHANGED pinot
  BY DEF StartReconcile, Reconcile, UserCreate, UserEdit, UserDelete, pinotVars
<1>2. CASE StartReconcile(e)
  <2>1. ctl = Idle /\ ctl'.cr = e /\ Read(e)
    BY <1>2 DEF StartReconcile, Reconcile, Idle
  <2> QED
    BY <1>1, <2>1, ReadSpares, IdleWorker DEF Busy
<1>3. CASE UserDelete(e) \/ \E d \in Docs : UserCreate(e, d) \/ UserEdit(e, d)
  <2>1. ctl' = ctl /\ \E o : Publish(e, o)
    BY <1>3 DEF UserCreate, UserEdit, UserDelete, Create, Edit, Remove
  <2> QED
    BY <1>1, <2>1, PublishSpares DEF IInv, TypeOK
<1> QED
  BY <1>2, <1>3

LEMMA InterruptFits ==
    ASSUME IInv, NEW mine, NEW claim \in Claims, NEW c \in CRs, Interrupt, c \notin disturbed',
           Settled(c), Coherent(c), Fits(c, mine, claim)
    PROVE  Fits(c, mine, claim)'
<1>1. ctl' = Idle /\ faults' # faults /\ UNCHANGED <<api, cache, watch, uptodate, pinot>>
  BY DEF Interrupt, Abandon, Fault, apiVars, IInv, TypeOK, PinotTypeOK
<1>2. ~Busy(c) /\ ~Busy(c)'
  BY <1>1, IdleWorker DEF Interrupt, NoteCut, Note, Busy
<1>3. Spares(c)
  BY <1>1 DEF Spares
<1>4. Sees(c)
  BY EnvironmentSees DEF Environment
<1> QED
  BY <1>1, <1>2, <1>3, <1>4, AsideFits

LEMMA EnvironmentAlone ==
    ASSUME IInv, Calm, NEW mine, Own(mine)', NEW claim \in Claims, Alone(mine, claim),
           Environment
    PROVE  Alone(mine, claim)'
<1> SUFFICES ASSUME NEW c \in CRs, c \notin disturbed', api'[c] # Nil
             PROVE  Fits(c, mine, claim)'
  BY DEF Alone, Settled
<1>1. c \notin disturbed
  <2>1. disturbed \subseteq disturbed'
    BY DEF Environment, Interrupt, StartReconcile, DeliverEvent, UserCreate, UserEdit, UserDelete,
           NoteCut, Note
  <2> QED
    BY <2>1
<1>2. Settled(c) => Coherent(c) /\ Fits(c, mine, claim)
  BY DEF Calm, Alone
<1>3. api[c] # Nil => Settled(c)
  BY <1>1 DEF Settled
<1>4. CASE Interrupt
  BY <1>2, <1>3, <1>4, InterruptFits DEF Interrupt, Abandon, apiVars
<1>5. ASSUME NEW e \in CRs, DeliverEvent(e)
      PROVE  Fits(c, mine, claim)'
  BY <1>2, <1>3, <1>5, DeliverFits DEF DeliverEvent, Deliver
<1>6. ASSUME NEW e \in CRs, c # e,
             \/ StartReconcile(e) \/ UserDelete(e)
             \/ \E d \in Docs : UserCreate(e, d) \/ UserEdit(e, d)
      PROVE  Fits(c, mine, claim)'
  <2>1. /\ Spares(c) /\ UNCHANGED pinot
        /\ ctl' = ctl \/ (~Busy(c) /\ ~Busy(c)')
    BY <1>6, EnvironmentAside
  <2>2. Sees(c) /\ Settled(c)
    BY <1>3, <2>1, EnvironmentSees DEF Spares
  <2> QED
    BY <1>2, <2>1, <2>2, AsideFits
<1>7. CASE StartReconcile(c)
  BY <1>2, <1>3, <1>7, StartFits DEF StartReconcile, Reconcile, Read
<1>8. CASE UserDelete(c)
  <2>1. Ending(c)' /\ api'[c].deleting /\ api'[c].current = api[c].current
    BY <1>1, <1>8, EndingBegins
  <2>2. Fits(c, mine, claim)
    BY <1>2, <1>3, <1>8 DEF UserDelete, Remove
  <2> QED
    BY <2>1, <2>2 DEF Fits
<1>9. ASSUME NEW d \in Docs, UserCreate(c, d) \/ UserEdit(c, d)
      PROVE  Fits(c, mine, claim)'
  BY <1>2, <1>9, KeptSpecified
<1> QED
  BY <1>4, <1>5, <1>6, <1>7, <1>8, <1>9 DEF Environment

LEMMA StutterAlone ==
    ASSUME IInv, Calm, NEW mine, NEW claim \in Claims, Alone(mine, claim), UNCHANGED vars
    PROVE  Alone(mine, claim)'
<1> SUFFICES ASSUME NEW c \in CRs, c \notin disturbed', api'[c] # Nil
             PROVE  Fits(c, mine, claim)'
  BY DEF Alone, Settled
<1>1. Settled(c)
  BY DEF Settled, vars
<1> QED
  BY <1>1, StutterFits DEF Calm, Alone

LEMMA CommonAlone ==
    ASSUME IInv, Calm, NEW mine, Own(mine), NEW claim \in Claims, Alone(mine, claim),
           Common, NoteCut
    PROVE  Alone(mine, claim)'
<1> SUFFICES ASSUME NEW c \in CRs, c \notin disturbed', api'[c] # Nil
             PROVE  Fits(c, mine, claim)'
  BY DEF Alone, Settled
<1>1. Settled(c)
  <2>1. api[c] # Nil
    <3>1. CASE Reread
      BY <3>1 DEF Reread, Read
    <3>2. CASE Patch
      BY <3>2, PatchKeepsSpec
    <3>3. CASE AddFinalizer \/ RemoveFinalizer
      <4>1. ctl' # ctl
        BY <3>3, IdleWorker DEF AddFinalizer, RemoveFinalizer
      <4> QED
        BY <3>3, <4>1, FinalizerKeepsSpec DEF KeepsSpec
    <3> QED
      BY <3>1, <3>2, <3>3 DEF Common
  <2> QED
    BY <2>1 DEF NoteCut, Note, Settled
<1> QED
  BY <1>1, CommonFits DEF Calm, Alone

-----------------------------------------------------------------------------
(* The requests *)

\* What a request is, as far as any resource is concerned.
Requests(roles, answer) ==
    /\ ctl \in Working /\ UNCHANGED apiVars /\ Continues(ctl, ctl')
    /\ \E n \in {ctl.path, NameOf[ctl.obj.doc]} :
         \/ Get(n, answer) \/ Post(ctl.obj.doc, answer) \/ Put(n, ctl.obj.doc, answer)
         \/ Delete(ctl.path, roles, answer)

LEMMA RequestAside ==
    ASSUME NEW mine, NamesApart(mine), IInv, Own(mine), Owned(mine), NEW claim \in Claims,
           NEW roles, NEW answer, Requests(roles, answer),
           NEW c \in CRs, ~Busy(c), Settled(c), Coherent(c), Fits(c, mine, claim)
    PROVE  Fits(c, mine, claim)'
<1>1. c # ctl.cr /\ ~Busy(c)' /\ Sees(c) /\ Spares(c)
  BY WriteSees, IdleWorker DEF Requests, Busy, Continues, Spares, apiVars
<1>2. api[c].doc \in Docs \cap mine[c] /\ api[c].current \in {Nil} \cup (Docs \cap mine[c])
  BY DEF Settled, Own, Fits, IInv, TypeOK, ApiTypeOK, Objects
<1>3. \A d \in Docs \cap mine[c] : Unmoved(d)
  BY <1>1, OthersUnmoved DEF Requests
<1>4. Unmoved(Nil)
  BY DEF Unmoved, Parses
<1> QED
  BY <1>1, <1>2, <1>3, <1>4, StaysFit

LEMMA RequestLive ==
    ASSUME IInv, NEW mine, NEW claim \in Claims, NEW roles, NEW answer,
           Requests(roles, answer), NEW c \in CRs, Busy(c), ~Recorded(c), Answered(c, claim),
           Settled(c), Coherent(c), Fits(c, mine, claim), ~api[c].deleting
    PROVE  Fits(c, mine, claim)'
<1>1. UNCHANGED api /\ api[c] \in Objects
  BY DEF Requests, apiVars, Settled, IInv, TypeOK, ApiTypeOK
<1>2. Copies(c)' \subseteq Copies(c)
  BY <1>1, WriteSees, SparedCopies DEF Requests, Settled
<1>3. Kept(c, claim)'
  BY <1>1, <1>2, KeptRequest DEF Fits, IInv, TypeOK
<1> QED
  BY <1>1, <1>3 DEF Fits

LEMMA RequestEnding ==
    ASSUME IInv, NEW mine, NEW claim \in Claims, NEW roles, NEW answer,
           Requests(roles, answer), NEW c \in CRs, Busy(c), ctl.pc # "unfin",
           Settled(c), Coherent(c), Fits(c, mine, claim), api[c].deleting,
           \/ Busy(c)' /\ ctl'.pc = "unfin"
           \/ UNCHANGED pinot /\ (Busy(c)' => ctl'.pc \in {"get", "delete"})
    PROVE  Fits(c, mine, claim)'
<1>1. UNCHANGED <<api, cache, watch, uptodate>> /\ Ending(c)
  BY DEF Requests, apiVars, Fits
<1>2. Copies(c)' \subseteq Copies(c)
  BY <1>1, WriteSees, SparedCopies DEF Requests, Settled
<1>3. Busy(c)' => ctl'.obj = ctl.obj
  BY IdleWorker DEF Requests, Continues, Busy
<1>4. ServedFor(api[c].doc)' = api[c].doc \/ (Busy(c)' /\ ctl'.pc = "unfin")
  BY <1>1 DEF Ending, ServedFor, Parses
<1>5. Ending(c)'
  BY <1>1, <1>2, <1>3, <1>4, EndingGoesOn DEF Ending
<1> QED
  BY <1>1, <1>5 DEF Fits

\* What comes of an answer, in three parts that say all that the status and
\* Pinot depend on.  For a resource that is not being deleted, what is recorded
\* is true; for one that is, nothing but DELETE changes Pinot.
LEMMA RequestFits ==
    ASSUME NEW mine, NamesApart(mine), IInv, Own(mine), Owned(mine), NEW claim \in Claims,
           NEW roles, NEW answer, Requests(roles, answer), ctl.pc # "unfin",
           NEW c \in CRs, Settled(c), Coherent(c), Fits(c, mine, claim),
           Busy(c) /\ ~api[c].deleting => ~Recorded(c) /\ Answered(c, claim),
           Busy(c) /\ api[c].deleting =>
             \/ Busy(c)' /\ ctl'.pc = "unfin"
             \/ UNCHANGED pinot /\ (Busy(c)' => ctl'.pc \in {"get", "delete"})
    PROVE  Fits(c, mine, claim)'
BY RequestAside, RequestLive, RequestEnding

\* Only a resource that is being deleted has a reconcile that deletes.
LEMMA DeletesEnding ==
    ASSUME IInv, NEW c \in CRs, Busy(c), ctl.pc = "delete", Settled(c), Coherent(c)
    PROVE  api[c].deleting
<1>1. ctl \in Working /\ ctl.obj.deleting
  BY AtCall DEF IInv, TypeOK, DeletesOwnName
<1>2. ctl.obj \in Copies(c)
  BY <1>1, ApiServerAssumption DEF Working, Copies, Held, Coherent, SameSpec
<1> QED
  BY <1>1, <1>2 DEF Coherent, NoneAhead

\* A call that fails and ends the reconcile disturbs its resource.
LEMMA CutDisturbs ==
    ASSUME IInv, NoteCut, Fault, NEW c \in CRs, Busy(c), c \notin disturbed'
    PROVE  ctl' # Idle
BY DEF NoteCut, Note, Fault, Busy, IInv, TypeOK, PinotTypeOK

LEMMA DeleteAlone ==
    ASSUME NEW mine, NamesApart(mine), IInv, Calm, Own(mine), Owned(mine),
           NEW claim \in Claims, Alone(mine, claim),
           NEW roles, DeleteResource(roles), NoteCut
    PROVE  Alone(mine, claim)'
<1> SUFFICES ASSUME NEW c \in CRs, c \notin disturbed', api'[c] # Nil
             PROVE  Fits(c, mine, claim)'
  BY DEF Alone, Settled
<1>1. /\ ctl.pc = "delete" /\ ctl \in Working /\ UNCHANGED apiVars
      /\ c \notin disturbed
  BY AtCall DEF DeleteResource, NoteCut, Note, IInv, TypeOK
<1> PICK answer \in Answers :
      /\ Delete(ctl.path, roles, answer)
      /\ ctl' = IF answer = "error" THEN Idle ELSE [ctl EXCEPT !.pc = "unfin"]
  BY DEF DeleteResource
<1>2. Settled(c) /\ Coherent(c) /\ Fits(c, mine, claim)
  BY <1>1 DEF Settled, Calm, Alone, apiVars
<1>3. ctl' = Idle \/ (ctl'.pc = "unfin" /\ ctl'.cr = ctl.cr /\ ctl'.obj = ctl.obj
                      /\ ctl'.path = ctl.path)
  BY <1>1 DEF Working
<1>4. Requests(roles, answer)
  BY <1>1, <1>3 DEF Requests, Continues
<1>5. Busy(c) => Busy(c)' /\ ctl'.pc = "unfin"
  <2>1. answer = "error" => Fault
    BY DEF Delete, Change, Refuse
  <2> QED
    BY <1>3, <2>1, CutDisturbs DEF Busy
<1> QED
  BY <1>1, <1>2, <1>4, <1>5, DeletesEnding, RequestFits

\* A reconcile that has a deletion before it finds its resource in Pinot, and
\* nothing to do but the deletion.
LEMMA EndingCompares ==
    ASSUME IInv, NEW c \in CRs, Busy(c), Settled(c), Coherent(c), Ending(c), ctl \in Working
    PROVE  /\ Comparing(ctl) = Finalizing(ctl) /\ ctl.obj.current # Nil
           /\ Finalizing(ctl) = Idle \/ Finalizing(ctl).pc = "delete"
           /\ ctl.pc = "get" => Holds(ctl.path)
<1>1. ctl.obj \in Copies(c) /\ ctl.obj \in Objects
  BY ApiServerAssumption DEF Working, Copies, Held, Coherent, SameSpec
<1>2. ctl.obj.fin /\ ctl.obj.current = ctl.obj.doc /\ Parses(ctl.obj.doc)
  BY <1>1 DEF Ending, Coherent, SameSpec
<1>3. Comparing(ctl) = Finalizing(ctl)
  <2>1. IsEqualJson(ctl.obj.current, ctl.obj.doc) = "equal"
    BY <1>2 DEF IsEqualJson
  <2> QED
    BY <2>1 DEF Comparing
<1>4. Finalizing(ctl) = Idle \/ Finalizing(ctl).pc = "delete"
  <2>1. CASE ctl.obj.deleting /\ GetValueFromJson(ctl.obj.doc) # Nil
    <3>1. Finalizing(ctl) = [ctl EXCEPT !.pc = "delete", !.path = GetValueFromJson(ctl.obj.doc)]
      BY <1>2, <2>1 DEF Finalizing
    <3> QED
      BY <3>1 DEF Working
  <2>2. CASE ~(ctl.obj.deleting /\ GetValueFromJson(ctl.obj.doc) # Nil)
    BY <1>2, <2>2 DEF Finalizing
  <2> QED
    BY <2>1, <2>2
<1>5. ctl.pc = "get" => Holds(ctl.path)
  <2>1. ASSUME ctl.pc = "get"
        PROVE  Holds(ctl.path)
    <3>1. PICK d \in Docs : d = api[c].doc
      BY DEF Settled, IInv, TypeOK, ApiTypeOK, Objects
    <3>2. ServedFor(d) = d /\ Parses(d) /\ ctl.path = NameOf[d]
      BY <2>1, <3>1 DEF Ending, Coherent, SameSpec
    <3>3. pinot[<<NameOf[d], RoleOf[d]>>] # Nil /\ RoleOf[d] \in Roles
      BY <3>1, <3>2, DocumentsAssumption DEF ServedFor
    <3> QED
      BY <3>2, <3>3 DEF Holds
  <2> QED
    BY <2>1
<1> QED
  BY <1>2, <1>3, <1>4, <1>5 DEF Parses

-----------------------------------------------------------------------------
(* The answers *)

\* What the answer to a GET, POST or PUT has to come to.
TrueAnswer(c, claim) ==
    /\ ~api[c].deleting /\ Kept(c, claim) => Answered(c, claim)
    /\ Ending(c) => UNCHANGED pinot /\ (Busy(c)' => ctl'.pc \in {"get", "delete"})

LEMMA RequestAlone ==
    ASSUME NEW mine, NamesApart(mine), IInv, Calm, Own(mine), Owned(mine),
           NEW claim \in Claims, Alone(mine, claim),
           NEW roles, NEW answer, Requests(roles, answer), ctl.pc \in {"get", "post", "put"},
           NoteCut,
           \A c \in CRs : Busy(c) /\ c \notin disturbed' /\ Settled(c) /\ Coherent(c) =>
                            TrueAnswer(c, claim)
    PROVE  Alone(mine, claim)'
<1> SUFFICES ASSUME NEW c \in CRs, c \notin disturbed', api'[c] # Nil
             PROVE  Fits(c, mine, claim)'
  BY DEF Alone, Settled
<1>1. Settled(c) /\ Coherent(c) /\ Fits(c, mine, claim)
  BY DEF NoteCut, Note, Settled, Calm, Alone, Requests, apiVars
<1>2. Busy(c) /\ ~api[c].deleting => ~Recorded(c) /\ Answered(c, claim)
  BY <1>1 DEF TrueAnswer, Fits, Recorded
<1>3. Busy(c) /\ api[c].deleting =>
        UNCHANGED pinot /\ (Busy(c)' => ctl'.pc \in {"get", "delete"})
  BY <1>1 DEF TrueAnswer, Fits
<1> QED
  BY <1>1, <1>2, <1>3, RequestFits

\* The copy in hand of a settled resource.
LEMMA InHandCopy ==
    ASSUME NEW c \in CRs, Busy(c), Coherent(c), ctl \in Working
    PROVE  /\ ctl.obj \in Copies(c) /\ ctl.obj.doc = api[c].doc /\ ctl.obj.doc \in Docs
           /\ Parses(ctl.obj.doc) /\ ctl.path = NameOf[ctl.obj.doc]
BY ApiServerAssumption DEF Copies, Held, Coherent, SameSpec, Working, Objects

\* Nothing is recorded, and nothing to be created.
LEMMA UnrecordedAnswer ==
    ASSUME NEW c \in CRs, NEW claim \in Claims, UNCHANGED pinot,
           ctl'.pc \notin {"reread", "patch", "post"}
    PROVE  Answered(c, claim)
BY DEF Answered, Recorded, Succeeded

\* The resource is to be created.
LEMMA AbsentAnswer ==
    ASSUME NEW c \in CRs, NEW claim \in Claims, Busy(c), Coherent(c), ctl \in Working,
           UNCHANGED pinot, ~Holds(ctl.path), ctl' = [ctl EXCEPT !.pc = "post"]
    PROVE  Answered(c, claim)
<1>1. ctl'.pc = "post"
  BY DEF Working
<1>2. ~Holds(NameOf[api[c].doc])
  BY InHandCopy
<1> QED
  BY <1>1, <1>2 DEF Answered, Recorded, Succeeded

\* An outcome is recorded: a failure, a success that changed nothing because
\* nothing had to be changed, or one that made Pinot serve the document.
LEMMA RecordedAnswer ==
    ASSUME IInv, NEW c \in CRs, NEW claim \in Claims, Busy(c), Coherent(c),
           ctl \in Working, UNCHANGED apiVars,
           NEW msg \in Messages \ {""}, NEW then, ctl' = Recording(ctl, msg, then),
           \/ UNCHANGED pinot /\ (msg \in Fails(claim) \/ Good(ctl.obj.doc, claim))
           \/ /\ pinot' = With(ctl.obj.doc)
              /\ msg \notin Fails(claim) \/ (claim # "created" /\ ~Holds(NameOf[api[c].doc]))
    PROVE  Answered(c, claim)
<1>1. ctl'.pc = "reread" /\ ctl'.msg = msg /\ ctl'.cr = ctl.cr
  BY DEF Recording, Working
<1> PICK d \in Docs : d = api[c].doc /\ d = ctl.obj.doc /\ Parses(d)
  BY InHandCopy
<1>2. Recorded(c)' /\ (Succeeded(c, claim)' <=> msg \notin Fails(claim))
  BY <1>1 DEF Recorded, Succeeded, Busy, Fails
<1>3. Good(api[c].doc, claim)' = Good(d, claim)'
  BY DEF apiVars, Good, ServedFor, Parses
<1>4. CASE UNCHANGED pinot
  <2>1. Good(d, claim)' = Good(d, claim)
    BY <1>4 DEF Good, ServedFor, Parses
  <2>2. msg \notin Fails(claim) => Good(d, claim)
    <3>1. pinot' = With(d) /\ pinot' = pinot => ServedFor(d) = d
      <4>1. pinot' = With(d) /\ pinot' = pinot => ServedFor(d)' = d
        BY WithServes DEF IInv, TypeOK
      <4> QED
        BY <4>1 DEF ServedFor, Parses
    <3> QED
      BY <1>4, <3>1 DEF Good
  <2> QED
    BY <1>1, <1>2, <1>3, <1>4, <2>1, <2>2 DEF Answered
<1>5. CASE /\ pinot' = With(d)
           /\ msg \notin Fails(claim) \/ (claim # "created" /\ ~Holds(NameOf[d]))
  <2>1. Good(d, claim)'
    BY <1>5, WithServes DEF IInv, TypeOK, Good
  <2> QED
    BY <1>1, <1>2, <1>3, <1>5, <2>1 DEF Answered
<1> QED
  BY <1>4, <1>5

\* When Pinot has the name of a resource that is not recorded yet, or has had
\* no chance to get it, what it serves is good.
LEMMA AdoptsGood ==
    ASSUME NEW c \in CRs, NEW claim \in Claims, Busy(c), Coherent(c), ctl \in Working,
           Kept(c, claim), ctl.obj.current = Nil, claim = "created" \/ Holds(ctl.path)
    PROVE  Good(ctl.obj.doc, claim)
<1> PICK d \in Docs : d = ctl.obj.doc /\ d = api[c].doc /\ Parses(d) /\ ctl.path = NameOf[d]
  BY InHandCopy
<1>1. CASE Holds(NameOf[d])
  <2>1. Taken(d)
    BY <1>1 DEF Taken, GetValueFromJson
  <2> QED
    BY <2>1, InHandCopy DEF Kept, Good
<1>2. CASE ~Holds(NameOf[d])
  <2>1. ServedFor(d) = Nil
    BY <1>2, DocumentsAssumption DEF Holds, ServedFor
  <2> QED
    BY <1>2, <2>1 DEF Good
<1> QED
  BY <1>1, <1>2

-----------------------------------------------------------------------------
(* What follows for a resource at rest *)

LEMMA AloneServes ==
    ASSUME NEW mine, NEW claim \in Claims, Alone(mine, claim), NEW c \in CRs,
           Quiet(c), c \notin disturbed,
           api[c] # Nil, api[c].current = api[c].doc, Parses(api[c].doc),
           api[c].msg \notin Fails(claim)
    PROVE  Good(api[c].doc, claim)
<1>1. Fits(c, mine, claim) /\ ~Busy(c)
  BY DEF Alone, Settled, Quiet
<1>2. CASE api[c].deleting
  BY <1>1, <1>2 DEF Fits, Ending, Good
<1>3. CASE ~api[c].deleting
  BY <1>1, <1>3 DEF Fits, Kept, Succeeded, Recorded, Parses
<1> QED
  BY <1>2, <1>3

LEMMA NoDivergence ==
    ASSUME NEW mine
    PROVE  Alone(mine, "reported") => NoSilentDivergence
<1>1. "reported" \in Claims /\ Fails("reported") = {"CreateFail", "UpdateFail"}
  BY DEF Claims, Fails
<1>2. \A d : Good(d, "reported") => ServedFor(d) = d
  BY DEF Good
<1> QED
  BY <1>1, <1>2, AloneServes DEF NoSilentDivergence

LEMMA SuccessIsServed ==
    ASSUME NEW mine, TypeOK, Calm
    PROVE  Alone(mine, "reported") => CreateSuccessIsServed
<1> SUFFICES ASSUME Alone(mine, "reported"), NEW c \in CRs, api[c] # Nil, ~api[c].deleting,
                    api[c].msg = "CreateSuccess", c \notin disturbed
             PROVE  Holds(GetValueFromJson(api[c].current))
  BY DEF CreateSuccessIsServed
<1>1. Kept(c, "reported") /\ Coherent(c)
  BY DEF Alone, Fits, Settled, Calm
<1> PICK u : u = api[c].current
  OBVIOUS
<1>2. u \in Docs /\ Parses(u)
  BY <1>1 DEF Kept, Coherent, TypeOK, ApiTypeOK, Objects
<1>3. ServedFor(u) # Nil
  BY <1>1, <1>2 DEF Kept, Fails, Parses
<1>4. pinot[<<NameOf[u], RoleOf[u]>>] # Nil /\ RoleOf[u] \in Roles
  BY <1>2, <1>3, DocumentsAssumption DEF ServedFor
<1> QED
  BY <1>4 DEF Holds, GetValueFromJson
=============================================================================
