----------------------------- MODULE Reconciler -----------------------------
(***************************************************************************)
(* What the schema, tenant and table reconcilers share: one worker that    *)
(* takes a resource from the work queue, holds a copy of it and goes       *)
(* through its calls one at a time, each of which may fail.  A controller  *)
(* module extends this one with the calls it makes.                        *)
(***************************************************************************)
EXTENDS ApiServer, PinotRest

VARIABLE ctl   \* where the worker is, and its local variables

(***************************************************************************)
(* pc    the next call, or "idle" between two reconciles                   *)
(* cr    the resource being reconciled, obj the copy of it in hand         *)
(* path  the name in the URL of the reconcile's requests                   *)
(* msg   the outcome that the status patch under way will record           *)
(* then  where CreateOrUpdate goes on after that patch                     *)
(***************************************************************************)
Calls == {"get", "post", "put", "reread", "patch", "addfin", "delete", "unfin"}

Idle == [pc |-> "idle", cr |-> Nil, obj |-> Nil, path |-> Nil, msg |-> "", then |-> ""]

Working == [pc : Calls, cr : CRs, obj : Objects, path : Names, msg : Messages,
            then : {"", "compare", "finalize"}]

Workers == {Idle} \cup Working

Busy(c) == ctl.cr = c

\* r.Get of the request's object, and the first thing CreateOrUpdate does
\* with it: an object that is gone or whose document gives no name ends the
\* reconcile with nothing done.  The queue holds c again afterwards, since
\* every reconcile of an existing object asks to be requeued.
Reconcile(c) ==
    /\ ctl = Idle
    /\ cache[c] # Nil
    /\ GetValueFromJson(cache[c].doc) # Nil
    /\ Read(c)
    /\ ctl' = [Idle EXCEPT !.pc = "get", !.cr = c, !.obj = cache[c],
                           !.path = GetValueFromJson(cache[c].doc)]
    /\ UNCHANGED pinotVars

\* Mutant of Finalizing: the finalizer goes without a DELETE.
UnfinAtOnce(k) ==
    CASE ~k.obj.deleting /\ ~k.obj.fin -> [k EXCEPT !.pc = "addfin"]
      [] k.obj.deleting /\ k.obj.fin /\ GetValueFromJson(k.obj.doc) # Nil ->
           [k EXCEPT !.pc = "unfin", !.path = GetValueFromJson(k.obj.doc)]
      [] OTHER -> Idle

\* Mutant of Finalizing: DELETE goes to the name CreateOrUpdate started with.
FinalizingWithPath(k) ==
    CASE ~k.obj.deleting /\ ~k.obj.fin -> [k EXCEPT !.pc = "addfin"]
      [] k.obj.deleting /\ k.obj.fin -> [k EXCEPT !.pc = "delete"]
      [] OTHER -> Idle

\* Mutant of Finalizing: any object with the finalizer is handled as deleted.
FinalizingAlways(k) ==
    CASE ~k.obj.deleting /\ ~k.obj.fin -> [k EXCEPT !.pc = "addfin"]
      [] k.obj.fin /\ GetValueFromJson(k.obj.doc) # Nil ->
           [k EXCEPT !.pc = "delete", !.path = GetValueFromJson(k.obj.doc)]
      [] OTHER -> Idle

\* The end of do(): register the finalizer, or handle the deletion.
Finalizing(k) ==
    CASE ~k.obj.deleting /\ ~k.obj.fin -> [k EXCEPT !.pc = "addfin"]
      [] k.obj.deleting /\ k.obj.fin /\ GetValueFromJson(k.obj.doc) # Nil ->
           [k EXCEPT !.pc = "delete", !.path = GetValueFromJson(k.obj.doc)]
      [] OTHER -> Idle

\* Mutants of Comparing: no PUT before the record, no finalizer after it.
CompareWithoutPut(k) ==
    LET result == IsEqualJson(k.obj.current, k.obj.doc)
    IN  CASE result = "error" -> Idle
          [] result = "equal" -> Finalizing(k)
          [] result = "different" ->
               [k EXCEPT !.pc = "reread", !.msg = "UpdateSuccess", !.then = "finalize"]

CompareWithoutFinalizer(k) ==
    IF IsEqualJson(k.obj.current, k.obj.doc) = "different"
      THEN [k EXCEPT !.pc = "put"]
      ELSE Idle

\* The resource exists in Pinot: is an update due?
Comparing(k) ==
    LET result == IsEqualJson(k.obj.current, k.obj.doc)
    IN  CASE result = "error" -> Idle
          [] result = "equal" -> Finalizing(k)
          [] result = "different" -> [k EXCEPT !.pc = "put"]

\* Start of PatchStatus with an outcome to record.
Recording(k, msg, then) == [k EXCEPT !.pc = "reread", !.msg = msg, !.then = then]

\* Mutant of Reread: only the resourceVersion is taken over.
RereadVersion ==
    /\ ctl.pc = "reread"
    /\ Read(ctl.cr)
    /\ ctl' = IF cache[ctl.cr] = Nil THEN Idle ELSE [ctl EXCEPT !.pc = "patch"]
    /\ UNCHANGED pinotVars

\* Mutant of Reread: the error of a missing object is dropped.
RereadUnchecked ==
    /\ ctl.pc = "reread"
    /\ Read(ctl.cr)
    /\ ctl' = [ctl EXCEPT !.pc = "patch", !.obj = cache[ctl.cr]]
    /\ UNCHANGED pinotVars

\* PatchStatus reads the object again into the caller's variable: what it
\* goes on with, and records, is the spec as the cache has it now.
Reread ==
    /\ ctl.pc = "reread"
    /\ Read(ctl.cr)
    /\ ctl' = IF cache[ctl.cr] = Nil THEN Idle
              ELSE [ctl EXCEPT !.pc = "patch", !.obj = cache[ctl.cr]]
    /\ UNCHANGED pinotVars

\* ... and patches the status.  The caller's variable is still the object as
\* read before the patch.  A patch of a missing object is an error.
Patch ==
    /\ ctl.pc = "patch"
    /\ \/ /\ api[ctl.cr] # Nil
          /\ PatchStatus(ctl.cr, ctl.obj, ctl.msg)
          /\ ctl' = IF ctl.then = "compare" THEN Comparing(ctl) ELSE Finalizing(ctl)
       \/ api[ctl.cr] = Nil /\ ctl' = Idle /\ UNCHANGED apiVars
    /\ UNCHANGED pinotVars

AddFinalizer ==
    /\ ctl.pc = "addfin"
    /\ Update(ctl.cr, [ctl.obj EXCEPT !.fin = TRUE])
    /\ ctl' = Idle
    /\ UNCHANGED pinotVars

\* DELETE in Pinot.  Whatever the status of the answer, the finalizer goes.
DeleteResource(roles) ==
    /\ ctl.pc = "delete"
    /\ \E answer \in Answers :
         /\ Delete(ctl.path, roles, answer)
         /\ ctl' = IF answer = "error" THEN Idle ELSE [ctl EXCEPT !.pc = "unfin"]
    /\ UNCHANGED apiVars

RemoveFinalizer ==
    /\ ctl.pc = "unfin"
    /\ Update(ctl.cr, [ctl.obj EXCEPT !.fin = FALSE])
    /\ ctl' = Idle
    /\ UNCHANGED pinotVars

\* A reconcile ends before its next call: the lookup of the service or the
\* credentials or a call to the API server failed, or the manager stopped
\* and a new one took over.  What a restart does besides, filling the cache
\* anew, is Deliver taken until no event is left.
Abandon ==
    /\ ctl # Idle
    /\ Fault
    /\ ctl' = Idle
    /\ UNCHANGED <<apiVars, pinot>>
=============================================================================
