----------------------------- MODULE ApiServer -----------------------------
(***************************************************************************)
(* The custom resources of one kind, as the Kubernetes API server keeps    *)
(* them and as the manager's client shows them to a reconciler: reads come *)
(* from an informer cache that follows the server through an ordered watch *)
(* stream, writes go to the server.  A write with r.Update is refused      *)
(* unless the caller's copy has the server's resourceVersion; a write of   *)
(* the status subresource with a merge patch is not.                       *)
(*                                                                         *)
(* resourceVersion is kept as one bit for each resource: uptodate holds    *)
(* the resources whose copy in the reconciler's hands is the server's      *)
(* current version.  Only equality with the current version is ever asked  *)
(* for, and a reconciler holds one copy of a resource at a time.           *)
(***************************************************************************)
EXTENDS Documents, Naturals, Sequences

CONSTANTS CRs,     \* names of the custom resources of this kind
          MaxLag   \* bound: watch events of one resource not yet delivered

VARIABLES api,       \* the server's object for each name, or Nil
          cache,     \* the informer's copy of it, or Nil
          watch,     \* events the informer has yet to receive, oldest first
          uptodate   \* resources whose held copy has the current version

apiVars == <<api, cache, watch, uptodate>>

Messages == {"", "CreateSuccess", "CreateFail", "UpdateSuccess", "UpdateFail"}

\* doc is the spec, current and msg the status, fin the finalizer, deleting
\* a deletion timestamp.
Objects == [doc : Docs, current : Docs \cup {Nil}, msg : Messages,
            fin : BOOLEAN, deleting : BOOLEAN]

ASSUME ApiServerAssumption ==
    /\ Nil \notin CRs \cup Objects
    /\ MaxLag \in Nat \ {0}

ApiTypeOK ==
    /\ api \in [CRs -> Objects \cup {Nil}]
    /\ cache \in [CRs -> Objects \cup {Nil}]
    /\ watch \in [CRs -> Seq(Objects \cup {Nil})]
    /\ uptodate \subseteq CRs

ApiInit ==
    /\ api = [c \in CRs |-> Nil]
    /\ cache = [c \in CRs |-> Nil]
    /\ watch = [c \in CRs |-> <<>>]
    /\ uptodate = {}

\* Every write creates a version: it is announced to the informer, and any
\* copy read before it is out of date.
Publish(c, o) ==
    /\ Len(watch[c]) < MaxLag
    /\ api' = [api EXCEPT ![c] = o]
    /\ watch' = [watch EXCEPT ![c] = Append(@, o)]
    /\ uptodate' = uptodate \ {c}
    /\ UNCHANGED cache

\* The informer receives the next event of c.
Deliver(c) ==
    /\ watch[c] # <<>>
    /\ cache' = [cache EXCEPT ![c] = Head(watch[c])]
    /\ watch' = [watch EXCEPT ![c] = Tail(@)]
    /\ UNCHANGED <<api, uptodate>>

\* r.Get: the copy handed out is current exactly when no event is pending.
Read(c) ==
    /\ uptodate' = IF watch[c] = <<>> THEN uptodate \cup {c} ELSE uptodate \ {c}
    /\ UNCHANGED <<api, cache, watch>>

\* Mutant of VersionMatches: the write does not carry the resourceVersion.
AnyVersion(c) == TRUE

\* The server's test of the resourceVersion in an r.Update.
VersionMatches(c) == c \in uptodate

\* r.Update with the held copy o: spec and metadata are replaced, the status
\* is not (a subresource), and a deleted object leaves with its last
\* finalizer.  A conflict or a missing object changes nothing; the callers
\* return nil for both.
Update(c, o) ==
    IF api[c] # Nil /\ VersionMatches(c)
      THEN Publish(c, IF api[c].deleting /\ ~o.fin
                        THEN Nil
                        ELSE [api[c] EXCEPT !.doc = o.doc, !.fin = o.fin])
      ELSE UNCHANGED apiVars

\* What the transform makes of a status: the spec of the object just read is
\* the new current document.
Transform(base, msg) == [base EXCEPT !.current = base.doc, !.msg = msg]

\* Status().Patch with MergeFrom(base): only the fields that differ from the
\* object read reach the server, and no resourceVersion is compared.  A
\* patch that changes nothing creates no version when it also falls in the
\* second of the previous one (lastUpdateTime).
PatchStatus(c, base, msg) ==
    LET wanted == Transform(base, msg)
        merged == [api[c] EXCEPT
                     !.current = IF wanted.current = base.current THEN @ ELSE wanted.current,
                     !.msg = IF wanted.msg = base.msg THEN @ ELSE wanted.msg]
    IN  \/ Publish(c, merged)
        \/ merged = api[c] /\ UNCHANGED apiVars

\* The user's side: kubectl apply and kubectl delete.
Create(c, d) ==
    /\ api[c] = Nil
    /\ Publish(c, [doc |-> d, current |-> Nil, msg |-> "", fin |-> FALSE, deleting |-> FALSE])

Edit(c, d) ==
    /\ api[c] # Nil
    /\ api[c].doc # d
    /\ Publish(c, [api[c] EXCEPT !.doc = d])

Remove(c) ==
    /\ api[c] # Nil
    /\ ~api[c].deleting
    /\ Publish(c, IF api[c].fin THEN [api[c] EXCEPT !.deleting = TRUE] ELSE Nil)
=============================================================================
