------------------------- MODULE ResourceLifecycle -------------------------
(***************************************************************************)
(* What the finalizer of a schema, tenant or table resource promises: an   *)
(* object the operator manages leaves Kubernetes only at the end of a      *)
(* deletion, after DELETE was sent to Pinot for the name its final spec    *)
(* gives; and nobody but its user changes a spec or asks for a deletion.   *)
(* The controllers implement this specification.                           *)
(***************************************************************************)
CONSTANTS CRs,     \* custom resources of one kind
          Names,   \* names of Pinot resources
          Nil      \* no object, or a spec that gives no name

VARIABLES phase,   \* where in its life a resource is
          name,    \* the name its spec gives
          sent     \* names to which the deletions now under way have sent DELETE

vars == <<phase, name, sent>>

Phases == {"absent", "new", "managed", "ending"}

Init ==
    /\ phase = [c \in CRs |-> "absent"]
    /\ name = [c \in CRs |-> Nil]
    /\ sent = [c \in CRs |-> {}]

MoveTo(c, p) == phase' = [phase EXCEPT ![c] = p]

-----------------------------------------------------------------------------
(* The user *)

Create(c, n) ==
    /\ phase[c] = "absent"
    /\ MoveTo(c, "new")
    /\ name' = [name EXCEPT ![c] = n]
    /\ UNCHANGED sent

Rename(c, n) ==
    /\ phase[c] # "absent"
    /\ name' = [name EXCEPT ![c] = n]
    /\ UNCHANGED <<phase, sent>>

\* An object that is not managed yet goes at once.
Discard(c) ==
    /\ phase[c] = "new"
    /\ MoveTo(c, "absent")
    /\ name' = [name EXCEPT ![c] = Nil]
    /\ UNCHANGED sent

End(c) ==
    /\ phase[c] = "managed"
    /\ MoveTo(c, "ending")
    /\ UNCHANGED <<name, sent>>

-----------------------------------------------------------------------------
(* The operator *)

Manage(c) ==
    /\ phase[c] = "new"
    /\ MoveTo(c, "managed")
    /\ UNCHANGED <<name, sent>>

\* In no particular phase: the operator may have an old copy of the object.
SendDelete(c, n) ==
    /\ sent' = [sent EXCEPT ![c] = @ \cup {n}]
    /\ UNCHANGED <<phase, name>>

\* An attempt at deletion ends; others may be under way.
Forget(c) == \E left \in SUBSET sent[c] : sent' = [sent EXCEPT ![c] = left]

\* It failed, or was for an object that is gone.
GiveUp(c) == Forget(c) /\ UNCHANGED <<phase, name>>

Drop(c) ==
    /\ phase[c] = "ending"
    /\ name[c] \in sent[c]
    /\ MoveTo(c, "absent")
    /\ name' = [name EXCEPT ![c] = Nil]
    /\ Forget(c)

Next ==
    \E c \in CRs :
      \/ Discard(c) \/ End(c) \/ Manage(c) \/ GiveUp(c) \/ Drop(c)
      \/ \E n \in Names \cup {Nil} : Create(c, n) \/ Rename(c, n)
      \/ \E n \in Names : SendDelete(c, n)

Spec == Init /\ [][Next]_vars
=============================================================================
