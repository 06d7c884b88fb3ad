----------------------------- MODULE PinotRest -----------------------------
(***************************************************************************)
(* The Pinot controller's REST interface for one kind of resource, as the  *)
(* operator's HTTP client sees it.  An answer is "ok" (status 200),        *)
(* "absent" (what GET gives for a missing resource), "refused" (any other  *)
(* status) or "error" (http.Client.Do returned an error: the request may   *)
(* or may not have been carried out).  Answers that do not follow from the *)
(* request are faults and draw on a budget.                                *)
(***************************************************************************)
EXTENDS Documents, Naturals

CONSTANT MaxFaults   \* bound: faults in one behaviour

ASSUME PinotRestAssumption == MaxFaults \in Nat

VARIABLES pinot,    \* the document Pinot serves for each name and role, or Nil
          faults    \* faults so far

pinotVars == <<pinot, faults>>

Answers == {"ok", "absent", "refused", "error"}

PinotTypeOK ==
    /\ pinot \in [Names \X Roles -> Docs \cup {Nil}]
    /\ faults \in 0..MaxFaults

\* Pinot may hold resources made before the operator was installed.
PinotInit ==
    /\ pinot \in [Names \X Roles -> Docs \cup {Nil}]
    /\ \A n \in Names, r \in Roles :
         pinot[<<n, r>>] # Nil => NameOf[pinot[<<n, r>>]] = n /\ RoleOf[pinot[<<n, r>>]] = r
    /\ faults = 0

\* Pinot has a resource of this name, in some role.
Holds(n) == \E r \in Roles : pinot[<<n, r>>] # Nil

\* What Pinot serves where the document d belongs; nothing when d has no name.
ServedFor(d) == IF Parses(d) THEN pinot[<<NameOf[d], RoleOf[d]>>] ELSE Nil

Fault == faults < MaxFaults /\ faults' = faults + 1

\* GET by name says nothing of the role.
Get(n, answer) ==
    /\ UNCHANGED pinot
    /\ \/ answer = (IF Holds(n) THEN "ok" ELSE "absent") /\ UNCHANGED faults
       \/ answer \in {"refused", "error"} /\ Fault

\* A request that makes Pinot serve new, or is refused or lost.
Change(new, answer) ==
    \/ answer = "ok" /\ pinot' = new /\ UNCHANGED faults
    \/ answer = "refused" /\ UNCHANGED pinot /\ Fault
    \/ answer = "error" /\ pinot' \in {pinot, new} /\ Fault

Refuse(answer) == answer = "refused" /\ UNCHANGED pinotVars

\* The resource the body describes is set to it.
With(d) == [pinot EXCEPT ![<<NameOf[d], RoleOf[d]>>] = d]

\* The resources of a name go, in the roles given.
Without(n, roles) ==
    [k \in Names \X Roles |-> IF k[1] = n /\ k[2] \in roles THEN Nil ELSE pinot[k]]

\* POST creates what does not exist yet, from a body that parses.
Post(d, answer) ==
    IF Parses(d) /\ ServedFor(d) = Nil THEN Change(With(d), answer) ELSE Refuse(answer)

\* PUT needs the resource to exist and its name to agree with the body's.
Put(n, d, answer) ==
    IF NameOf[d] = n /\ ServedFor(d) # Nil THEN Change(With(d), answer) ELSE Refuse(answer)

\* DELETE needs a resource to exist in one of the roles.
Delete(n, roles, answer) ==
    IF \E r \in roles : pinot[<<n, r>>] # Nil
      THEN Change(Without(n, roles), answer)
      ELSE Refuse(answer)
=============================================================================
