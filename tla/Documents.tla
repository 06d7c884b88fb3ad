----------------------------- MODULE Documents -----------------------------
(***************************************************************************)
(* The JSON documents a custom resource carries in its spec and status.    *)
(* The operator never looks inside one, except to compare two of them and  *)
(* to read the name of the Pinot resource they describe, so a document is  *)
(* an element of a set and NameOf is all the operator knows of it.  Pinot  *)
(* also sees its role: tenants of one name are broker or server tenants,   *)
(* tables of one name offline or realtime tables; schemas have one role.   *)
(***************************************************************************)
CONSTANTS Docs,    \* JSON texts that can be written in a spec, up to layout;
                   \* those that are objects have the name
          Names,   \* names of Pinot resources
          Roles,   \* roles of the resources of one name
          NameOf,  \* the name a document gives; Nil when it is not JSON
          RoleOf,  \* the role it gives
          Nil      \* no object, no document (the empty string), no name

ASSUME DocumentsAssumption ==
    /\ Nil \notin Docs \cup Names
    /\ NameOf \in [Docs -> Names \cup {Nil}]
    /\ RoleOf \in [Docs -> Roles]

\* Mutant of GetValueFromJson: the parse error is dropped.
NameOrAny(doc) == IF NameOf[doc] = Nil THEN CHOOSE n \in Names : TRUE ELSE NameOf[doc]

\* The name of the resource a document describes; Nil stands for the error
\* of a text that does not parse.
GetValueFromJson(doc) == NameOf[doc]

\* A text that json.Unmarshal accepts: neither "" nor malformed.
Parses(doc) == doc # Nil /\ NameOf[doc] # Nil

\* The three outcomes of comparing a recorded document with a wanted one.
IsEqualJson(doc1, doc2) ==
    CASE ~(Parses(doc1) /\ Parses(doc2)) -> "error"
      [] Parses(doc1) /\ Parses(doc2) /\ doc1 = doc2 -> "equal"
      [] OTHER -> "different"
=============================================================================
