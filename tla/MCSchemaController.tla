------------------------- MODULE MCSchemaController -------------------------
(***************************************************************************)
(* Instances of SchemaController for TLC.                                  *)
(***************************************************************************)
EXTENDS SchemaController, TLC

CONSTANTS A, B, a1, a2, b1,   \* names, and documents named after them
          only                     \* the one role of schemas

RoleOfAll == [d \in Docs |-> only]

\* Two versions of the schema A and the schema B.
NameOfValid == [d \in {a1, a2, b1} |-> IF d = b1 THEN B ELSE A]

\* Two versions of the schema A.
NameOfOne == [d \in {a1, a2} |-> A]

\* Nothing tells the two versions of A apart.
Versions == Permutations({a1, a2})
=============================================================================
