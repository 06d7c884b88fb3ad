--------------------------- MODULE MCClusterLookup ---------------------------
(***************************************************************************)
(* Instances of ClusterLookup for TLC.                                     *)
(***************************************************************************)
EXTENDS ClusterLookup

CONSTANTS A, a1, a2,   \* a name, and documents that give it
          only              \* the one role of schemas

RoleOfAll == [d \in Docs |-> only]

\* Versions of the schema A.
NameOfAll == [d \in Docs |-> A]
=============================================================================
