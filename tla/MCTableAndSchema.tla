-------------------------- MODULE MCTableAndSchema --------------------------
(***************************************************************************)
(* Instances of TableAndSchema for TLC.                                    *)
(***************************************************************************)
EXTENDS TableAndSchema

CONSTANTS A,        \* a name
          offline,  \* a role of tables
          x1, x2    \* offline tables of that name

NameOfAll == [d \in Docs |-> A]

RoleOfAll == [d \in Docs |-> offline]
=============================================================================
