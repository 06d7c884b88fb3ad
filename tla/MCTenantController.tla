------------------------- MODULE MCTenantController -------------------------
(***************************************************************************)
(* Instances of TenantController for TLC.                                  *)
(***************************************************************************)
EXTENDS TenantController

CONSTANTS A,                \* a name
          broker, server, \* the roles of tenants
          x1, x2, y1, bad,  \* documents, all named A but bad, which is not JSON
          c1, c2            \* resources

\* Every document that parses gives the same name.
NameOfAll == [d \in Docs |-> IF d = bad THEN Nil ELSE A]

\* y1 is the server one.
RoleOfAll == [d \in Docs |-> IF d = y1 THEN server ELSE broker]

\* Users who write x1 only to c1 and y1 only to c2.
OwnSpec ==
    /\ Init
    /\ [][/\ Next
          /\ \A c \in CRs : api'[c] # Nil => api'[c].doc = IF c = c1 THEN x1 ELSE y1]_vars
=============================================================================
