---------------------------- MODULE MCTwoManagers ----------------------------
(***************************************************************************)
(* Instances of TwoManagers for TLC.                                       *)
(***************************************************************************)
EXTENDS TwoManagers

CONSTANTS A, B, a1, b1,   \* names, and the schemas with them
          only            \* the one role of schemas

RoleOfAll == [d \in Docs |-> only]

NameOfBoth == [d \in Docs |-> IF d = b1 THEN B ELSE A]

\* Nothing was in Pinot before.
FreshInit == Init /\ \A k \in Names \X Roles : pinot[k] = Nil

FreshSpec == FreshInit /\ [][Next]_vars

\* The two schemas are alike.
Swap == {[x \in {A, B, a1, b1} |->
            CASE x = A -> B [] x = B -> A [] x = a1 -> b1 [] x = b1 -> a1]}
=============================================================================
