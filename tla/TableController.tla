--------------------------- MODULE TableController ---------------------------
(***************************************************************************)
(* The PinotTable controller: PinotTable resources, edited by users at any *)
(* time, their reconciler, and the tables a Pinot cluster holds.  A name   *)
(* may belong to an offline table and to a realtime table (hybrid).        *)
(***************************************************************************)
EXTENDS ManagedResource

(* CreateOrUpdate *)

\* Mutant of GetTable: a table that the status has as created is not created.
GetTableOnce ==
    /\ ctl.pc = "get"
    /\ \E answer \in Answers :
         /\ Get(ctl.path, answer)
         /\ ctl' = CASE answer = "absent" ->
                          IF ctl.obj.current = Nil
                            THEN [ctl EXCEPT !.pc = "post"]
                            ELSE Comparing(ctl)
                     [] answer \in {"ok", "refused"} ->
                          IF ctl.obj.current = Nil
                            THEN Recording(ctl, "CreateSuccess", "compare")
                            ELSE Comparing(ctl)
                     [] answer = "error" -> Idle
    /\ UNCHANGED apiVars

\* GET answers with the body "{}" when no table has the name.  Every other
\* body, that of an error too, is taken for an existing table.
GetTable ==
    /\ ctl.pc = "get"
    /\ \E answer \in Answers :
         /\ Get(ctl.path, answer)
         /\ ctl' = CASE answer = "absent" -> [ctl EXCEPT !.pc = "post"]
                     [] answer \in {"ok", "refused"} ->
                          IF ctl.obj.current = Nil
                            THEN Recording(ctl, "CreateSuccess", "compare")
                            ELSE Comparing(ctl)
                     [] answer = "error" -> Idle
    /\ UNCHANGED apiVars

\* Whatever status POST answers with, the one patched in is CreateSuccess.
AfterPost(answer) ==
    ctl' = IF answer = "error" THEN Idle ELSE Recording(ctl, "CreateSuccess", "finalize")

\* POST the spec.
PostTable ==
    /\ ctl.pc = "post"
    /\ \E answer \in Answers : Post(ctl.obj.doc, answer) /\ AfterPost(answer)
    /\ UNCHANGED apiVars

\* PUT the spec; both outcomes are recorded in the status.
PutTable ==
    /\ ctl.pc = "put"
    /\ \E answer \in Answers :
         /\ Put(ctl.path, ctl.obj.doc, answer)
         /\ ctl' = CASE answer = "ok" -> Recording(ctl, "UpdateSuccess", "finalize")
                     [] answer = "refused" -> Recording(ctl, "UpdateFail", "finalize")
                     [] OTHER -> Idle
    /\ UNCHANGED apiVars

\* DELETE without a type: the offline and the realtime table of the name go.
DeleteTable == DeleteResource(Roles)

-----------------------------------------------------------------------------

\* The calls of do().
Step ==
    /\ \/ GetTable \/ PostTable \/ PutTable
       \/ Reread \/ Patch
       \/ AddFinalizer \/ DeleteTable \/ RemoveFinalizer
    /\ NoteCut

Next == Step \/ Environment

Spec == Init /\ [][Next]_vars

FairSpec == Spec /\ SF_vars(Step) /\ Fairness
=============================================================================
