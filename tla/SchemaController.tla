-------------------------- MODULE SchemaController --------------------------
(***************************************************************************)
(* The PinotSchema controller: PinotSchema resources, edited by users at   *)
(* any time, their reconciler, and the schemas a Pinot cluster holds.      *)
(***************************************************************************)
EXTENDS ManagedResource

(* CreateOrUpdate *)

\* GET: create what is absent, adopt what exists but is not in the status,
\* compare otherwise.  Any other status falls through to the end of do().
GetSchema ==
    /\ ctl.pc = "get"
    /\ \E answer \in Answers :
         /\ Get(ctl.path, answer)
         /\ ctl' = CASE answer = "absent" -> [ctl EXCEPT !.pc = "post"]
                     [] answer = "ok" ->
                          IF ctl.obj.current = Nil
                            THEN Recording(ctl, "CreateSuccess", "compare")
                            ELSE Comparing(ctl)
                     [] answer = "refused" -> Finalizing(ctl)
                     [] answer = "error" -> Idle
    /\ UNCHANGED apiVars

\* Mutant of PostSchema: every outcome is recorded as a success.
PostSchemaMislabelled ==
    /\ ctl.pc = "post"
    /\ \E answer \in Answers :
         /\ Post(ctl.obj.doc, answer)
         /\ ctl' = IF answer = "error" THEN Idle
                   ELSE Recording(ctl, "CreateSuccess", "finalize")
    /\ UNCHANGED apiVars

\* POST the spec; both outcomes are recorded in the status.
PostSchema ==
    /\ ctl.pc = "post"
    /\ \E answer \in Answers :
         /\ Post(ctl.obj.doc, answer)
         /\ ctl' = CASE answer = "ok" -> Recording(ctl, "CreateSuccess", "finalize")
                     [] answer = "refused" -> Recording(ctl, "CreateFail", "finalize")
                     [] OTHER -> Idle
    /\ UNCHANGED apiVars

\* PUT the spec; both outcomes are recorded in the status.
PutSchema ==
    /\ ctl.pc = "put"
    /\ \E answer \in Answers :
         /\ Put(ctl.path, ctl.obj.doc, answer)
         /\ ctl' = CASE answer = "ok" -> Recording(ctl, "UpdateSuccess", "finalize")
                     [] answer = "refused" -> Recording(ctl, "UpdateFail", "finalize")
                     [] OTHER -> Idle
    /\ UNCHANGED apiVars

DeleteSchema == DeleteResource(Roles)

-----------------------------------------------------------------------------

\* The calls of do().
Step ==
    /\ \/ GetSchema \/ PostSchema \/ PutSchema
       \/ Reread \/ Patch
       \/ AddFinalizer \/ DeleteSchema \/ RemoveFinalizer
    /\ NoteCut

Next == Step \/ Environment

Spec == Init /\ [][Next]_vars

FairSpec == Spec /\ SF_vars(Step) /\ Fairness
=============================================================================
