-------------------------- MODULE TenantController --------------------------
(***************************************************************************)
(* The PinotTenant controller: PinotTenant resources, edited by users at   *)
(* any time, their reconciler, and the tenants a Pinot cluster holds.  A   *)
(* name may belong to a broker tenant and to a server tenant.              *)
(***************************************************************************)
EXTENDS ManagedResource

(* CreateOrUpdate *)

\* GET: create what is absent, compare what exists with the status, were it
\* empty.  Any other status falls through to the end of do().
GetTenant ==
    /\ ctl.pc = "get"
    /\ \E answer \in Answers :
         /\ Get(ctl.path, answer)
         /\ ctl' = CASE answer = "absent" -> [ctl EXCEPT !.pc = "post"]
                     [] answer = "ok" -> Comparing(ctl)
                     [] answer = "refused" -> Finalizing(ctl)
                     [] answer = "error" -> Idle
    /\ UNCHANGED apiVars

\* POST the spec; both outcomes are recorded in the status.
PostTenant ==
    /\ ctl.pc = "post"
    /\ \E answer \in Answers :
         /\ Post(ctl.obj.doc, answer)
         /\ ctl' = CASE answer = "ok" -> Recording(ctl, "CreateSuccess", "finalize")
                     [] answer = "refused" -> Recording(ctl, "CreateFail", "finalize")
                     [] OTHER -> Idle
    /\ UNCHANGED apiVars

\* Mutant of PutTenant: every answer is recorded as a success.
PutTenantRecording ==
    /\ ctl.pc = "put"
    /\ \E answer \in Answers :
         /\ Put(ctl.path, ctl.obj.doc, answer)
         /\ ctl' = IF answer = "error" THEN Idle
                   ELSE Recording(ctl, "UpdateSuccess", "finalize")
    /\ UNCHANGED apiVars

\* PUT the spec; the tenant is the one the body names.  A refusal leaves the
\* status alone.
PutTenant ==
    /\ ctl.pc = "put"
    /\ \E answer \in Answers :
         /\ Put(GetValueFromJson(ctl.obj.doc), ctl.obj.doc, answer)
         /\ ctl' = CASE answer = "ok" -> Recording(ctl, "UpdateSuccess", "finalize")
                     [] answer = "refused" -> Finalizing(ctl)
                     [] OTHER -> Idle
    /\ UNCHANGED apiVars

\* Mutant of DeleteTenant: the request does not say which type.
DeleteBothTenants == DeleteResource(Roles)

\* DELETE with ?type=, which the spec has beside the document and which is
\* taken to agree with the document's tenantRole.
DeleteTenant == DeleteResource({RoleOf[ctl.obj.doc]})

-----------------------------------------------------------------------------

\* The calls of do().
Step ==
    /\ \/ GetTenant \/ PostTenant \/ PutTenant
       \/ Reread \/ Patch
       \/ AddFinalizer \/ DeleteTenant \/ RemoveFinalizer
    /\ NoteCut

Next == Step \/ Environment

Spec == Init /\ [][Next]_vars

FairSpec == Spec /\ SF_vars(Step) /\ Fairness
=============================================================================
