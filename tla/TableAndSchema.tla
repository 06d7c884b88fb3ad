--------------------------- MODULE TableAndSchema ---------------------------
(***************************************************************************)
(* The table controller beside the schema its tables are made of.  A table *)
(* resource names its schema, but the operator never reads that field: the *)
(* two controllers meet only in Pinot, which refuses a table whose schema  *)
(* is missing and keeps a schema while a table uses it.  The schema comes  *)
(* and goes as its own resource is applied and deleted.                    *)
(***************************************************************************)
EXTENDS TableController

VARIABLE schema   \* Pinot has the schema of the tables

orderVars == <<vars, schema>>

OrderTypeOK == TypeOK /\ schema \in BOOLEAN

Tables == {k \in Names \X Roles : pinot[k] # Nil}

OrderInit ==
    /\ Init
    /\ schema \in BOOLEAN
    /\ Tables # {} => schema

SchemaApplied == schema' = TRUE /\ UNCHANGED vars

SchemaDeleted == Tables = {} /\ schema' = FALSE /\ UNCHANGED vars

\* POST of a table before its schema is refused, and no fault.
PostUnbacked ==
    /\ ctl.pc = "post" /\ ~schema
    /\ AfterPost("refused")
    /\ NoteCut
    /\ UNCHANGED <<apiVars, pinotVars, schema>>

Call == (ctl.pc = "post" => schema) /\ Step /\ UNCHANGED schema

OrderNext ==
    \/ Call
    \/ PostUnbacked
    \/ SchemaApplied
    \/ SchemaDeleted
    \/ Environment /\ UNCHANGED schema

OrderSpec == OrderInit /\ [][OrderNext]_orderVars

\* Requests are answered, events delivered, the queue is served; no user acts.
OrderFairSpec ==
    /\ OrderSpec
    /\ SF_orderVars(Call)
    /\ WF_orderVars(PostUnbacked)
    /\ \A c \in CRs :
         /\ WF_orderVars(DeliverEvent(c) /\ UNCHANGED schema)
         /\ SF_orderVars(StartReconcile(c) /\ UNCHANGED schema)

-----------------------------------------------------------------------------
(* Properties *)

\* However long a table was there before its schema, and however often the
\* schema came and went: once the schema is there to stay, a table resource
\* left alone is recorded and its table served.  The status CreateSuccess that
\* the refused POST left does not stop the next one.
ServedOnceBacked ==
    \A c \in CRs, d \in Docs : <>[](schema /\ Wants(c, d)) => <>[]Served(c)

\* A table resource at rest for its controller, of a user who never raced it,
\* whose status shows the spec as current and no failed update: Pinot serves
\* it.  Only when the message is CreateSuccess, which a refused POST and an
\* error taken for an existing table leave too, may there be no table instead;
\* never one that differs.
RecordedTableIsServed ==
    \A c \in CRs :
      /\ Quiet(c)
      /\ c \notin disturbed
      /\ api[c] # Nil /\ Parses(api[c].doc) /\ api[c].current = api[c].doc
      /\ api[c].msg # "UpdateFail"
      => \/ ServedFor(api[c].doc) = api[c].doc
         \/ ServedFor(api[c].doc) = Nil /\ api[c].msg = "CreateSuccess"
=============================================================================
