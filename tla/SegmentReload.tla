--------------------------- MODULE SegmentReload ---------------------------
(***************************************************************************)
(* Segment reloads: the table controller watches PinotSchema resources and *)
(* has Pinot reload the segments of the tables whose schema was updated.   *)
(* All of it happens in the UpdateFunc of a predicate, which the informer  *)
(* runs for one event at a time while the schema reconciler and users go   *)
(* on.  It always returns false: no reconcile follows, and an event is     *)
(* never looked at again.                                                  *)
(*                                                                         *)
(* One schema and the tables of its namespace.                             *)
(***************************************************************************)
EXTENDS Naturals

CONSTANTS Tables,     \* PinotTable resources of the namespace
          Matching,   \* those whose segmentsConfig names the schema
          Docs,       \* documents that users give the schema
          Nil,        \* no schema, no table, no document
          MaxEvents   \* bound: update events that wait for the predicate

ASSUME SegmentReloadAssumption ==
    /\ Matching \subseteq Tables
    /\ Nil \notin Tables \cup Docs
    /\ MaxEvents \in Nat

VARIABLES schema,     \* the schema, or Nil once removed
          cached,     \* the schema as the manager's informer has it
          served,     \* the document that Pinot has
          put,        \* the document of a PUT the schema reconciler is about, or Nil
          outcome,    \* of a PUT that is not in the status yet, or ""
          events,     \* update events of the schema that wait for the predicate
          optedIn,    \* tables with segmentReload
          log,        \* the reloadStatus of a table: the document that its last
                      \* response was for, or Nil when the list is empty
          listed,     \* tables whose list is not empty in the informer's copy
          handler,    \* the predicate and its local variables
          reloaded,   \* the document Pinot had when it last reloaded a table
          excused     \* history: tables the last look may have passed by

schemaVars == <<schema, cached, served, put, outcome, events>>
tableVars == <<optedIn, log, listed, reloaded>>
vars == <<schemaVars, tableVars, handler, excused>>

Messages == {"CreateSuccess", "UpdateSuccess", "UpdateFail"}

\* doc is the spec, current what the status has as such, msg its message.
Schemas == [doc : Docs, current : Docs, msg : Messages]

\* msg is what the schema's status said, todo the tables still to visit,
\* table the one being reloaded.
Resting == [pc |-> "rest", msg |-> "CreateSuccess", todo |-> {}, table |-> Nil]

Handlers == {Resting} \cup
    [pc : {"sleep", "loop", "post", "patch"}, msg : Messages,
     todo : SUBSET Tables, table : Tables \cup {Nil}]

\* A schema that has been created, and its tables.
Init ==
    /\ served \in Docs
    /\ schema = [doc |-> served, current |-> served, msg |-> "CreateSuccess"]
    /\ cached = schema
    /\ put = Nil /\ outcome = "" /\ events = 0
    /\ optedIn \in SUBSET Tables
    /\ log = [t \in Tables |-> Nil] /\ listed = {}
    /\ handler = Resting
    /\ reloaded = [t \in Tables |-> served]
    /\ excused = {}

-----------------------------------------------------------------------------
(* Users, the informer, and the two reconcilers as the predicate sees them *)

\* To any other document, one that Pinot had before or has now included.
EditSchema ==
    /\ schema # Nil /\ events < MaxEvents
    /\ \E d \in Docs \ {schema.doc} : schema' = [schema EXCEPT !.doc = d]
    /\ events' = events + 1
    /\ UNCHANGED <<cached, served, put, outcome, tableVars, handler, excused>>

\* What a deletion, whose own events the predicate ignores, ends in.
RemoveSchema ==
    /\ schema # Nil /\ put = Nil /\ outcome = ""
    /\ schema' = Nil
    /\ UNCHANGED <<cached, served, put, outcome, events, tableVars, handler, excused>>

DeliverSchema ==
    /\ cached # schema
    /\ cached' = schema
    /\ UNCHANGED <<schema, served, put, outcome, events, tableVars, handler, excused>>

\* A reconcile of the schema finds that an update is due.
DecidePut ==
    /\ schema # Nil /\ put = Nil /\ outcome = ""
    /\ cached.current # cached.doc
    /\ put' = cached.doc
    /\ UNCHANGED <<schema, cached, served, outcome, events, tableVars, handler, excused>>

\* Taken, refused, or lost on one of the two ways; the user may have gone back
\* to the document that is recorded meanwhile.
PutSchema ==
    /\ put # Nil
    /\ \/ outcome' = "UpdateSuccess" /\ served' = put
       \/ outcome' = "UpdateFail" /\ UNCHANGED served
       \/ UNCHANGED outcome /\ served' \in {served, put}
    /\ put' = Nil
    /\ UNCHANGED <<schema, cached, events, tableVars, handler, excused>>

\* The status records the spec as the cache has it by now: what differs from
\* the cached copy is patched.  Whether the event filters let the event of a
\* status through is left open.
RecordOutcome ==
    /\ schema # Nil /\ outcome # ""
    /\ \/ /\ schema' = [schema EXCEPT
              !.current = IF cached.current = cached.doc THEN @ ELSE cached.doc,
              !.msg = IF cached.msg = outcome THEN @ ELSE outcome]
          /\ events' \in {events, events + 1} \cap 0..MaxEvents
       \/ UNCHANGED <<schema, events>>
    /\ outcome' = ""
    /\ UNCHANGED <<cached, served, put, tableVars, handler, excused>>

ToggleReload(t) ==
    /\ optedIn' = IF t \in optedIn THEN optedIn \ {t} ELSE optedIn \cup {t}
    /\ excused' = excused \cup {t}
    /\ UNCHANGED <<schemaVars, log, listed, reloaded, handler>>

DeliverTable(t) ==
    /\ listed' = IF log[t] = Nil THEN listed \ {t} ELSE listed \cup {t}
    /\ UNCHANGED <<schemaVars, optedIn, log, reloaded, handler, excused>>

\* The table's own reconciler records an outcome, and an empty list with it.
\* The patch leaves the list as it is when the cached one is empty already,
\* unless that one was never set.
RecordTable(t) ==
    /\ \/ log' = [log EXCEPT ![t] = Nil]
       \/ t \notin listed /\ UNCHANGED log
    /\ UNCHANGED <<schemaVars, optedIn, listed, reloaded, handler, excused>>

-----------------------------------------------------------------------------
(* The predicate *)

\* An update event: first of all, give the schema controller time.
Sleep ==
    /\ handler = Resting /\ events > 0
    /\ handler' = [Resting EXCEPT !.pc = "sleep"]
    /\ events' = events - 1
    /\ UNCHANGED <<schema, cached, served, put, outcome, tableVars, excused>>

\* The schema controller is through with the schema as it is.
SettledSchema ==
    /\ schema # Nil /\ cached = schema
    /\ schema.current = schema.doc
    /\ put = Nil /\ outcome = ""

\* Mutant of Wake: the error of the read is not looked at.
WakeUnchecked ==
    /\ handler.pc = "sleep"
    /\ handler' = [handler EXCEPT !.pc = "loop", !.todo = Tables,
                                  !.msg = IF cached = Nil THEN "" ELSE cached.msg]
    /\ excused' = IF SettledSchema THEN {} ELSE Tables
    /\ UNCHANGED <<schemaVars, tableVars>>

\* After two seconds: read the schema, list the tables.  It may be too early.
Wake ==
    /\ handler.pc = "sleep"
    /\ handler' = IF cached = Nil THEN Resting
                  ELSE [handler EXCEPT !.pc = "loop", !.msg = cached.msg, !.todo = Tables]
    /\ excused' = IF SettledSchema THEN {} ELSE Tables
    /\ UNCHANGED <<schemaVars, tableVars>>

Wanted(t) == handler.msg = "UpdateSuccess" /\ t \in Matching

\* The next table of the list, which the cache gives in no particular order.
\* One without segmentReload ends the loop.
Visit(t) ==
    /\ handler.pc = "loop" /\ t \in handler.todo
    /\ handler' = IF t \notin optedIn THEN Resting
                  ELSE IF Wanted(t) THEN [handler EXCEPT !.pc = "post", !.table = t]
                  ELSE [handler EXCEPT !.todo = @ \ {t}]
    /\ excused' = IF t \notin optedIn THEN excused \cup handler.todo ELSE excused
    /\ UNCHANGED <<schemaVars, tableVars>>

LoopEnd ==
    /\ handler.pc = "loop" /\ handler.todo = {}
    /\ handler' = Resting
    /\ UNCHANGED <<schemaVars, tableVars, excused>>

\* POST .../reload; the status of the answer is not looked at.
PostReload ==
    /\ handler.pc = "post"
    /\ handler' = [handler EXCEPT !.pc = "patch"]
    /\ \/ reloaded' = [reloaded EXCEPT ![handler.table] = served] /\ UNCHANGED excused
       \/ UNCHANGED reloaded /\ excused' = excused \cup {handler.table}
    /\ UNCHANGED <<schemaVars, optedIn, log, listed>>

\* Mutant of PatchReload: the loop ends with the first reload.
PatchAndReturn ==
    /\ handler.pc = "patch"
    /\ log' = [log EXCEPT ![handler.table] = reloaded[handler.table]]
    /\ handler' = Resting
    /\ UNCHANGED <<schemaVars, optedIn, listed, reloaded, excused>>

\* PatchStatus: the list as read from the cache, with the response appended,
\* takes the place of the list in the status, whatever was there before.
PatchReload ==
    /\ handler.pc = "patch"
    /\ log' = [log EXCEPT ![handler.table] = reloaded[handler.table]]
    /\ handler' = [handler EXCEPT !.pc = "loop", !.table = Nil, !.todo = @ \ {handler.table}]
    /\ UNCHANGED <<schemaVars, optedIn, listed, reloaded, excused>>

\* A lookup, a document or a call failed.
GiveUp ==
    /\ handler # Resting
    /\ handler' = Resting
    /\ excused' = Tables
    /\ UNCHANGED <<schemaVars, tableVars>>

\* A manager that starts lists what there is: to its informers the objects are
\* new, and update events that were on their way never reach the predicate,
\* whether it was at work or at rest.
Restart ==
    /\ cached' = schema /\ listed' = {t \in Tables : log[t] # Nil}
    /\ put' = Nil /\ outcome' = "" /\ events' = 0
    /\ handler' = Resting
    /\ excused' = Tables
    /\ UNCHANGED <<schema, served, optedIn, log, reloaded>>

Predicate ==
    \/ Sleep \/ Wake
    \/ \E t \in Tables : Visit(t)
    \/ LoopEnd \/ PostReload \/ PatchReload

Next ==
    \/ EditSchema \/ RemoveSchema \/ DeliverSchema
    \/ DecidePut \/ PutSchema \/ RecordOutcome
    \/ \E t \in Tables : ToggleReload(t) \/ DeliverTable(t) \/ RecordTable(t)
    \/ Predicate \/ GiveUp \/ Restart

Spec == Init /\ [][Next]_vars

-----------------------------------------------------------------------------
(* Properties *)

TypeOK ==
    /\ schema \in Schemas \cup {Nil} /\ cached \in Schemas \cup {Nil}
    /\ cached = Nil => schema = Nil
    /\ served \in Docs
    /\ put \in Docs \cup {Nil}
    /\ outcome \in {"", "UpdateSuccess", "UpdateFail"}
    /\ events \in 0..MaxEvents
    /\ optedIn \subseteq Tables
    /\ log \in [Tables -> Docs \cup {Nil}]
    /\ listed \subseteq Tables
    /\ handler \in Handlers
    /\ reloaded \in [Tables -> Docs]
    /\ excused \subseteq Tables

\* With the predicate at rest after its last event and a successful update in
\* the status: Pinot has reloaded every table that asks for it with the
\* schema it now has, and the table's status says so or, emptied by the table's
\* own reconciler since, says nothing.  Excused are tables that the user
\* changed since, and all those that the last look did not come to: it was too
\* early, found a table without segmentReload first, was cut short, or the
\* manager was started anew.
NothingPassedBy ==
    handler = Resting /\ events = 0 /\ schema # Nil /\ schema.msg = "UpdateSuccess" =>
      \A t \in (Matching \cap optedIn) \ excused :
        /\ reloaded[t] = served
        /\ log[t] \in {served, Nil}
=============================================================================
