------------------------- MODULE SegmentReload_proofs -------------------------
(***************************************************************************)
(* Safety of the segment reload predicate for any tables, any of which may *)
(* name the schema, and any documents of it.                               *)
(***************************************************************************)
EXTENDS SegmentReload, TLAPS

\* A table that the last event was to reload, and that nothing excuses.
Asks(t) == t \in (Matching \cap optedIn) \ excused

Done(t) == reloaded[t] = served /\ log[t] \in {served, Nil}

\* No event waits and the predicate has read the schema since the last one.
CaughtUp == events = 0 /\ handler.pc # "sleep" /\ schema # Nil

\* What holds from the moment an event is looked at until the next one comes:
\* either it was looked at too early or in vain, and excuses every table, or
\* the schema is still as the predicate found it, and the tables that are
\* behind the one being visited are done.
Follows ==
    CaughtUp =>
      \/ excused = Tables
      \/ /\ SettledSchema
         /\ handler # Resting => handler.msg = schema.msg
         /\ schema.msg = "UpdateSuccess" =>
              \A t \in Tables : Asks(t) =>
                /\ handler = Resting \/ t \notin handler.todo => Done(t)
                /\ handler.pc = "patch" /\ handler.table = t => reloaded[t] = served

\* Between the choice of a table and its patch the predicate has one in hand.
InHand == handler.pc \in {"post", "patch"} => handler.table \in Tables

IInv == TypeOK /\ InHand /\ Follows

-----------------------------------------------------------------------------
(* Types *)

LEMMA RestingHandler ==
    /\ Resting \in Handlers /\ Resting.pc = "rest"
    /\ \A h \in Handlers : h # Resting => h.pc # "rest"
<1>1. Resting \in Handlers
  BY DEF Handlers
<1>2. Resting.pc = "rest"
  BY DEF Resting
<1>3. ASSUME NEW h \in Handlers, h # Resting
      PROVE  h.pc # "rest"
  BY <1>3 DEF Handlers
<1> QED
  BY <1>1, <1>2, <1>3

\* How many events may wait.
LEMMA Waiting ==
    ASSUME TypeOK
    PROVE  events \in 0..MaxEvents /\ events \in Nat /\ MaxEvents \in Nat
<1>1. events \in 0..MaxEvents
  BY DEF TypeOK
<1>2. MaxEvents \in Nat
  BY SegmentReloadAssumption
<1> QED
  BY <1>1, <1>2

LEMMA InitType == Init => TypeOK /\ InHand
<1> SUFFICES ASSUME Init
             PROVE  TypeOK /\ InHand
  OBVIOUS
<1>1. schema \in Schemas
  <2>1. served \in Docs /\ schema = [doc |-> served, current |-> served, msg |-> "CreateSuccess"]
    BY DEF Init
  <2>2. "CreateSuccess" \in Messages
    BY DEF Messages
  <2> QED
    BY <2>1, <2>2 DEF Schemas
<1>2. handler \in Handlers /\ InHand
  BY RestingHandler DEF Init, InHand
<1>3. log \in [Tables -> Docs \cup {Nil}] /\ reloaded \in [Tables -> Docs]
  BY DEF Init
<1>4. events \in 0..MaxEvents
  <2>1. events = 0
    BY DEF Init
  <2> QED
    BY <2>1, SegmentReloadAssumption
<1>5. /\ served \in Docs /\ cached = schema /\ put = Nil /\ outcome = ""
      /\ optedIn \subseteq Tables /\ listed = {} /\ excused = {}
  BY DEF Init
<1> QED
  BY <1>1, <1>2, <1>3, <1>4, <1>5 DEF TypeOK

\* Users, the informer and the two reconcilers.
Others ==
    \/ EditSchema \/ RemoveSchema \/ DeliverSchema
    \/ DecidePut \/ PutSchema \/ RecordOutcome
    \/ \E t \in Tables : ToggleReload(t) \/ DeliverTable(t) \/ RecordTable(t)

LEMMA OthersType ==
    ASSUME TypeOK, InHand, Others
    PROVE  TypeOK' /\ InHand'
<1>b. schema # Nil => schema \in Schemas /\ cached \in Schemas
  BY DEF TypeOK
<1>c. EditSchema \/ RecordOutcome => events' \in 0..MaxEvents
  <2>1. events \in Nat /\ MaxEvents \in Nat
    BY Waiting
  <2>2. EditSchema => events < MaxEvents /\ events' = events + 1
    BY DEF EditSchema
  <2>3. EditSchema => events' \in 0..MaxEvents
    BY <2>1, <2>2
  <2>4. RecordOutcome => events' \in 0..MaxEvents
    BY Waiting DEF RecordOutcome
  <2> QED
    BY <2>3, <2>4
<1> USE DEF TypeOK, schemaVars, tableVars
<1>0. InHand'
  BY DEF Others, InHand, EditSchema, RemoveSchema, DeliverSchema, DecidePut, PutSchema,
         RecordOutcome, ToggleReload, DeliverTable, RecordTable
<1>1. CASE EditSchema
  <2>1. schema' \in Schemas
    BY <1>1, <1>b DEF EditSchema, Schemas
  <2>2. events' \in 0..MaxEvents
    BY <1>1, <1>c
  <2>3. cached # Nil
    BY <1>1 DEF EditSchema
  <2> QED
    BY <1>0, <1>1, <2>1, <2>2, <2>3 DEF EditSchema
<1>2. CASE RemoveSchema
  BY <1>0, <1>2 DEF RemoveSchema
<1>3. CASE DeliverSchema
  BY <1>0, <1>3 DEF DeliverSchema
<1>4. CASE DecidePut
  <2>1. cached.doc \in Docs
    BY <1>4, <1>b DEF DecidePut, Schemas
  <2> QED
    BY <1>0, <1>4, <2>1 DEF DecidePut
<1>5. CASE PutSchema
  BY <1>0, <1>5 DEF PutSchema
<1>6. CASE RecordOutcome
  <2>1. schema' \in Schemas
    <3>1. schema \in Schemas /\ cached.doc \in Docs /\ outcome \in Messages
      BY <1>6, <1>b DEF RecordOutcome, Schemas, Messages
    <3> QED
      BY <1>6, <3>1 DEF RecordOutcome, Schemas
  <2>2. events' \in 0..MaxEvents
    BY <1>6, <1>c
  <2>3. cached # Nil
    BY <1>6 DEF RecordOutcome
  <2> QED
    BY <1>0, <1>6, <2>1, <2>2, <2>3 DEF RecordOutcome
<1>7. ASSUME NEW t \in Tables, ToggleReload(t) \/ DeliverTable(t)
      PROVE  TypeOK' /\ InHand'
  BY <1>0, <1>7 DEF ToggleReload, DeliverTable
<1>8. ASSUME NEW t \in Tables, RecordTable(t)
      PROVE  TypeOK' /\ InHand'
  BY <1>0, <1>8 DEF RecordTable
<1> QED
  BY <1>1, <1>2, <1>3, <1>4, <1>5, <1>6, <1>7, <1>8 DEF Others

\* The predicate.
LEMMA PredicateType ==
    ASSUME TypeOK, InHand, Predicate \/ GiveUp \/ Restart
    PROVE  TypeOK' /\ InHand'
<1>b. Sleep \/ Restart => events' \in 0..MaxEvents
  <2>1. events \in Nat /\ events \in 0..MaxEvents /\ MaxEvents \in Nat
    BY Waiting
  <2>2. /\ Sleep => events > 0 /\ events' = events - 1
        /\ Restart => events' = 0
    BY DEF Sleep, Restart
  <2> QED
    BY <2>1, <2>2
<1> USE DEF TypeOK, schemaVars, tableVars
<1> Resting \in Handlers /\ Resting.pc = "rest"
  BY RestingHandler
<1>1. CASE Sleep
  <2>1. handler' \in Handlers /\ handler'.pc = "sleep"
    BY <1>1 DEF Sleep, Handlers, Resting, Messages
  <2> QED
    BY <1>1, <1>b, <2>1 DEF Sleep, InHand
<1>2. CASE Wake
  <2>1. handler' \in Handlers /\ handler'.pc \in {"rest", "loop"}
    BY <1>2 DEF Wake, Handlers, Resting, Schemas
  <2> QED
    BY <1>2, <2>1 DEF Wake, InHand
<1>3. ASSUME NEW t \in Tables, Visit(t)
      PROVE  TypeOK' /\ InHand'
  <2>1. handler' \in Handlers /\ InHand'
    BY <1>3 DEF Visit, Handlers, Resting, InHand
  <2>2. excused' \subseteq Tables
    BY <1>3 DEF Visit, Handlers, Resting
  <2> QED
    BY <1>3, <2>1, <2>2 DEF Visit
<1>4. CASE LoopEnd
  BY <1>4 DEF LoopEnd, InHand
<1>5. CASE PostReload
  <2>1. handler' \in Handlers /\ InHand' /\ handler.table \in Tables
    BY <1>5 DEF PostReload, Handlers, Resting, InHand
  <2> QED
    BY <1>5, <2>1 DEF PostReload
<1>6. CASE PatchReload
  <2>1. handler' \in Handlers /\ handler'.pc = "loop" /\ handler.table \in Tables
    BY <1>6 DEF PatchReload, Handlers, Resting, InHand
  <2>2. log' \in [Tables -> Docs \cup {Nil}]
    BY <1>6, <2>1 DEF PatchReload
  <2> QED
    BY <1>6, <2>1, <2>2 DEF PatchReload, InHand
<1>7. CASE GiveUp
  BY <1>7 DEF GiveUp, InHand
<1>8. CASE Restart
  BY <1>8, <1>b DEF Restart, InHand
<1> QED
  BY <1>1, <1>2, <1>3, <1>4, <1>5, <1>6, <1>7, <1>8 DEF Predicate

-----------------------------------------------------------------------------
(* What follows a look at the schema *)

\* While no event waits, the schema is settled or every table is excused; of a
\* settled schema no update is due.
LEMMA OthersFollow ==
    ASSUME TypeOK, Follows, Others
    PROVE  Follows'
<1>a. events \in Nat /\ MaxEvents \in Nat
  BY Waiting
<1> SUFFICES ASSUME CaughtUp'
             PROVE  Follows'
  BY DEF Follows
<1> USE DEF CaughtUp, schemaVars, tableVars
<1>1. CASE EditSchema
  <2>1. events' = events + 1 /\ events' = 0
    BY <1>1 DEF EditSchema
  <2> QED
    BY <1>a, <2>1
<1>2. CASE RemoveSchema
  BY <1>2 DEF RemoveSchema
<1>3. CASE DeliverSchema
  BY <1>3 DEF DeliverSchema, Follows, SettledSchema
<1>4. CASE DecidePut
  BY <1>4 DEF DecidePut, Follows, SettledSchema
<1>5. CASE PutSchema
  <2>1. put # Nil /\ UNCHANGED <<schema, events, handler, excused>>
    BY <1>5 DEF PutSchema
  <2> QED
    BY <2>1 DEF Follows, SettledSchema
<1>6. CASE RecordOutcome
  <2>1. events = 0
    <3>1. events' = 0 /\ (events' = events \/ events' = events + 1)
      BY <1>6 DEF RecordOutcome
    <3> QED
      BY <1>a, <3>1
  <2>2. schema # Nil /\ outcome # "" /\ UNCHANGED <<handler, excused>>
    BY <1>6 DEF RecordOutcome
  <2> QED
    BY <2>1, <2>2 DEF Follows, SettledSchema
<1>7. ASSUME NEW u \in Tables, ToggleReload(u)
      PROVE  Follows'
  <2>1. /\ UNCHANGED <<schemaVars, log, reloaded, handler>>
        /\ \A t \in Tables : Asks(t)' => Asks(t)
        /\ excused \subseteq excused'
        /\ excused' \subseteq Tables
    BY <1>7 DEF ToggleReload, Asks, TypeOK
  <2> QED
    BY <2>1 DEF Follows, SettledSchema, Done
<1>8. ASSUME NEW u \in Tables, DeliverTable(u)
      PROVE  Follows'
  BY <1>8 DEF DeliverTable, Follows, SettledSchema, Done, Asks
<1>9. ASSUME NEW u \in Tables, RecordTable(u)
      PROVE  Follows'
  <2>1. UNCHANGED <<schemaVars, optedIn, reloaded, handler, excused>>
    BY <1>9 DEF RecordTable
  <2>2. \A t \in Tables : log'[t] \in {log[t], Nil}
    BY <1>9 DEF RecordTable, TypeOK
  <2> QED
    BY <2>1, <2>2 DEF Follows, SettledSchema, Done, Asks
<1> QED
  BY <1>1, <1>2, <1>3, <1>4, <1>5, <1>6, <1>7, <1>8, <1>9 DEF Others

\* The predicate goes through the tables one at a time.
LEMMA PredicateFollows ==
    ASSUME TypeOK, InHand, Follows, Predicate \/ GiveUp \/ Restart
    PROVE  Follows'
<1> USE DEF CaughtUp, schemaVars, tableVars
<1> handler \in Handlers /\ excused \subseteq Tables
  BY DEF TypeOK
<1>1. CASE Sleep
  BY <1>1 DEF Sleep, Follows, Resting
<1>2. CASE Wake
  <2>1. CASE SettledSchema
    <3>1. /\ handler' = [handler EXCEPT !.pc = "loop", !.msg = schema.msg, !.todo = Tables]
          /\ UNCHANGED schemaVars
      BY <1>2, <2>1 DEF Wake, SettledSchema
    <3>2. handler'.pc = "loop" /\ handler'.msg = schema.msg /\ handler'.todo = Tables
      BY <1>2, <3>1 DEF Wake, Handlers, Resting
    <3> QED
      BY <2>1, <3>1, <3>2, RestingHandler DEF Follows, SettledSchema
  <2>2. CASE ~SettledSchema
    BY <1>2, <2>2 DEF Wake, Follows
  <2> QED
    BY <2>1, <2>2
<1>3. ASSUME NEW u \in Tables, Visit(u)
      PROVE  Follows'
  <2>1. /\ handler.pc = "loop" /\ u \in handler.todo
        /\ UNCHANGED <<schemaVars, tableVars>>
    BY <1>3 DEF Visit
  <2>2. CASE u \notin optedIn
    <3>1. handler' = Resting /\ excused' = excused \cup handler.todo
      BY <1>3, <2>2 DEF Visit
    <3>2. excused = Tables => excused' = Tables
      BY <3>1, <2>1 DEF Handlers, Resting
    <3> QED
      BY <2>1, <3>1, <3>2, RestingHandler DEF Follows, SettledSchema, Done, Asks
  <2>3. CASE u \in optedIn /\ Wanted(u)
    <3>1. handler' = [handler EXCEPT !.pc = "post", !.table = u] /\ excused' = excused
      BY <1>3, <2>3 DEF Visit
    <3>2. handler'.pc = "post" /\ handler'.todo = handler.todo /\ handler'.msg = handler.msg
      BY <2>1, <3>1 DEF Handlers, Resting
    <3> QED
      BY <2>1, <3>1, <3>2, RestingHandler DEF Follows, SettledSchema, Done, Asks
  <2>4. CASE u \in optedIn /\ ~Wanted(u)
    <3>1. handler' = [handler EXCEPT !.todo = @ \ {u}] /\ excused' = excused
      BY <1>3, <2>4 DEF Visit
    <3>2. /\ handler'.pc = "loop" /\ handler'.todo = handler.todo \ {u}
          /\ handler'.msg = handler.msg
      BY <2>1, <3>1 DEF Handlers, Resting
    <3>3. handler.msg = "UpdateSuccess" => ~Asks(u)
      BY <2>4 DEF Wanted, Asks
    <3> QED
      BY <2>1, <3>1, <3>2, <3>3, RestingHandler DEF Follows, SettledSchema, Done, Asks
  <2> QED
    BY <2>2, <2>3, <2>4
<1>4. CASE LoopEnd
  BY <1>4, RestingHandler DEF LoopEnd, Follows, SettledSchema, Done, Asks
<1>5. CASE PostReload
  <2>1. /\ handler.pc = "post" /\ UNCHANGED <<schemaVars, optedIn, log>>
        /\ handler' = [handler EXCEPT !.pc = "patch"]
    BY <1>5 DEF PostReload
  <2>2. /\ handler'.pc = "patch" /\ handler'.todo = handler.todo
        /\ handler'.msg = handler.msg /\ handler'.table = handler.table
    BY <2>1 DEF Handlers, Resting
  <2>3. handler.table \in Tables /\ reloaded \in [Tables -> Docs]
    BY <2>1 DEF InHand, TypeOK
  <2>4. CASE reloaded' = [reloaded EXCEPT ![handler.table] = served] /\ UNCHANGED excused
    <3>1. \A t \in Tables :
            reloaded'[t] = IF t = handler.table THEN served ELSE reloaded[t]
      BY <2>3, <2>4
    <3> QED
      BY <2>1, <2>2, <2>4, <3>1, RestingHandler DEF Follows, SettledSchema, Done, Asks
  <2>5. CASE UNCHANGED reloaded /\ excused' = excused \cup {handler.table}
    BY <2>1, <2>2, <2>3, <2>5, RestingHandler DEF Follows, SettledSchema, Done, Asks
  <2> QED
    BY <1>5, <2>4, <2>5 DEF PostReload
<1>6. CASE PatchReload
  <2>1. /\ handler.pc = "patch"
        /\ UNCHANGED <<schemaVars, optedIn, reloaded, excused>>
        /\ handler.table \in Tables /\ log \in [Tables -> Docs \cup {Nil}]
    BY <1>6 DEF PatchReload, InHand, TypeOK
  <2>2. /\ handler'.pc = "loop" /\ handler'.todo = handler.todo \ {handler.table}
        /\ handler'.msg = handler.msg
    BY <1>6, <2>1 DEF PatchReload, Handlers, Resting
  <2>3. /\ log'[handler.table] = reloaded[handler.table]
        /\ \A t \in Tables \ {handler.table} : log'[t] = log[t]
    BY <1>6, <2>1 DEF PatchReload
  <2> QED
    BY <2>1, <2>2, <2>3, RestingHandler DEF Follows, SettledSchema, Done, Asks
<1>7. CASE GiveUp \/ Restart
  BY <1>7 DEF GiveUp, Restart, Follows
<1> QED
  BY <1>1, <1>2, <1>3, <1>4, <1>5, <1>6, <1>7 DEF Predicate

-----------------------------------------------------------------------------
(* The theorems *)

LEMMA InitIInv == Init => IInv
<1> SUFFICES ASSUME Init
             PROVE  IInv
  OBVIOUS
<1>1. Follows
  <2>1. /\ schema.doc = schema.current /\ schema.msg = "CreateSuccess" /\ cached = schema
        /\ put = Nil /\ outcome = "" /\ handler = Resting
    BY DEF Init
  <2> QED
    BY <2>1 DEF Follows, CaughtUp, SettledSchema
<1> QED
  BY <1>1, InitType DEF IInv

LEMMA NextIInv == IInv /\ [Next]_vars => IInv'
<1> SUFFICES ASSUME IInv, [Next]_vars
             PROVE  IInv'
  OBVIOUS
<1> USE DEF IInv
<1>1. CASE Others
  BY <1>1, OthersType, OthersFollow
<1>2. CASE Predicate \/ GiveUp \/ Restart
  BY <1>2, PredicateType, PredicateFollows
<1>3. CASE UNCHANGED vars
  BY <1>3 DEF vars, schemaVars, tableVars, TypeOK, InHand, Follows, CaughtUp, SettledSchema,
              Done, Asks
<1> QED
  BY <1>1, <1>2, <1>3 DEF Next, Others

\* The inductive invariant holds in every reachable state.
THEOREM Invariance == Spec => []IInv
BY InitIInv, NextIInv, PTL DEF Spec

\* Every variable keeps its type.
THEOREM TypeCorrect == Spec => []TypeOK
<1>1. IInv => TypeOK
  BY DEF IInv
<1> QED
  BY <1>1, Invariance, PTL

\* Once the predicate has looked at the last event of a schema whose status
\* has a successful update, Pinot has reloaded every table that asks for it and
\* that nothing excuses with the schema it has now, and the last response in
\* the table's status is the one to that reload, if a record of the table's own
\* reconciler has not taken it away.
THEOREM NoTablePassedBy == Spec => []NothingPassedBy
<1>1. IInv => NothingPassedBy
  BY RestingHandler
  DEF IInv, TypeOK, Follows, CaughtUp, SettledSchema, NothingPassedBy, Asks, Done
<1> QED
  BY <1>1, Invariance, PTL
=============================================================================
