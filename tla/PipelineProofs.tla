--------------------------- MODULE PipelineProofs ---------------------------
(***************************************************************************)
(* Proofs about Pipeline and OrderGates, for any events, batches and run   *)
(* identifiers.                                                            *)
(***************************************************************************)
EXTENDS OrderGates, FiniteSetTheorems, WellFoundedInduction, SequenceTheorems, TLAPS

-----------------------------------------------------------------------------
(* What a query depends on.                                                *)

LatestOf(events) ==
    IF events = {} THEN None
    ELSE CHOOSE e \in events : \A f \in events \ {e} : Later(e, f)

RollupOf(rows) ==
    IF rows = {} THEN None
    ELSE [completed_orders |-> Cardinality(rows), revenue_cents |-> Revenue(rows)]

\* The row of an order is a function of the events of that order.
LEMMA LatestReads ==
    ASSUME NEW raw, NEW o
    PROVE  Latest(raw, o) = LatestOf(OfOrder(raw, o))
BY DEF Latest, LatestOf

\* The row of a date is a function of the completed orders of that date.
LEMMA RollupReads ==
    ASSUME NEW current, NEW d
    PROVE  Rollup(current, d) = RollupOf(CompletedOn(current, d))
BY DEF Rollup, RollupOf

LEMMA NoEventsNoRow ==
    ASSUME NEW raw, NEW o, OfOrder(raw, o) = {}
    PROVE  Latest(raw, o) = None
BY DEF Latest

\* Staging keeps what is there, and changes only the orders of the batch.
LEMMA StagingIsLocal ==
    ASSUME NEW raw, NEW batch, NEW o,
           \A i \in DOMAIN batch : batch[i].order_id # o
    PROVE  Latest(Staged(raw, batch), o) = Latest(raw, o)
<1>1. OfOrder(Staged(raw, batch), o) = OfOrder(raw, o)
  BY DEF OfOrder, Staged
<1> QED
  BY <1>1, LatestReads

LEMMA StagingKeeps ==
    ASSUME NEW raw, NEW batch, NEW o, OfOrder(Staged(raw, batch), o) = {}
    PROVE  OfOrder(raw, o) = {}
BY DEF OfOrder, Staged

\* A date that no order of the batch leaves or enters keeps its rollup.
LEMMA RollupIsLocal ==
    ASSUME NEW old, NEW new, NEW orders \in SUBSET Orders, NEW d,
           \A o \in Orders \ orders : new[o] = old[o],
           d \notin CurrentDates(old, orders),
           d \notin CurrentDates(new, orders)
    PROVE  Rollup(new, d) = Rollup(old, d)
<1>1. \A o \in orders : /\ old[o] # None => DateOf(old[o]) # d
                        /\ new[o] # None => DateOf(new[o]) # d
  BY DEF CurrentDates
<1>2. ASSUME NEW e \in CompletedOn(new, d)
      PROVE  e \in CompletedOn(old, d)
  BY <1>1, <1>2 DEF CompletedOn
<1>3. ASSUME NEW e \in CompletedOn(old, d)
      PROVE  e \in CompletedOn(new, d)
  BY <1>1, <1>3 DEF CompletedOn
<1>4. CompletedOn(new, d) = CompletedOn(old, d)
  BY <1>2, <1>3
<1> QED
  BY <1>4, RollupReads

LEMMA EmptyRollup ==
    ASSUME NEW current, \A o \in Orders : current[o] = None, NEW d
    PROVE  Rollup(current, d) = None
<1>1. CompletedOn(current, d) = {}
  BY DEF CompletedOn
<1> QED
  BY <1>1, RollupReads DEF RollupOf

-----------------------------------------------------------------------------
(* The invariant: what each statement has done to the open transaction,    *)
(* relative to the committed tables, which stay what they were at BEGIN.   *)

\* A record of the four tables, with a row or None for each run.
Tables(t) ==
    /\ DOMAIN t = {"raw", "current", "revenue", "runs"}
    /\ t = [raw |-> t.raw, current |-> t.current, revenue |-> t.revenue,
            runs |-> t.runs]

InTransaction == pc \in {"begun", "staged", "upserted", "refreshed"}

Committed ==
    /\ Tables(db)
    /\ db.current = [o \in Orders |-> Latest(db.raw, o)]
    /\ db.revenue = [d \in Dates |-> Rollup(db.current, d)]
    /\ db.runs = [r \in RunIds |-> db.runs[r]]
    /\ RunningIsPrivate

JobKnown ==
    /\ pc \in {"idle", "begun", "staged", "upserted", "refreshed", "failing"}
    /\ pc # "idle" =>
          /\ job.run_id \in RunIds
          /\ job.batch \in Batches
          /\ affected_orders \subseteq Orders

Progress ==
    InTransaction =>
        /\ Tables(txn)
        /\ txn.runs = [db.runs EXCEPT ![job.run_id] = "running"]
        /\ old_dates = CurrentDates(db.current, affected_orders)
        /\ txn.raw = IF pc = "begun" THEN db.raw ELSE Staged(db.raw, job.batch)
        /\ txn.current = IF pc \in {"begun", "staged"} THEN db.current
                         ELSE [o \in Orders |-> Latest(txn.raw, o)]
        /\ txn.revenue = IF pc # "refreshed" THEN db.revenue
                         ELSE [d \in Dates |-> Rollup(txn.current, d)]

Inv == Committed /\ JobKnown /\ Progress

LEMMA AffectedOrders ==
    ASSUME NEW batch \in Batches
    PROVE  {batch[i].order_id : i \in DOMAIN batch} \subseteq Orders
BY BatchAssumption, EventAssumption

LEMMA InitInv == Init => Inv
<1> SUFFICES ASSUME Init
             PROVE  Inv
  OBVIOUS
<1>1. /\ Tables(db)
      /\ db.raw = {}
      /\ db.current = [o \in Orders |-> None]
      /\ db.revenue = [d \in Dates |-> None]
      /\ db.runs = [r \in RunIds |-> None]
      /\ pc = "idle"
  BY DEF Init, Tables
<1>2. \A o \in Orders : Latest(db.raw, o) = None
  BY <1>1, NoEventsNoRow DEF OfOrder
<1>3. \A d \in Dates : Rollup(db.current, d) = None
  BY <1>1, EmptyRollup
<1> QED
  BY <1>1, <1>2, <1>3, TableAssumption
     DEF Inv, Committed, JobKnown, Progress, InTransaction, RunningIsPrivate

\* The statements that do not end the transaction leave db and job alone.
LEMMA StatementKeeps ==
    ASSUME Inv, db' = db, job' = job, pc' \in {"staged", "upserted", "refreshed"},
           pc # "idle", Progress'
    PROVE  Inv'
<1>1. affected_orders' = affected_orders
  BY DEF affected_orders
<1> QED
  BY <1>1 DEF Inv, Committed, RunningIsPrivate, JobKnown

LEMMA LeavePreserves ==
    ASSUME Committed', Leave
    PROVE  Inv'
BY DEF Leave, Inv, JobKnown, Progress, InTransaction

LEMMA BeginPreserves ==
    ASSUME Inv, NEW batch \in Batches, NEW r \in RunIds, NEW f \in Failpoints,
           Begin(batch, r, f)
    PROVE  Inv'
<1>1. /\ db' = db
      /\ pc' = "begun"
      /\ job'.run_id = r
      /\ job'.batch = batch
      /\ old_dates' = CurrentDates(db.current, affected_orders')
  BY DEF Begin
<1>2. affected_orders' \subseteq Orders
  BY <1>1, AffectedOrders DEF affected_orders
<1>3. /\ Tables(txn')
      /\ txn'.runs = [db.runs EXCEPT ![r] = "running"]
      /\ txn'.raw = db.raw
      /\ txn'.current = db.current
      /\ txn'.revenue = db.revenue
  BY DEF Begin, Inv, Committed, Tables
<1>4. Progress'
  BY <1>1, <1>3 DEF Progress
<1> QED
  BY <1>1, <1>2, <1>4 DEF Inv, Committed, RunningIsPrivate, JobKnown

LEMMA StagePreserves ==
    ASSUME Inv, Stage
    PROVE  Inv'
<1>1. /\ pc = "begun" /\ pc' = "staged"
      /\ UNCHANGED <<db, job, old_dates>>
      /\ affected_orders' = affected_orders
      /\ txn' = [txn EXCEPT !.raw = Staged(txn.raw, job.batch)]
  BY DEF Stage, affected_orders
<1>2. Tables(txn)
  BY <1>1 DEF Inv, Progress, InTransaction
<1>3. /\ Tables(txn')
      /\ txn'.raw = Staged(txn.raw, job.batch)
      /\ txn'.current = txn.current
      /\ txn'.revenue = txn.revenue
      /\ txn'.runs = txn.runs
  BY <1>1, <1>2 DEF Tables
<1>4. Progress'
  BY <1>1, <1>3 DEF Inv, Progress, InTransaction
<1> QED
  BY <1>1, <1>4, StatementKeeps

LEMMA UpsertPreserves ==
    ASSUME Inv, Upsert
    PROVE  Inv'
<1> DEFINE New == [o \in Orders |->
                      IF o \in affected_orders /\ OfOrder(txn.raw, o) # {}
                      THEN Latest(txn.raw, o)
                      ELSE txn.current[o]]
<1>1. /\ pc = "staged" /\ pc' = "upserted"
      /\ UNCHANGED <<db, job, old_dates>>
      /\ affected_orders' = affected_orders
      /\ txn' = [txn EXCEPT !.current = New]
  BY DEF Upsert, affected_orders
<1>2. /\ Tables(txn)
      /\ txn.raw = Staged(db.raw, job.batch)
      /\ txn.current = db.current
  BY <1>1 DEF Inv, Progress, InTransaction
<1>3. ASSUME NEW o \in Orders
      PROVE  New[o] = Latest(txn.raw, o)
  <2>1. db.current[o] = Latest(db.raw, o)
    BY DEF Inv, Committed
  <2>2. CASE o \notin affected_orders
    BY <1>2, <2>1, <2>2, StagingIsLocal DEF affected_orders
  <2>3. CASE o \in affected_orders /\ OfOrder(txn.raw, o) = {}
    BY <1>2, <2>1, <2>3, StagingKeeps, NoEventsNoRow
  <2>4. CASE o \in affected_orders /\ OfOrder(txn.raw, o) # {}
    BY <2>4
  <2> QED
    BY <2>2, <2>3, <2>4
<1>4. New = [o \in Orders |-> Latest(txn.raw, o)]
  BY <1>3
<1> HIDE DEF New
<1>5. /\ Tables(txn')
      /\ txn'.raw = txn.raw
      /\ txn'.current = New
      /\ txn'.revenue = txn.revenue
      /\ txn'.runs = txn.runs
  BY <1>1, <1>2 DEF Tables
<1>6. Progress'
  BY <1>1, <1>4, <1>5 DEF Inv, Progress, InTransaction
<1> QED
  BY <1>1, <1>6, StatementKeeps

LEMMA RefreshPreserves ==
    ASSUME Inv, Refresh
    PROVE  Inv'
<1> DEFINE New == [d \in Dates |->
                      IF d \in affected_dates THEN Rollup(txn.current, d)
                      ELSE txn.revenue[d]]
<1>1. /\ pc = "upserted" /\ pc' = "refreshed"
      /\ UNCHANGED <<db, job, old_dates>>
      /\ affected_orders' = affected_orders
      /\ txn' = [txn EXCEPT !.revenue = New]
  BY DEF Refresh, affected_orders
<1>2. /\ Tables(txn)
      /\ txn.raw = Staged(db.raw, job.batch)
      /\ txn.current = [o \in Orders |-> Latest(txn.raw, o)]
      /\ txn.revenue = db.revenue
      /\ old_dates = CurrentDates(db.current, affected_orders)
      /\ affected_orders \subseteq Orders
      /\ db.current = [o \in Orders |-> Latest(db.raw, o)]
      /\ db.revenue = [d \in Dates |-> Rollup(db.current, d)]
  BY <1>1 DEF Inv, Committed, JobKnown, Progress, InTransaction
<1>3. ASSUME NEW o \in Orders \ affected_orders
      PROVE  txn.current[o] = db.current[o]
  BY <1>2, StagingIsLocal DEF affected_orders
<1>4. ASSUME NEW d \in Dates
      PROVE  New[d] = Rollup(txn.current, d)
  <2>1. CASE d \in affected_dates
    BY <2>1
  <2>2. CASE d \notin affected_dates
    <3>1. Rollup(txn.current, d) = Rollup(db.current, d)
      BY <1>2, <1>3, <2>2, RollupIsLocal DEF affected_dates
    <3> QED
      BY <1>2, <2>2, <3>1
  <2> QED
    BY <2>1, <2>2
<1>5. New = [d \in Dates |-> Rollup(txn.current, d)]
  BY <1>4
<1> HIDE DEF New
<1>6. /\ Tables(txn')
      /\ txn'.raw = txn.raw
      /\ txn'.current = txn.current
      /\ txn'.revenue = New
      /\ txn'.runs = txn.runs
  BY <1>1, <1>2 DEF Tables
<1>7. Progress'
  BY <1>1, <1>5, <1>6 DEF Inv, Progress, InTransaction
<1> QED
  BY <1>1, <1>7, StatementKeeps

\* What COMMIT installs.
LEMMA CommitInstalls ==
    ASSUME Inv, Commit
    PROVE  /\ job.run_id \in RunIds
           /\ job.batch \in Batches
           /\ Tables(db')
           /\ db'.raw = Staged(db.raw, job.batch)
           /\ db'.current = [o \in Orders |-> Latest(db'.raw, o)]
           /\ db'.revenue = [d \in Dates |-> Rollup(db'.current, d)]
           /\ db'.runs = [db.runs EXCEPT ![job.run_id] = "completed"]
<1>1. /\ pc = "refreshed"
      /\ db' = [txn EXCEPT !.runs[job.run_id] = "completed"]
  BY DEF Commit
<1>2. /\ job.run_id \in RunIds
      /\ job.batch \in Batches
      /\ Tables(txn)
      /\ txn.raw = Staged(db.raw, job.batch)
      /\ txn.current = [o \in Orders |-> Latest(txn.raw, o)]
      /\ txn.revenue = [d \in Dates |-> Rollup(txn.current, d)]
      /\ txn.runs = [db.runs EXCEPT ![job.run_id] = "running"]
      /\ db.runs = [r \in RunIds |-> db.runs[r]]
  BY <1>1 DEF Inv, Committed, JobKnown, Progress, InTransaction
<1>3. /\ Tables(db')
      /\ db'.raw = txn.raw
      /\ db'.current = txn.current
      /\ db'.revenue = txn.revenue
      /\ db'.runs = [txn.runs EXCEPT ![job.run_id] = "completed"]
  BY <1>1, <1>2 DEF Tables
<1>4. [txn.runs EXCEPT ![job.run_id] = "completed"] =
          [db.runs EXCEPT ![job.run_id] = "completed"]
  BY <1>2
<1> QED
  BY <1>2, <1>3, <1>4

LEMMA CommitPreserves ==
    ASSUME Inv, Commit
    PROVE  Inv'
<1>1. db.runs = [r \in RunIds |-> db.runs[r]] /\ RunningIsPrivate
  BY DEF Inv, Committed
<1>2. Committed'
  BY <1>1, CommitInstalls DEF Committed, RunningIsPrivate
<1> QED
  BY <1>2, LeavePreserves DEF Commit

LEMMA RecordFailurePreserves ==
    ASSUME Inv, RecordFailure
    PROVE  Inv' /\ \E r \in RunIds : db' = [db EXCEPT !.runs[r] = "failed"]
<1>1. /\ job.run_id \in RunIds
      /\ db' = [db EXCEPT !.runs[job.run_id] = "failed"]
      /\ db.runs = [r \in RunIds |-> db.runs[r]]
      /\ RunningIsPrivate
      /\ Tables(db)
  BY DEF Inv, Committed, JobKnown, RecordFailure
<1>2. /\ Tables(db')
      /\ db'.raw = db.raw
      /\ db'.current = db.current
      /\ db'.revenue = db.revenue
      /\ db'.runs = [db.runs EXCEPT ![job.run_id] = "failed"]
  BY <1>1 DEF Tables
<1>3. Committed'
  BY <1>1, <1>2 DEF Inv, Committed, RunningIsPrivate
<1> QED
  BY <1>1, <1>3, LeavePreserves DEF RecordFailure

LEMMA RaisePreserves ==
    ASSUME Inv, Raise
    PROVE  Inv'
<1>1. affected_orders' = affected_orders
  BY DEF Raise, affected_orders
<1> QED
  BY <1>1 DEF Raise, Inv, Committed, RunningIsPrivate, JobKnown, Progress,
              InTransaction

LEMMA CrashPreserves ==
    ASSUME Inv, Crash
    PROVE  Inv'
<1>1. Committed'
  BY DEF Crash, Inv, Committed, RunningIsPrivate
<1> QED
  BY <1>1, LeavePreserves DEF Crash

LEMMA InvInductive == Spec => []Inv
<1>1. Inv /\ [Next]_vars => Inv'
  <2> SUFFICES ASSUME Inv, [Next]_vars
               PROVE  Inv'
    OBVIOUS
  <2>1. CASE UNCHANGED vars
    <3>1. affected_orders' = affected_orders
      BY <2>1 DEF vars, affected_orders
    <3> QED
      BY <2>1, <3>1 DEF vars, Inv, Committed, RunningIsPrivate, JobKnown,
                        Progress, InTransaction
  <2> QED
    BY <2>1, BeginPreserves, StagePreserves, UpsertPreserves, RefreshPreserves,
       CommitPreserves, RaisePreserves, RecordFailurePreserves, CrashPreserves
       DEF Next
<1> QED
  BY <1>1, InitInv, PTL DEF Spec

-----------------------------------------------------------------------------
(* The results.                                                            *)

\* orders_current holds the latest event of each order, for any batches.
THEOREM CurrentCorrect == Spec => []CurrentIsLatest
<1>1. Inv => CurrentIsLatest
  BY DEF Inv, Committed, CurrentIsLatest
<1> QED
  BY <1>1, InvInductive, PTL

\* daily_revenue is the rollup of orders_current, for any batches.
THEOREM RevenueCorrect == Spec => []RevenueIsRollup
<1>1. Inv => RevenueIsRollup
  BY DEF Inv, Committed, RevenueIsRollup
<1> QED
  BY <1>1, InvInductive, PTL

\* No run is ever seen running from outside its transaction.
THEOREM RunsArePrivate == Spec => []RunningIsPrivate
<1>1. Inv => RunningIsPrivate
  BY DEF Inv, Committed
<1> QED
  BY <1>1, InvInductive, PTL

\* The abstract specification asks the same queries.
LEMMA SameQueries ==
    /\ Abs!Dates = Dates
    /\ \A raw, batch : Abs!Staged(raw, batch) = Staged(raw, batch)
    /\ \A raw, o : Abs!Latest(raw, o) = Latest(raw, o)
    /\ \A current, d : Abs!Rollup(current, d) = Rollup(current, d)
<1>1. Abs!Dates = Dates
  BY DEF Abs!Dates, Dates, Abs!DateOf, DateOf
<1>2. ASSUME NEW raw, NEW batch
      PROVE  Abs!Staged(raw, batch) = Staged(raw, batch)
  BY DEF Abs!Staged, Staged
<1>3. ASSUME NEW raw, NEW o
      PROVE  Abs!Latest(raw, o) = Latest(raw, o)
  BY Zenon DEF Abs!Latest, Latest, Abs!OfOrder, OfOrder, Abs!Later, Later
<1>4. ASSUME NEW rows
      PROVE  Abs!Revenue(rows) = Revenue(rows)
  BY DEF Abs!Revenue, Revenue, Abs!MapThenSumSet, MapThenSumSet,
         Abs!MapThenFoldSet, MapThenFoldSet
<1>5. ASSUME NEW rows
      PROVE  Abs!Cardinality(rows) = Cardinality(rows)
  BY DEF Abs!Cardinality, Cardinality
<1>6. ASSUME NEW current, NEW d
      PROVE  Abs!Rollup(current, d) = Rollup(current, d)
  BY <1>4, <1>5 DEF Abs!Rollup, Rollup, Abs!CompletedOn, CompletedOn, Abs!DateOf, DateOf
<1> QED
  BY <1>1, <1>2, <1>3, <1>6

\* Incremental processing with failures and crashes refines a full refresh.
THEOREM IncrementalIsFull == Spec => ImplementsFullRefresh
<1>1. Init => Abs!Init
  <2> SUFFICES ASSUME Init
               PROVE  Abs!Init
    OBVIOUS
  <2>1. Inv
    BY InitInv
  <2> QED
    BY <2>1, SameQueries DEF Init, Inv, Committed, Abs!Init, Abs!Refreshed
<1>2. Inv /\ [Next]_vars => [Abs!Next]_(Abs!vars)
  <2> SUFFICES ASSUME Inv, [Next]_vars
               PROVE  [Abs!Next]_(Abs!vars)
    OBVIOUS
  <2>1. CASE Commit
    BY <2>1, CommitInstalls, SameQueries DEF Abs!Next, Abs!Load, Abs!Refreshed
  <2>2. CASE RecordFailure
    <3>1. PICK r \in RunIds : db' = [db EXCEPT !.runs[r] = "failed"]
      BY <2>2, RecordFailurePreserves
    <3>2. Tables(db)
      BY DEF Inv, Committed
    <3>3. /\ db'.runs = [db.runs EXCEPT ![r] = "failed"]
          /\ db'.raw = db.raw
          /\ db'.current = db.current
          /\ db'.revenue = db.revenue
      BY <3>1, <3>2 DEF Tables
    <3> QED
      BY <3>3 DEF Abs!Next, Abs!Fail
  <2>3. ASSUME db' = db
        PROVE  UNCHANGED Abs!vars
    BY <2>3 DEF Abs!vars
  <2> QED
    BY <2>1, <2>2, <2>3
       DEF Next, Begin, Stage, Upsert, Refresh, Raise, Crash, vars
<1> QED
  BY <1>1, <1>2, InvInductive, PTL DEF Spec, ImplementsFullRefresh, Abs!Spec

-----------------------------------------------------------------------------
(* Type correctness needs to know that the raw events are finite and have  *)
(* an id each, so that "the latest event" of an order is one of them.      *)
(*                                                                         *)
(* The order of events.                                                    *)

\* No two events have one id.
Keyed(events) == \A e, f \in events : e.event_id = f.event_id => e = f

IsLatest(e, events) == e \in events /\ \A f \in events \ {e} : Later(e, f)

LEMMA EventFields ==
    ASSUME NEW e \in Events
    PROVE  /\ e.event_id \in Int /\ e.event_time \in Int /\ e.ingest_time \in Int
           /\ e.order_id \in Orders
BY EventAssumption

LEMMA LaterIsTotal ==
    ASSUME NEW e \in Events, NEW f \in Events, e.event_id # f.event_id
    PROVE  Later(e, f) \/ Later(f, e)
BY EventFields DEF Later

LEMMA LaterIsAsymmetric ==
    ASSUME NEW e \in Events, NEW f \in Events, Later(e, f)
    PROVE  ~Later(f, e)
BY EventFields DEF Later

LEMMA LaterIsTransitive ==
    ASSUME NEW e \in Events, NEW f \in Events, NEW g \in Events,
           Later(e, f), Later(f, g)
    PROVE  Later(e, g)
BY EventFields DEF Later

\* A smallest set without a latest event would have one more event than a set
\* with a latest event, and one of the two is the latest of both.
LEMMA LatestExists ==
    ASSUME NEW events \in SUBSET Events, IsFiniteSet(events), Keyed(events),
           events # {}
    PROVE  \E e \in events : IsLatest(e, events)
<1> DEFINE Headless == {S \in FiniteSubsetsOf(events) :
                           S # {} /\ ~\E e \in S : IsLatest(e, S)}
<1> SUFFICES ASSUME Headless # {}
             PROVE  FALSE
  BY DEF FiniteSubsetsOf
<1>1. IsWellFoundedOn(StrictSubsetOrdering(events), FiniteSubsetsOf(events))
  BY FS_StrictSubsetOrderingWellFounded
<1>2. PICK S \in Headless :
          \A T \in Headless : <<T, S>> \notin StrictSubsetOrdering(events)
  BY <1>1, WFMin
<1>3. /\ S \subseteq events /\ IsFiniteSet(S) /\ S # {}
      /\ ~\E e \in S : IsLatest(e, S)
  BY DEF FiniteSubsetsOf
<1>4. PICK x \in S : TRUE
  BY <1>3
<1> DEFINE T == S \ {x}
<1>5. T # {}
  BY <1>3, <1>4 DEF IsLatest
<1>6. T \in FiniteSubsetsOf(events)
  BY <1>3, FS_RemoveElement DEF FiniteSubsetsOf
<1>7. <<T, S>> \in StrictSubsetOrdering(events)
  BY <1>3, <1>4 DEF StrictSubsetOrdering
<1>8. PICK m \in T : IsLatest(m, T)
  BY <1>2, <1>5, <1>6, <1>7
<1>9. /\ m \in Events /\ x \in Events /\ m.event_id # x.event_id
      /\ \A f \in T : f \in Events
  BY <1>3, <1>4 DEF Keyed
<1>10. CASE Later(m, x)
  BY <1>3, <1>4, <1>8, <1>10 DEF IsLatest
<1>11. CASE Later(x, m)
  <2>1. \A f \in T : Later(x, f)
    BY <1>8, <1>9, <1>11, LaterIsTransitive DEF IsLatest
  <2> QED
    BY <1>3, <1>4, <2>1 DEF IsLatest
<1> QED
  BY <1>9, <1>10, <1>11, LaterIsTotal

LEMMA LatestIsUnique ==
    ASSUME NEW events \in SUBSET Events, NEW e, NEW f,
           IsLatest(e, events), IsLatest(f, events)
    PROVE  e = f
BY LaterIsAsymmetric DEF IsLatest

\* What the query makes of an order's events.
LEMMA LatestIsLatest ==
    ASSUME NEW raw \in SUBSET Events, IsFiniteSet(raw), Keyed(raw), NEW o,
           OfOrder(raw, o) # {}
    PROVE  IsLatest(Latest(raw, o), OfOrder(raw, o))
<1> DEFINE S == OfOrder(raw, o)
<1>1. S \in SUBSET Events /\ IsFiniteSet(S) /\ Keyed(S)
  BY FS_Subset DEF OfOrder, Keyed
<1>2. \E e \in S : IsLatest(e, S)
  BY <1>1, LatestExists
<1> QED
  BY <1>2 DEF Latest, IsLatest

-----------------------------------------------------------------------------
(* What a batch adds to the raw events.                                    *)

LEMMA FirstIndex ==
    ASSUME NEW J \in SUBSET Nat, J # {}
    PROVE  \E j \in J : \A k \in J : j <= k
<1> DEFINE Down(j) == 1 .. j
           Downs == {Down(j) : j \in J}
<1>1. Downs \subseteq FiniteSubsetsOf(Nat)
  BY FS_Interval DEF FiniteSubsetsOf
<1>2. Downs # {}
  OBVIOUS
<1>3. IsWellFoundedOn(StrictSubsetOrdering(Nat), FiniteSubsetsOf(Nat))
  BY FS_StrictSubsetOrderingWellFounded
<1>4. PICK S \in Downs : \A T \in Downs : <<T, S>> \notin StrictSubsetOrdering(Nat)
  BY <1>1, <1>2, <1>3, WFMin
<1>5. PICK j \in J : S = Down(j)
  BY <1>4
<1>6. ASSUME NEW k \in J, k < j
      PROVE  FALSE
  <2>1. Down(k) \subseteq Down(j) /\ j \in Down(j) /\ j \notin Down(k)
    BY <1>6
  <2>2. <<Down(k), Down(j)>> \in StrictSubsetOrdering(Nat)
    BY <2>1 DEF StrictSubsetOrdering
  <2> QED
    BY <1>4, <1>5, <2>2
<1> QED
  BY <1>6

BatchIds(batch) == {batch[i].event_id : i \in DOMAIN batch}

New(raw, batch) == Staged(raw, batch) \ raw

\* A new event is the first of the batch with its id, which raw did not have.
LEMMA NewEvents ==
    ASSUME NEW raw, NEW batch, NEW e \in New(raw, batch)
    PROVE  \E j \in DOMAIN batch :
              /\ e = batch[j]
              /\ \A f \in raw : f.event_id # e.event_id
              /\ \A k \in DOMAIN batch : k < j => batch[k].event_id # e.event_id
BY DEF New, Staged

LEMMA StagedIds ==
    ASSUME NEW raw, NEW batch \in Seq(Events)
    PROVE  /\ {e.event_id : e \in New(raw, batch)} = BatchIds(batch) \ Ids(raw)
           /\ Ids(Staged(raw, batch)) = Ids(raw) \cup BatchIds(batch)
<1>1. ASSUME NEW id \in BatchIds(batch) \ Ids(raw)
      PROVE  \E e \in New(raw, batch) : e.event_id = id
  <2> DEFINE J == {i \in DOMAIN batch : batch[i].event_id = id}
  <2>1. J \in SUBSET Nat /\ J # {}
    BY <1>1 DEF BatchIds
  <2>2. PICK j \in J : \A k \in J : j <= k
    BY <2>1, FirstIndex
  <2>3. \A k \in DOMAIN batch : k < j => batch[k].event_id # id
    BY <2>1, <2>2
  <2>4. \A f \in raw : f.event_id # id
    BY <1>1 DEF Ids
  <2>5. batch[j] \in Staged(raw, batch)
    BY <2>3, <2>4 DEF Staged
  <2> QED
    BY <2>4, <2>5 DEF New
<1>2. \A e \in New(raw, batch) : e.event_id \in BatchIds(batch) \ Ids(raw)
  BY NewEvents DEF BatchIds, Ids
<1>3. {e.event_id : e \in New(raw, batch)} = BatchIds(batch) \ Ids(raw)
  BY <1>1, <1>2
<1>4. Staged(raw, batch) = raw \cup New(raw, batch)
  BY DEF New, Staged
<1> QED
  BY <1>3, <1>4 DEF Ids

\* Events that do not differ under one id from one another or from those that
\* are there are all there when they are staged.
LEMMA StagedWhole ==
    ASSUME NEW raw, NEW batch \in Seq(Events), Keyed(raw \cup Range(batch))
    PROVE  Staged(raw, batch) = raw \cup Range(batch)
<1>1. ASSUME NEW i \in DOMAIN batch, batch[i] \notin raw
      PROVE  batch[i] \in Staged(raw, batch)
  <2> DEFINE J == {j \in DOMAIN batch : batch[j] = batch[i]}
  <2>1. J \in SUBSET Nat /\ J # {}
    OBVIOUS
  <2>2. PICK j \in J : \A k \in J : j <= k
    BY <2>1, FirstIndex
  <2>3. \A k \in DOMAIN batch : k < j => batch[k].event_id # batch[j].event_id
    BY <2>2 DEF Keyed, Range
  <2>4. \A e \in raw : e.event_id # batch[j].event_id
    BY <1>1, <2>2 DEF Keyed, Range
  <2> QED
    BY <2>3, <2>4 DEF Staged
<1>2. Staged(raw, batch) \subseteq raw \cup Range(batch)
  BY DEF Staged, Range
<1> QED
  BY <1>1, <1>2 DEF Staged, Range

LEMMA StagedIsWellFormed ==
    ASSUME NEW raw \in SUBSET Events, IsFiniteSet(raw), Keyed(raw),
           NEW batch \in Seq(Events)
    PROVE  /\ Staged(raw, batch) \in SUBSET Events
           /\ IsFiniteSet(Staged(raw, batch))
           /\ Keyed(Staged(raw, batch))
<1>1. \A i \in DOMAIN batch : batch[i] \in Events
  OBVIOUS
<1>2. Staged(raw, batch) \in SUBSET Events
  BY <1>1 DEF Staged
<1>3. IsFiniteSet(Staged(raw, batch))
  <2> DEFINE Values == {batch[i] : i \in DOMAIN batch}
             f == [i \in DOMAIN batch |-> batch[i]]
  <2>1. IsFiniteSet(DOMAIN batch)
    BY FS_Interval
  <2>2. f \in Surjection(DOMAIN batch, Values)
    BY DEF Surjection
  <2>3. IsFiniteSet(Values)
    BY <2>1, <2>2, FS_Surjection
  <2>4. IsFiniteSet(raw \cup Values)
    BY <2>3, FS_Union
  <2> QED
    BY <2>4, FS_Subset DEF Staged
<1>4. ASSUME NEW e \in Staged(raw, batch), NEW f \in Staged(raw, batch),
             e.event_id = f.event_id
      PROVE  e = f
  <2>1. CASE e \in raw /\ f \in raw
    BY <1>4, <2>1 DEF Keyed
  <2>2. CASE e \in New(raw, batch) \/ f \in New(raw, batch)
    <3>1. e \in New(raw, batch) /\ f \in New(raw, batch)
      BY <1>4, <2>2, NewEvents DEF New
    <3>2. PICK j \in DOMAIN batch :
              /\ e = batch[j]
              /\ \A k \in DOMAIN batch : k < j => batch[k].event_id # e.event_id
      BY <3>1, NewEvents
    <3>3. PICK i \in DOMAIN batch :
              /\ f = batch[i]
              /\ \A k \in DOMAIN batch : k < i => batch[k].event_id # f.event_id
      BY <3>1, NewEvents
    <3>4. j \in Nat /\ i \in Nat
      OBVIOUS
    <3>5. ~(j < i) /\ ~(i < j)
      BY <1>4, <3>2, <3>3
    <3> QED
      BY <3>2, <3>3, <3>4, <3>5
  <2> QED
    BY <2>1, <2>2 DEF New
<1> QED
  BY <1>2, <1>3, <1>4 DEF Keyed

\* Two batches are staged as one.
LEMMA StagedTwice ==
    ASSUME NEW a \in Seq(Events), NEW b \in Seq(Events)
    PROVE  Staged(Staged({}, a), b) = Staged({}, a \o b)
<1> DEFINE ab == a \o b
           First == Staged({}, a)
<1>1. /\ ab \in Seq(Events)
      /\ Len(ab) = Len(a) + Len(b)
      /\ \A i \in 1 .. Len(a) : ab[i] = a[i]
      /\ \A i \in 1 .. Len(b) : ab[Len(a) + i] = b[i]
  BY ConcatProperties
<1>2. /\ DOMAIN a = 1 .. Len(a) /\ DOMAIN b = 1 .. Len(b)
      /\ DOMAIN ab = 1 .. (Len(a) + Len(b))
      /\ Len(a) \in Nat /\ Len(b) \in Nat
  BY <1>1
<1>3. Ids(First) = BatchIds(a)
  BY StagedIds DEF Ids
<1>4. \A e : e \in First <=>
              \E j \in DOMAIN a :
                 /\ e = a[j]
                 /\ \A k \in DOMAIN a : k < j => a[k].event_id # a[j].event_id
  BY DEF Staged
<1>5. \A e : e \in Staged(First, b) <=>
              \/ e \in First
              \/ \E j \in DOMAIN b :
                    /\ e = b[j]
                    /\ b[j].event_id \notin BatchIds(a)
                    /\ \A k \in DOMAIN b : k < j => b[k].event_id # b[j].event_id
  BY <1>3 DEF Staged, Ids
<1>6. \A e : e \in Staged({}, ab) <=>
              \E j \in DOMAIN ab :
                 /\ e = ab[j]
                 /\ \A k \in DOMAIN ab : k < j => ab[k].event_id # ab[j].event_id
  BY DEF Staged
<1> HIDE DEF ab, First
<1>7. ASSUME NEW e \in Staged(First, b)
      PROVE  e \in Staged({}, ab)
  <2>1. CASE e \in First
    <3>1. PICK j \in DOMAIN a :
              /\ e = a[j]
              /\ \A k \in DOMAIN a : k < j => a[k].event_id # a[j].event_id
      BY <1>4, <2>1
    <3>2. \A k \in DOMAIN ab : k < j => k \in DOMAIN a
      BY <1>2
    <3> QED
      BY <1>1, <1>2, <1>6, <3>1, <3>2
  <2>2. CASE \E j \in DOMAIN b :
                /\ e = b[j]
                /\ b[j].event_id \notin BatchIds(a)
                /\ \A k \in DOMAIN b : k < j => b[k].event_id # b[j].event_id
    <3>1. PICK j \in DOMAIN b :
              /\ e = b[j]
              /\ b[j].event_id \notin BatchIds(a)
              /\ \A k \in DOMAIN b : k < j => b[k].event_id # b[j].event_id
      BY <2>2
    <3>2. Len(a) + j \in DOMAIN ab /\ ab[Len(a) + j] = b[j]
      BY <1>1, <1>2
    <3>3. ASSUME NEW k \in DOMAIN ab, k < Len(a) + j
          PROVE  ab[k].event_id # b[j].event_id
      <4>1. CASE k <= Len(a)
        <5>1. k \in DOMAIN a /\ ab[k] = a[k]
          BY <1>1, <1>2, <4>1
        <5> QED
          BY <3>1, <5>1 DEF BatchIds
      <4>2. CASE k > Len(a)
        <5>1. k - Len(a) \in DOMAIN b /\ k - Len(a) < j
          BY <1>2, <3>3, <4>2
        <5>2. ab[Len(a) + (k - Len(a))] = b[k - Len(a)]
          BY <1>1, <1>2, <5>1
        <5>3. Len(a) + (k - Len(a)) = k
          BY <1>2
        <5> QED
          BY <3>1, <5>1, <5>2, <5>3
      <4> QED
        BY <1>2, <4>1, <4>2
    <3> QED
      BY <1>6, <3>1, <3>2, <3>3
  <2> QED
    BY <1>5, <2>1, <2>2
<1>8. ASSUME NEW e \in Staged({}, ab)
      PROVE  e \in Staged(First, b)
  <2>1. PICK j \in DOMAIN ab :
            /\ e = ab[j]
            /\ \A k \in DOMAIN ab : k < j => ab[k].event_id # ab[j].event_id
    BY <1>6
  <2>2. CASE j <= Len(a)
    <3>1. j \in DOMAIN a /\ ab[j] = a[j]
      BY <1>1, <1>2, <2>2
    <3>2. \A k \in DOMAIN a : k \in DOMAIN ab /\ ab[k] = a[k]
      BY <1>1, <1>2
    <3> QED
      BY <1>4, <1>5, <2>1, <3>1, <3>2
  <2>3. CASE j > Len(a)
    <3> DEFINE i == j - Len(a)
    <3>1. i \in DOMAIN b /\ Len(a) + i = j
      BY <1>2, <2>3
    <3> HIDE DEF i
    <3>2. ab[j] = b[i]
      BY <1>1, <1>2, <3>1
    <3>3. \A k \in DOMAIN a : k \in DOMAIN ab /\ ab[k] = a[k] /\ k < j
      BY <1>1, <1>2, <2>3
    <3>4. b[i].event_id \notin BatchIds(a)
      BY <2>1, <3>2, <3>3 DEF BatchIds
    <3>5. ASSUME NEW k \in DOMAIN b, k < i
          PROVE  b[k].event_id # b[i].event_id
      <4>1. Len(a) + k \in DOMAIN ab /\ Len(a) + k < j /\ ab[Len(a) + k] = b[k]
        BY <1>1, <1>2, <3>1, <3>5
      <4> QED
        BY <2>1, <3>2, <4>1
    <3> QED
      BY <1>5, <2>1, <3>1, <3>2, <3>4, <3>5
  <2> QED
    BY <1>2, <2>2, <2>3
<1> QED
  BY <1>7, <1>8 DEF ab, First

-----------------------------------------------------------------------------
(* Type correctness of the pipeline.                                       *)

RawTyped(tables) == IsFiniteSet(tables.raw) /\ Keyed(tables.raw)

TypeInv ==
    /\ TypeOK
    /\ RawTyped(db)
    /\ pc # "idle" => job \in Job
    /\ InTransaction => txn \in Database /\ RawTyped(txn)

LEMMA DatesOfRows ==
    ASSUME NEW current \in [Orders -> Events \cup {None}], NEW orders \in SUBSET Orders
    PROVE  CurrentDates(current, orders) \subseteq Dates
BY DEF CurrentDates, Dates

LEMMA LatestType ==
    ASSUME NEW raw \in SUBSET Events, IsFiniteSet(raw), Keyed(raw), NEW o
    PROVE  Latest(raw, o) \in Events \cup {None}
<1>1. CASE OfOrder(raw, o) = {}
  BY <1>1, NoEventsNoRow
<1>2. CASE OfOrder(raw, o) # {}
  BY <1>2, LatestIsLatest DEF IsLatest, OfOrder
<1> QED
  BY <1>1, <1>2

\* The end of process(), however it comes about.
LEMMA LeaveTyped ==
    ASSUME db' \in Database, RawTyped(db'), Leave
    PROVE  TypeInv'
BY DEF Leave, TypeInv, TypeOK, InTransaction

LEMMA StatementTyped ==
    ASSUME TypeInv, UNCHANGED <<db, job, old_dates>>, pc # "idle",
           pc' \in {"staged", "upserted", "refreshed"},
           txn' \in Database, RawTyped(txn')
    PROVE  TypeInv'
BY DEF TypeInv, TypeOK, InTransaction

LEMMA NextTyped ==
    ASSUME TypeInv, [Next]_vars
    PROVE  TypeInv'
<1>1. ASSUME NEW batch \in Batches, NEW r \in RunIds, NEW f \in Failpoints,
             Begin(batch, r, f)
      PROVE  TypeInv'
  <2>1. /\ db' = db /\ pc' = "begun"
        /\ job' = [batch |-> batch, run_id |-> r, failpoint |-> f]
        /\ txn' = [db EXCEPT !.runs[r] = "running"]
        /\ old_dates' = CurrentDates(db.current, affected_orders')
        /\ db \in Database /\ RawTyped(db)
    BY <1>1 DEF Begin, TypeInv, TypeOK
  <2>2. job' \in Job
    BY <2>1 DEF Job
  <2>3. txn' \in Database /\ txn'.raw = db.raw
    BY <2>1 DEF Database
  <2>4. affected_orders' \subseteq Orders
    BY <2>1, AffectedOrders DEF affected_orders
  <2>5. old_dates' \subseteq Dates
    BY <2>1, <2>4, DatesOfRows DEF Database
  <2> QED
    BY <2>1, <2>2, <2>3, <2>5 DEF TypeInv, TypeOK, InTransaction, RawTyped
<1>2. CASE Stage
  <2>1. /\ txn \in Database /\ RawTyped(txn)
        /\ job.batch \in Seq(Events)
        /\ txn' = [txn EXCEPT !.raw = Staged(txn.raw, job.batch)]
    BY <1>2, BatchAssumption DEF Stage, TypeInv, InTransaction, Job
  <2>2. txn.raw \in SUBSET Events
    BY <2>1 DEF Database
  <2>3. /\ Staged(txn.raw, job.batch) \in SUBSET Events
        /\ IsFiniteSet(Staged(txn.raw, job.batch))
        /\ Keyed(Staged(txn.raw, job.batch))
    BY <2>1, <2>2, StagedIsWellFormed DEF RawTyped
  <2>4. txn' \in Database /\ txn'.raw = Staged(txn.raw, job.batch)
    BY <2>1, <2>3 DEF Database
  <2> QED
    BY <1>2, <2>3, <2>4, StatementTyped DEF Stage, RawTyped
<1>3. CASE Upsert
  <2> DEFINE Rows == [o \in Orders |->
                        IF o \in affected_orders /\ OfOrder(txn.raw, o) # {}
                        THEN Latest(txn.raw, o)
                        ELSE txn.current[o]]
  <2>1. /\ txn \in Database /\ RawTyped(txn)
        /\ txn' = [txn EXCEPT !.current = Rows]
    BY <1>3 DEF Upsert, TypeInv, InTransaction
  <2>2. /\ txn.raw \in SUBSET Events
        /\ txn.current \in [Orders -> Events \cup {None}]
    BY <2>1 DEF Database
  <2>3. Rows \in [Orders -> Events \cup {None}]
    BY <2>1, <2>2, LatestType DEF RawTyped
  <2> HIDE DEF Rows
  <2>4. txn' \in Database /\ txn'.raw = txn.raw
    BY <2>1, <2>3 DEF Database
  <2> QED
    BY <1>3, <2>1, <2>4, StatementTyped DEF Upsert, RawTyped
<1>4. CASE Refresh
  <2> DEFINE Rows == [d \in Dates |->
                        IF d \in affected_dates THEN Rollup(txn.current, d)
                        ELSE txn.revenue[d]]
  <2>1. /\ txn \in Database /\ RawTyped(txn)
        /\ txn' = [txn EXCEPT !.revenue = Rows]
        /\ \A d \in affected_dates : Rollup(txn.current, d) \in RevenueRow \cup {None}
    BY <1>4 DEF Refresh, Fits, TypeInv, InTransaction
  <2>2. txn.revenue \in [Dates -> RevenueRow \cup {None}]
    BY <2>1 DEF Database
  <2>3. Rows \in [Dates -> RevenueRow \cup {None}]
    BY <2>1, <2>2
  <2> HIDE DEF Rows
  <2>4. txn' \in Database /\ txn'.raw = txn.raw
    BY <2>1, <2>3 DEF Database
  <2> QED
    BY <1>4, <2>1, <2>4, StatementTyped DEF Refresh, RawTyped
<1>5. CASE Commit
  <2>1. /\ txn \in Database /\ RawTyped(txn) /\ Leave
        /\ db' = [txn EXCEPT !.runs[job.run_id] = "completed"]
    BY <1>5 DEF Commit, TypeInv, InTransaction
  <2>2. db' \in Database /\ db'.raw = txn.raw
    BY <2>1 DEF Database
  <2> QED
    BY <2>1, <2>2, LeaveTyped DEF RawTyped
<1>6. CASE Raise
  BY <1>6 DEF Raise, TypeInv, TypeOK, InTransaction
<1>7. CASE RecordFailure
  <2>1. /\ db \in Database /\ RawTyped(db) /\ Leave
        /\ db' = [db EXCEPT !.runs[job.run_id] = "failed"]
    BY <1>7 DEF RecordFailure, TypeInv, TypeOK
  <2>2. db' \in Database /\ db'.raw = db.raw
    BY <2>1 DEF Database
  <2> QED
    BY <2>1, <2>2, LeaveTyped DEF RawTyped
<1>8. CASE Crash
  BY <1>8, LeaveTyped DEF Crash, TypeInv, TypeOK
<1>9. CASE UNCHANGED vars
  BY <1>9 DEF vars, TypeInv, TypeOK, InTransaction
<1> QED
  BY <1>1, <1>2, <1>3, <1>4, <1>5, <1>6, <1>7, <1>8, <1>9 DEF Next

\* The tables are well formed after any statement, failure and crash: a current
\* row is an event, and what a revenue row counts and adds up fits its columns.
THEOREM PipelineTypeCorrect == Spec => []TypeOK
<1>1. Init => TypeInv
  <2> SUFFICES ASSUME Init
               PROVE  TypeInv
    OBVIOUS
  <2>1. db \in Database
    BY DEF Init, Database
  <2>2. RawTyped(db)
    BY FS_EmptySet DEF Init, RawTyped, Keyed
  <2> QED
    BY <2>1, <2>2 DEF Init, TypeInv, TypeOK, InTransaction
<1>2. TypeInv /\ [Next]_vars => TypeInv'
  BY NextTyped
<1>3. TypeInv => TypeOK
  BY DEF TypeInv
<1> QED
  BY <1>1, <1>2, <1>3, PTL DEF Spec

-----------------------------------------------------------------------------
(* Sums over finite sets.  MapThenSumSet is a recursive function on the    *)
(* subsets of a set.  That there is one, what it returns, and that the     *)
(* order in which terms are chosen is of no consequence, are each shown by *)
(* a smallest subset for which they would not hold.                        *)

Pick(s) == CHOOSE x \in s : TRUE

\* g is the recursion of MapThenSumSet over S for the terms w.
Adds(g, w, S) ==
    g = [s \in SUBSET S |->
            IF s = {} THEN 0 ELSE w[Pick(s)] + g[s \ {Pick(s)}]]

Total(w, S) == (CHOOSE g : Adds(g, w, S))[S]

\* Of any subsets of a finite set, one includes no other.
LEMMA Smallest ==
    ASSUME NEW S, IsFiniteSet(S), NEW Bad \in SUBSET SUBSET S, Bad # {}
    PROVE  \E T \in Bad : \A U \in SUBSET T : U # T => U \notin Bad
<1>1. Bad \subseteq FiniteSubsetsOf(S)
  BY FS_Subset DEF FiniteSubsetsOf
<1>2. IsWellFoundedOn(StrictSubsetOrdering(S), FiniteSubsetsOf(S))
  BY FS_StrictSubsetOrderingWellFounded
<1>3. PICK T \in Bad : \A U \in Bad : <<U, T>> \notin StrictSubsetOrdering(S)
  BY <1>1, <1>2, WFMin
<1> QED
  BY <1>3 DEF StrictSubsetOrdering

LEMMA PickIn == \A s : s # {} => Pick(s) \in s
BY DEF Pick

LEMMA AddsAt ==
    ASSUME NEW w, NEW S, NEW g, Adds(g, w, S), NEW s \in SUBSET S
    PROVE  g[s] = IF s = {} THEN 0 ELSE w[Pick(s)] + g[s \ {Pick(s)}]
BY DEF Adds

\* Two such recursions agree where both are defined.
LEMMA AddsOnce ==
    ASSUME NEW S, IsFiniteSet(S), NEW w, NEW T \in SUBSET S, NEW U \in SUBSET S,
           NEW g, NEW h, Adds(g, w, T), Adds(h, w, U)
    PROVE  \A s \in (SUBSET T) \cap (SUBSET U) : g[s] = h[s]
<1> DEFINE Bad == {s \in (SUBSET T) \cap (SUBSET U) : g[s] # h[s]}
<1> SUFFICES ASSUME Bad # {}
             PROVE  FALSE
  OBVIOUS
<1>1. PICK s \in Bad : \A u \in SUBSET s : u # s => u \notin Bad
  <2>1. Bad \in SUBSET SUBSET S
    OBVIOUS
  <2> HIDE DEF Bad
  <2> QED
    BY <2>1, Smallest
<1>2. s \in SUBSET T /\ s \in SUBSET U /\ g[s] # h[s]
  OBVIOUS
<1> HIDE DEF Bad
<1>3. /\ g[s] = IF s = {} THEN 0 ELSE w[Pick(s)] + g[s \ {Pick(s)}]
      /\ h[s] = IF s = {} THEN 0 ELSE w[Pick(s)] + h[s \ {Pick(s)}]
  <2>1. g[s] = IF s = {} THEN 0 ELSE w[Pick(s)] + g[s \ {Pick(s)}]
    BY <1>2, AddsAt
  <2>2. h[s] = IF s = {} THEN 0 ELSE w[Pick(s)] + h[s \ {Pick(s)}]
    BY <1>2, AddsAt
  <2> QED
    BY <2>1, <2>2
<1>4. s # {}
  BY <1>2, <1>3
<1>5. g[s \ {Pick(s)}] = h[s \ {Pick(s)}]
  <2>1. s \ {Pick(s)} \in SUBSET s /\ s \ {Pick(s)} # s
    BY <1>4, PickIn
  <2>2. s \ {Pick(s)} \notin Bad
    BY <1>1, <2>1
  <2> QED
    BY <1>2, <2>1, <2>2 DEF Bad
<1> QED
  BY <1>2, <1>3, <1>5

\* Beyond the subsets of smaller sets a recursion needs one value more.
LEMMA AddsExists ==
    ASSUME NEW S, IsFiniteSet(S), NEW w
    PROVE  \E g : Adds(g, w, S)
<1> DEFINE Bad == {T \in SUBSET S : ~\E g : Adds(g, w, T)}
<1> SUFFICES ASSUME Bad # {}
             PROVE  FALSE
  OBVIOUS
<1>1. PICK T \in Bad : \A U \in SUBSET T : U # T => U \notin Bad
  <2>1. Bad \in SUBSET SUBSET S
    OBVIOUS
  <2> HIDE DEF Bad
  <2> QED
    BY <2>1, Smallest
<1> DEFINE G(U) == CHOOSE g : Adds(g, w, U)
           f == [s \in SUBSET T |->
                   IF s = {} THEN 0
                   ELSE w[Pick(s)] + G(s \ {Pick(s)})[s \ {Pick(s)}]]
<1>2. ASSUME NEW U \in SUBSET T, U # T
      PROVE  Adds(G(U), w, U)
  BY <1>1, <1>2
<1>3. ASSUME NEW U \in SUBSET T, U # T
      PROVE  f[U] = G(U)[U]
  <2>1. G(U)[U] = IF U = {} THEN 0 ELSE w[Pick(U)] + G(U)[U \ {Pick(U)}]
    <3>1. Adds(G(U), w, U) /\ U \in SUBSET U
      BY <1>2, <1>3
    <3> HIDE DEF G
    <3> QED
      BY <3>1, AddsAt
  <2>2. CASE U = {}
    BY <2>1, <2>2
  <2>3. CASE U # {}
    <3> DEFINE V == U \ {Pick(U)}
    <3>1. V \in SUBSET T /\ V # T /\ V \in SUBSET U
      BY <2>3, PickIn
    <3>2. Adds(G(V), w, V) /\ Adds(G(U), w, U)
      BY <1>2, <1>3, <3>1
    <3>3. V \in SUBSET S /\ U \in SUBSET S /\ V \in SUBSET V
      BY <1>1, <3>1
    <3>4. \A s \in (SUBSET U) \cap (SUBSET V) : G(U)[s] = G(V)[s]
      <4> HIDE DEF G, V
      <4> QED
        BY <3>2, <3>3, AddsOnce
    <3> QED
      BY <2>1, <2>3, <3>4 DEF V
  <2> QED
    BY <2>2, <2>3
<1>4. \A s \in SUBSET T :
         s # {} => f[s \ {Pick(s)}] = G(s \ {Pick(s)})[s \ {Pick(s)}]
  BY <1>3, PickIn
<1>5. f = [s \in SUBSET T |->
             IF s = {} THEN 0 ELSE w[Pick(s)] + f[s \ {Pick(s)}]]
  <2> DEFINE E(s) == IF s = {} THEN 0
                     ELSE w[Pick(s)] + G(s \ {Pick(s)})[s \ {Pick(s)}]
             F(s) == IF s = {} THEN 0 ELSE w[Pick(s)] + f[s \ {Pick(s)}]
  <2>1. ASSUME NEW s \in SUBSET T
        PROVE  E(s) = F(s)
    <3>1. s # {} => f[s \ {Pick(s)}] = G(s \ {Pick(s)})[s \ {Pick(s)}]
      BY <1>4
    <3> HIDE DEF f, G
    <3> QED
      BY <3>1
  <2>2. f = [s \in SUBSET T |-> E(s)]
    OBVIOUS
  <2> HIDE DEF E, F, f, G
  <2>3. f = [s \in SUBSET T |-> F(s)]
    BY <2>1, <2>2
  <2> QED
    BY <2>3 DEF F
<1> QED
  BY <1>1, <1>5 DEF Adds

\* The recursion over a set sums its subsets too.
LEMMA TotalOfSubset ==
    ASSUME NEW S, IsFiniteSet(S), NEW w, NEW T \in SUBSET S, NEW g, Adds(g, w, S)
    PROVE  g[T] = Total(w, T)
<1>1. IsFiniteSet(T)
  BY FS_Subset
<1>2. Adds(CHOOSE h : Adds(h, w, T), w, T)
  BY <1>1, AddsExists
<1> QED
  BY <1>2, AddsOnce DEF Total

LEMMA TotalAdds ==
    ASSUME NEW S, IsFiniteSet(S), NEW w
    PROVE  \E g : Adds(g, w, S) /\ \A T \in SUBSET S : Total(w, T) = g[T]
<1>1. PICK g : Adds(g, w, S)
  BY AddsExists
<1>2. \A T \in SUBSET S : Total(w, T) = g[T]
  BY <1>1, TotalOfSubset
<1> QED
  BY <1>1, <1>2

LEMMA TotalOfNone == \A w : Total(w, {}) = 0
<1> TAKE w
<1>1. PICK g : Adds(g, w, {}) /\ \A T \in SUBSET {} : Total(w, T) = g[T]
  BY TotalAdds, FS_EmptySet
<1>2. g[{}] = 0
  BY <1>1, AddsAt
<1> QED
  BY <1>1, <1>2

LEMMA TotalPicks ==
    ASSUME NEW S, IsFiniteSet(S), S # {}, NEW w
    PROVE  Total(w, S) = w[Pick(S)] + Total(w, S \ {Pick(S)})
<1>1. PICK g : Adds(g, w, S) /\ \A T \in SUBSET S : Total(w, T) = g[T]
  BY TotalAdds
<1>2. g[S] = w[Pick(S)] + g[S \ {Pick(S)}]
  BY <1>1, AddsAt
<1>3. S \ {Pick(S)} \in SUBSET S /\ S \in SUBSET S
  OBVIOUS
<1> QED
  BY <1>1, <1>2, <1>3

LEMMA TotalIsNat ==
    ASSUME NEW S, IsFiniteSet(S), NEW w, \A e \in S : w[e] \in Nat
    PROVE  Total(w, S) \in Nat
<1> DEFINE Bad == {T \in SUBSET S : Total(w, T) \notin Nat}
<1> SUFFICES ASSUME Bad # {}
             PROVE  FALSE
  OBVIOUS
<1>1. PICK T \in Bad : \A U \in SUBSET T : U # T => U \notin Bad
  <2>1. Bad \in SUBSET SUBSET S
    OBVIOUS
  <2> HIDE DEF Bad
  <2> QED
    BY <2>1, Smallest
<1>2. T \in SUBSET S /\ Total(w, T) \notin Nat /\ IsFiniteSet(T)
  BY FS_Subset
<1>3. T # {}
  BY <1>2, TotalOfNone
<1>4. Pick(T) \in T
  BY <1>3, PickIn
<1>5. Total(w, T \ {Pick(T)}) \in Nat
  BY <1>1, <1>2, <1>4
<1>6. Total(w, T) = w[Pick(T)] + Total(w, T \ {Pick(T)})
  BY <1>2, <1>3, TotalPicks
<1>7. w[Pick(T)] \in Nat
  BY <1>2, <1>4
<1> HIDE DEF Bad
<1> QED
  BY <1>2, <1>5, <1>6, <1>7

\* A sum may be begun with any of its terms.
LEMMA TotalWithout ==
    ASSUME NEW S, IsFiniteSet(S), NEW w, \A e \in S : w[e] \in Nat
    PROVE  \A x \in S : Total(w, S) = w[x] + Total(w, S \ {x})
<1> DEFINE Bad == {T \in SUBSET S : ~\A x \in T : Total(w, T) = w[x] + Total(w, T \ {x})}
<1> SUFFICES ASSUME Bad # {}
             PROVE  FALSE
  OBVIOUS
<1>1. PICK T \in Bad : \A U \in SUBSET T : U # T => U \notin Bad
  <2>1. Bad \in SUBSET SUBSET S
    OBVIOUS
  <2> HIDE DEF Bad
  <2> QED
    BY <2>1, Smallest
<1>2. T \in SUBSET S /\ IsFiniteSet(T)
  BY FS_Subset
<1>3. PICK x \in T : Total(w, T) # w[x] + Total(w, T \ {x})
  OBVIOUS
<1> DEFINE y == Pick(T)
<1>4. y \in T /\ Total(w, T) = w[y] + Total(w, T \ {y})
  BY <1>2, <1>3, TotalPicks, PickIn
<1>5. y # x
  BY <1>3, <1>4
<1>6. /\ T \ {x} \in SUBSET T /\ T \ {x} # T /\ y \in T \ {x}
      /\ T \ {y} \in SUBSET T /\ T \ {y} # T /\ x \in T \ {y}
  BY <1>3, <1>4, <1>5
<1>7. T \ {x} \notin Bad /\ T \ {y} \notin Bad
  BY <1>1, <1>6
<1>8. Total(w, T \ {y}) = w[x] + Total(w, T \ {x, y})
  <2>1. (T \ {y}) \ {x} = T \ {x, y}
    OBVIOUS
  <2> QED
    BY <1>2, <1>6, <1>7, <2>1
<1>9. Total(w, T \ {x}) = w[y] + Total(w, T \ {x, y})
  <2>1. (T \ {x}) \ {y} = T \ {x, y}
    OBVIOUS
  <2> QED
    BY <1>2, <1>6, <1>7, <2>1
<1>10. Total(w, T \ {x, y}) \in Nat /\ w[x] \in Nat /\ w[y] \in Nat
  <2>1. IsFiniteSet(T \ {x, y}) /\ \A e \in T \ {x, y} : w[e] \in Nat
    BY <1>2, FS_Subset
  <2> QED
    BY <1>2, <1>4, <2>1, TotalIsNat
<1> HIDE DEF Bad, y
<1> QED
  BY <1>3, <1>4, <1>8, <1>9, <1>10

\* The sum over a set that is cut in two.
LEMMA TotalOfUnion ==
    ASSUME NEW S, IsFiniteSet(S), NEW w, \A e \in S : w[e] \in Nat,
           NEW A \in SUBSET S, NEW B \in SUBSET S, A \cap B = {}
    PROVE  Total(w, A \cup B) = Total(w, A) + Total(w, B)
<1> DEFINE Bad == {T \in SUBSET A : Total(w, T \cup B) # Total(w, T) + Total(w, B)}
<1>0. IsFiniteSet(A) /\ IsFiniteSet(B)
  BY FS_Subset
<1> SUFFICES ASSUME Bad # {}
             PROVE  FALSE
  OBVIOUS
<1>1. PICK T \in Bad : \A U \in SUBSET T : U # T => U \notin Bad
  <2>1. Bad \in SUBSET SUBSET A
    OBVIOUS
  <2> HIDE DEF Bad
  <2> QED
    BY <1>0, <2>1, Smallest
<1>2. /\ T \in SUBSET A /\ IsFiniteSet(T) /\ IsFiniteSet(T \cup B)
      /\ T \cup B \in SUBSET S
      /\ Total(w, T \cup B) # Total(w, T) + Total(w, B)
  BY <1>0, FS_Subset
<1>3. Total(w, B) \in Nat
  BY <1>0, TotalIsNat
<1>4. T # {}
  <2>1. {} \cup B = B
    OBVIOUS
  <2> QED
    BY <1>2, <1>3, <2>1, TotalOfNone
<1>5. PICK x \in T : TRUE
  BY <1>4
<1> DEFINE U == T \ {x}
<1>6. /\ U \in SUBSET T /\ U # T /\ IsFiniteSet(U) /\ (T \cup B) \ {x} = U \cup B
  BY <1>2, <1>5, FS_Subset
<1>7. Total(w, U \cup B) = Total(w, U) + Total(w, B)
  BY <1>1, <1>2, <1>6
<1>8. /\ Total(w, T) = w[x] + Total(w, U)
      /\ Total(w, T \cup B) = w[x] + Total(w, U \cup B)
  BY <1>2, <1>5, <1>6, TotalWithout
<1>9. w[x] \in Nat /\ Total(w, U) \in Nat
  BY <1>2, <1>5, <1>6, TotalIsNat
<1> HIDE DEF Bad, U
<1> QED
  BY <1>2, <1>3, <1>7, <1>8, <1>9

\* Adding up group by group.
LEMMA TotalByGroup ==
    ASSUME NEW S, IsFiniteSet(S), NEW w, \A e \in S : w[e] \in Nat,
           NEW D, IsFiniteSet(D), NEW group, \A e \in S : group[e] \in D,
           NEW v, \A d \in D : v[d] = Total(w, {e \in S : group[e] = d})
    PROVE  Total(v, D) = Total(w, S)
<1> DEFINE In(X) == {e \in S : group[e] \in X}
           Bad == {X \in SUBSET D : Total(v, X) # Total(w, In(X))}
<1>0. In(D) = S
  OBVIOUS
<1> SUFFICES ASSUME Bad # {}
             PROVE  FALSE
  BY <1>0
<1>1. PICK X \in Bad : \A Y \in SUBSET X : Y # X => Y \notin Bad
  <2>1. Bad \in SUBSET SUBSET D
    OBVIOUS
  <2> HIDE DEF Bad
  <2> QED
    BY <2>1, Smallest
<1>2. X \in SUBSET D /\ IsFiniteSet(X) /\ Total(v, X) # Total(w, In(X))
  BY FS_Subset
<1>3. X # {}
  <2>1. In({}) = {}
    OBVIOUS
  <2> QED
    BY <1>2, <2>1, TotalOfNone
<1>4. PICK d \in X : d = Pick(X)
  BY <1>3, PickIn
<1>5. Total(v, X) = v[d] + Total(v, X \ {d})
  BY <1>2, <1>3, <1>4, TotalPicks
<1>6. Total(v, X \ {d}) = Total(w, In(X \ {d}))
  BY <1>1, <1>2, <1>4
<1>7. v[d] = Total(w, In({d}))
  <2>1. In({d}) = {e \in S : group[e] = d}
    OBVIOUS
  <2> QED
    BY <1>2, <2>1
<1>8. Total(w, In(X)) = Total(w, In({d})) + Total(w, In(X \ {d}))
  <2>1. /\ In({d}) \in SUBSET S /\ In(X \ {d}) \in SUBSET S
        /\ In({d}) \cap In(X \ {d}) = {} /\ In({d}) \cup In(X \ {d}) = In(X)
    OBVIOUS
  <2> DEFINE A == In({d})
             B == In(X \ {d})
  <2>2. A \in SUBSET S /\ B \in SUBSET S /\ A \cap B = {}
    BY <2>1
  <2>3. Total(w, A \cup B) = Total(w, A) + Total(w, B)
    <3> HIDE DEF A, B
    <3> QED
      BY <2>2, TotalOfUnion
  <2> QED
    BY <2>1, <2>3
<1> HIDE DEF In, Bad
<1> QED
  BY <1>2, <1>5, <1>6, <1>7, <1>8

\* Counting is adding ones.
LEMMA TotalOfOnes ==
    ASSUME NEW S, IsFiniteSet(S), NEW w, \A e \in S : w[e] = 1
    PROVE  Total(w, S) = Cardinality(S)
<1> DEFINE Bad == {T \in SUBSET S : Total(w, T) # Cardinality(T)}
<1> SUFFICES ASSUME Bad # {}
             PROVE  FALSE
  OBVIOUS
<1>1. PICK T \in Bad : \A U \in SUBSET T : U # T => U \notin Bad
  <2>1. Bad \in SUBSET SUBSET S
    OBVIOUS
  <2> HIDE DEF Bad
  <2> QED
    BY <2>1, Smallest
<1>2. T \in SUBSET S /\ IsFiniteSet(T) /\ Total(w, T) # Cardinality(T)
  BY FS_Subset
<1>3. T # {}
  BY <1>2, TotalOfNone, FS_EmptySet
<1> DEFINE x == Pick(T)
           U == T \ {x}
<1>4. x \in T /\ Total(w, T) = w[x] + Total(w, U)
  BY <1>2, <1>3, TotalPicks, PickIn
<1>5. Total(w, U) = Cardinality(U)
  BY <1>1, <1>2, <1>4
<1>6. Cardinality(T) \in Nat /\ Cardinality(U) = Cardinality(T) - 1
  BY <1>2, <1>4, FS_RemoveElement, FS_CardinalityType
<1>7. w[x] = 1
  BY <1>2, <1>4
<1> HIDE DEF Bad, x, U
<1> QED
  BY <1>2, <1>4, <1>5, <1>6, <1>7

\* The sums that the queries and checksums take are such totals.
CentsOf(rows, S) == MapThenSumSet(LAMBDA d : rows[d].revenue_cents, S)

OrdersOf(rows, S) == MapThenSumSet(LAMBDA d : rows[d].completed_orders, S)

LEMMA AmountsAdd ==
    ASSUME NEW S, IsFiniteSet(S), NEW w, \A e \in S : w[e] = e.amount_cents
    PROVE  Revenue(S) = Total(w, S)
<1> DEFINE Right(g) == g = [s \in SUBSET S |->
                              IF s = {} THEN 0
                              ELSE (CHOOSE x \in s : TRUE).amount_cents
                                    + g[s \ {CHOOSE x \in s : TRUE}]]
<1>1. Revenue(S) = (CHOOSE g : Right(g))[S]
  BY DEF Revenue, MapThenSumSet, MapThenFoldSet
<1>2. ASSUME NEW g
      PROVE  Right(g) <=> Adds(g, w, S)
  <2> DEFINE E(s) == IF s = {} THEN 0
                     ELSE (CHOOSE x \in s : TRUE).amount_cents
                           + g[s \ {CHOOSE x \in s : TRUE}]
             F(s) == IF s = {} THEN 0 ELSE w[Pick(s)] + g[s \ {Pick(s)}]
  <2>1. \A s \in SUBSET S : E(s) = F(s)
    BY PickIn DEF Pick
  <2> HIDE DEF E, F
  <2>2. [s \in SUBSET S |-> E(s)] = [s \in SUBSET S |-> F(s)]
    BY <2>1
  <2> QED
    BY <2>2 DEF E, F, Adds
<1>3. \E g : Right(g)
  BY ZenonT(30), <1>2, AddsExists
<1>4. Adds(CHOOSE g : Right(g), w, S)
  <2> HIDE DEF Right
  <2> QED
    BY <1>2, <1>3
<1> HIDE DEF Right
<1> QED
  BY <1>1, <1>4, TotalOfSubset

LEMMA CentsAdd ==
    ASSUME NEW S, IsFiniteSet(S), NEW w, NEW rows,
           \A d \in S : w[d] = rows[d].revenue_cents
    PROVE  CentsOf(rows, S) = Total(w, S)
<1> DEFINE Right(g) == g = [s \in SUBSET S |->
                              IF s = {} THEN 0
                              ELSE rows[CHOOSE x \in s : TRUE].revenue_cents
                                    + g[s \ {CHOOSE x \in s : TRUE}]]
<1>1. CentsOf(rows, S) = (CHOOSE g : Right(g))[S]
  BY DEF CentsOf, MapThenSumSet, MapThenFoldSet
<1>2. ASSUME NEW g
      PROVE  Right(g) <=> Adds(g, w, S)
  <2> DEFINE E(s) == IF s = {} THEN 0
                     ELSE rows[CHOOSE x \in s : TRUE].revenue_cents
                           + g[s \ {CHOOSE x \in s : TRUE}]
             F(s) == IF s = {} THEN 0 ELSE w[Pick(s)] + g[s \ {Pick(s)}]
  <2>1. \A s \in SUBSET S : E(s) = F(s)
    BY PickIn DEF Pick
  <2> HIDE DEF E, F
  <2>2. [s \in SUBSET S |-> E(s)] = [s \in SUBSET S |-> F(s)]
    BY <2>1
  <2> QED
    BY <2>2 DEF E, F, Adds
<1>3. \E g : Right(g)
  BY ZenonT(30), <1>2, AddsExists
<1>4. Adds(CHOOSE g : Right(g), w, S)
  <2> HIDE DEF Right
  <2> QED
    BY <1>2, <1>3
<1> HIDE DEF Right
<1> QED
  BY <1>1, <1>4, TotalOfSubset

LEMMA OrdersAdd ==
    ASSUME NEW S, IsFiniteSet(S), NEW w, NEW rows,
           \A d \in S : w[d] = rows[d].completed_orders
    PROVE  OrdersOf(rows, S) = Total(w, S)
<1> DEFINE Right(g) == g = [s \in SUBSET S |->
                              IF s = {} THEN 0
                              ELSE rows[CHOOSE x \in s : TRUE].completed_orders
                                    + g[s \ {CHOOSE x \in s : TRUE}]]
<1>1. OrdersOf(rows, S) = (CHOOSE g : Right(g))[S]
  BY DEF OrdersOf, MapThenSumSet, MapThenFoldSet
<1>2. ASSUME NEW g
      PROVE  Right(g) <=> Adds(g, w, S)
  <2> DEFINE E(s) == IF s = {} THEN 0
                     ELSE rows[CHOOSE x \in s : TRUE].completed_orders
                           + g[s \ {CHOOSE x \in s : TRUE}]
             F(s) == IF s = {} THEN 0 ELSE w[Pick(s)] + g[s \ {Pick(s)}]
  <2>1. \A s \in SUBSET S : E(s) = F(s)
    BY PickIn DEF Pick
  <2> HIDE DEF E, F
  <2>2. [s \in SUBSET S |-> E(s)] = [s \in SUBSET S |-> F(s)]
    BY <2>1
  <2> QED
    BY <2>2 DEF E, F, Adds
<1>3. \E g : Right(g)
  BY ZenonT(30), <1>2, AddsExists
<1>4. Adds(CHOOSE g : Right(g), w, S)
  <2> HIDE DEF Right
  <2> QED
    BY <1>2, <1>3
<1> HIDE DEF Right
<1> QED
  BY <1>1, <1>4, TotalOfSubset

-----------------------------------------------------------------------------
(* The invariant: the raw events are the committed input, staged at once.  *)

RawIsInput ==
    /\ input \in Seq(Events)
    /\ db.raw = Staged({}, input)

GateInv == Inv /\ RawIsInput

LEMMA RawIsWellFormed ==
    ASSUME RawIsInput
    PROVE  db.raw \in SUBSET Events /\ IsFiniteSet(db.raw) /\ Keyed(db.raw)
BY StagedIsWellFormed, FS_EmptySet DEF RawIsInput, Keyed

\* The steps that leave the raw events alone.
LEMMA RawKept ==
    ASSUME RawIsInput, db'.raw = db.raw, UNCHANGED input
    PROVE  RawIsInput'
BY DEF RawIsInput

LEMMA GateInvInductive == GateSpec => []GateInv
<1>1. GateInit => GateInv
  <2> SUFFICES ASSUME GateInit
               PROVE  GateInv
    OBVIOUS
  <2>1. Staged({}, <<>>) = {}
    BY DEF Staged
  <2> QED
    BY <2>1, InitInv DEF GateInit, GateInv, Init, RawIsInput
<1>2. GateInv /\ [GateNext]_gateVars => GateInv'
  <2> SUFFICES ASSUME GateInv, [GateNext]_gateVars
               PROVE  GateInv'
    OBVIOUS
  <2>1. Inv /\ RawIsInput
    BY DEF GateInv
  <2>2. CASE UNCHANGED gateVars
    <3>1. affected_orders' = affected_orders
      BY <2>2 DEF gateVars, affected_orders
    <3>2. Inv'
      BY <2>1, <2>2, <3>1
         DEF gateVars, Inv, Committed, RunningIsPrivate, JobKnown, Progress,
             InTransaction
    <3> QED
      BY <2>1, <2>2, <3>2, RawKept DEF gateVars, GateInv
  <2>3. CASE \E batch \in Batches, r \in RunIds, f \in Failpoints :
                Begin(batch, r, f) /\ UNCHANGED input
    BY <2>1, <2>3, BeginPreserves, RawKept DEF Begin, GateInv
  <2>4. CASE Stage /\ UNCHANGED input
    BY <2>1, <2>4, StagePreserves, RawKept DEF Stage, GateInv
  <2>5. CASE Upsert /\ UNCHANGED input
    BY <2>1, <2>5, UpsertPreserves, RawKept DEF Upsert, GateInv
  <2>6. CASE Refresh /\ UNCHANGED input
    BY <2>1, <2>6, RefreshPreserves, RawKept DEF Refresh, GateInv
  <2>7. CASE Commit /\ input' = input \o job.batch
    <3>1. job.batch \in Seq(Events) /\ db'.raw = Staged(db.raw, job.batch)
      BY <2>1, <2>7, CommitInstalls, BatchAssumption
    <3>2. db'.raw = Staged({}, input') /\ input' \in Seq(Events)
      BY <2>1, <2>7, <3>1, StagedTwice, ConcatProperties DEF RawIsInput
    <3> QED
      BY <2>1, <2>7, <3>2, CommitPreserves DEF GateInv, RawIsInput
  <2>8. CASE Raise /\ UNCHANGED input
    BY <2>1, <2>8, RaisePreserves, RawKept DEF Raise, GateInv
  <2>9. CASE RecordFailure /\ UNCHANGED input
    <3>1. Inv' /\ \E r \in RunIds : db' = [db EXCEPT !.runs[r] = "failed"]
      BY <2>1, <2>9, RecordFailurePreserves
    <3>2. Tables(db)
      BY <2>1 DEF Inv, Committed
    <3>3. db'.raw = db.raw
      BY <3>1, <3>2 DEF Tables
    <3> QED
      BY <2>1, <2>9, <3>1, <3>3, RawKept DEF GateInv
  <2>10. CASE Crash /\ UNCHANGED input
    BY <2>1, <2>10, CrashPreserves, RawKept DEF Crash, GateInv
  <2> QED
    BY <2>2, <2>3, <2>4, <2>5, <2>6, <2>7, <2>8, <2>9, <2>10 DEF GateNext
<1> QED
  BY <1>1, <1>2, PTL DEF GateSpec

-----------------------------------------------------------------------------
(* The results about the gates.                                            *)

\* What the evaluator reads is a function of the two output tables.
LEMMA SnapshotReads ==
    ASSUME NEW s, NEW t, s.current = t.current, s.revenue = t.revenue
    PROVE  /\ snapshot_semantics(s) = snapshot_semantics(t)
           /\ OrderRows(s) = OrderRows(t)
           /\ RevenueDates(s) = RevenueDates(t)
<1>1. OrderRows(s) = OrderRows(t) /\ RevenueDates(s) = RevenueDates(t)
  BY DEF OrderRows, RevenueDates
<1>2. snapshot(s) = snapshot(t)
  BY <1>1 DEF snapshot
<1> QED
  BY <1>1, <1>2 DEF snapshot_semantics

\* What a commit makes of the output when no order's latest event changes.
LEMMA SameLatestSameOutput ==
    ASSUME Inv, Commit,
           \A o \in Orders : Latest(Staged(db.raw, job.batch), o) = Latest(db.raw, o)
    PROVE  db'.current = db.current /\ db'.revenue = db.revenue
<1>1. db'.current = db.current
  BY CommitInstalls DEF Inv, Committed
<1> QED
  BY <1>1, CommitInstalls DEF Inv, Committed

\* Replaying ingested events, altered or not, in any selection and order, is
\* idle: the gates duplicates and idempotency hold of every batch.
THEOREM ReplaysIdle == GateSpec => ReplaysAreIdle
<1>1. GateInv /\ [GateNext]_gateVars =>
          [Commit /\ Ids(BatchEvents) \subseteq Ids(db.raw) =>
               ReplayGate(db, db')]_gateVars
  <2> SUFFICES ASSUME GateInv, Commit, Ids(BatchEvents) \subseteq Ids(db.raw)
               PROVE  ReplayGate(db, db')
    OBVIOUS
  <2>1. Inv
    BY DEF GateInv
  <2>2. \A i \in DOMAIN job.batch : \E e \in db.raw : e.event_id = job.batch[i].event_id
    BY DEF Ids, BatchEvents
  <2>3. Staged(db.raw, job.batch) = db.raw
    BY <2>2 DEF Staged
  <2>4. db'.current = db.current /\ db'.revenue = db.revenue
    BY <2>1, <2>3, SameLatestSameOutput
  <2>5. db'.raw = db.raw
    BY <2>1, <2>3, CommitInstalls
  <2> QED
    BY <2>4, <2>5, SnapshotReads DEF ReplayGate, counts
<1> QED
  BY <1>1, GateInvInductive, PTL DEF GateSpec, ReplaysAreIdle

\* Events older than the current rows of their orders stay in raw history and
\* change no output: the gate backfill holds of every such batch.
THEOREM BackfillsKept == GateSpec => BackfillsAreKept
<1> DEFINE Old == \A e \in BatchEvents : /\ db.current[e.order_id] # None
                                         /\ Later(db.current[e.order_id], e)
           Fresh == Cardinality(Ids(BatchEvents) \ Ids(db.raw))
<1>1. GateInv /\ [GateNext]_gateVars =>
          [Commit /\ Old => BackfillGate(db, db', Fresh)]_gateVars
  <2> SUFFICES ASSUME GateInv, Commit, Old
               PROVE  BackfillGate(db, db', Fresh)
    OBVIOUS
  <2> DEFINE raw == db.raw
             batch == job.batch
             all == Staged(raw, batch)
  <2>1. /\ Inv
        /\ raw \in SUBSET Events /\ IsFiniteSet(raw) /\ Keyed(raw)
        /\ batch \in Seq(Events)
        /\ \A o \in Orders : db.current[o] = Latest(raw, o)
    BY RawIsWellFormed, CommitInstalls, BatchAssumption DEF GateInv, Inv, Committed
  <2>2. all \in SUBSET Events /\ IsFiniteSet(all) /\ Keyed(all) /\ raw \subseteq all
    BY <2>1, StagedIsWellFormed DEF Staged
  <2>3. \A e \in New(raw, batch) : e \in BatchEvents
    BY NewEvents DEF BatchEvents
  <2>4. ASSUME NEW o \in Orders
        PROVE  Latest(all, o) = Latest(raw, o)
    <3>1. CASE \A e \in New(raw, batch) : e.order_id # o
      <4>1. OfOrder(all, o) = OfOrder(raw, o)
        BY <2>2, <3>1 DEF OfOrder, New
      <4> QED
        BY <4>1, LatestReads
    <3>2. CASE \E e \in New(raw, batch) : e.order_id = o
      <4>1. Latest(raw, o) # None
        BY <2>1, <2>3, <3>2
      <4>2. OfOrder(raw, o) # {}
        BY <4>1, NoEventsNoRow
      <4>3. IsLatest(Latest(raw, o), OfOrder(raw, o))
        BY <2>1, <4>2, LatestIsLatest
      <4>4. \A e \in OfOrder(all, o) \ OfOrder(raw, o) : Later(Latest(raw, o), e)
        BY <2>1, <2>3 DEF OfOrder, New
      <4>5. IsLatest(Latest(raw, o), OfOrder(all, o))
        BY <2>2, <4>3, <4>4 DEF IsLatest, OfOrder
      <4>6. OfOrder(all, o) # {}
        BY <4>5 DEF IsLatest
      <4>7. IsLatest(Latest(all, o), OfOrder(all, o))
        BY <2>2, <4>6, LatestIsLatest
      <4>8. OfOrder(all, o) \in SUBSET Events
        BY <2>2 DEF OfOrder
      <4> QED
        BY <4>5, <4>7, <4>8, LatestIsUnique
    <3> QED
      BY <3>1, <3>2
  <2>5. db'.current = db.current /\ db'.revenue = db.revenue
    BY <2>1, <2>4, SameLatestSameOutput
  <2>6. Cardinality(all) = Cardinality(raw) + Fresh
    <3> DEFINE news == New(raw, batch)
               ids == {e.event_id : e \in news}
               f == [e \in news |-> e.event_id]
    <3>1. ids = Ids(BatchEvents) \ Ids(raw)
      <4>1. Ids(BatchEvents) = BatchIds(batch)
        BY DEF Ids, BatchEvents, BatchIds
      <4> QED
        BY <2>1, <4>1, StagedIds
    <3>2. IsFiniteSet(news)
      BY <2>2, FS_Subset DEF New
    <3>3. f \in Surjection(news, ids)
      BY DEF Surjection
    <3>4. f \in Injection(news, ids)
      BY <2>2 DEF Injection, IsInjective, New, Keyed
    <3>5. Cardinality(ids) = Cardinality(news)
      BY <3>2, <3>3, <3>4, FS_Surjection
    <3>6. Cardinality(raw \cup news) =
              Cardinality(raw) + Cardinality(news) - Cardinality(raw \cap news)
      BY <2>1, <3>2, FS_Union
    <3>7. raw \cap news = {} /\ raw \cup news = all
      BY <2>2 DEF New
    <3>8. Cardinality(raw) \in Nat /\ Cardinality(news) \in Nat /\ Cardinality({}) = 0
      BY <2>1, <3>2, FS_CardinalityType, FS_EmptySet
    <3>9. Fresh = Cardinality(news)
      BY <3>1, <3>5
    <3>10. Cardinality(all) =
               Cardinality(raw) + Cardinality(news) - Cardinality({})
      BY <3>6, <3>7
    <3> HIDE DEF Fresh, all, raw, news
    <3> QED
      BY <3>8, <3>9, <3>10
  <2>7. db'.raw = all
    BY <2>1, CommitInstalls
  <2>8. snapshot_semantics(db') = snapshot_semantics(db)
    BY <2>5, SnapshotReads
  <2> QED
    BY <2>6, <2>7, <2>8 DEF BackfillGate, counts
<1> QED
  BY <1>1, GateInvInductive, PTL DEF GateSpec, BackfillsAreKept

\* The output is that of one full refresh of the committed input, whatever
\* failed, crashed and was tried again in between.
THEOREM OutputCorrect == GateSpec => []OutputIsFullRefresh
<1>1. GateInv => OutputIsFullRefresh
  <2> SUFFICES ASSUME GateInv
               PROVE  OutputIsFullRefresh
    OBVIOUS
  <2>1. /\ db.current = FullRefreshOf(input).current
        /\ db.revenue = FullRefreshOf(input).revenue
    BY DEF GateInv, RawIsInput, Inv, Committed, FullRefreshOf, TablesOf
  <2> QED
    BY <2>1, SnapshotReads DEF OutputIsFullRefresh
<1> QED
  BY <1>1, GateInvInductive, PTL

\* Where no id came with two contents, neither the batching, nor the order of
\* arrival, nor repetition can be told from the tables.
THEOREM ArrivalOrderForgotten == GateSpec => []ArrivalOrderIsIrrelevant
<1> DEFINE events == Range(input)
<1>1. ASSUME GateInv, Keyed(events)
      PROVE  /\ counts(db) = counts(TablesOf(events))
             /\ snapshot_semantics(db) = snapshot_semantics(TablesOf(events))
  <2>1. db.raw = events
    <3>1. {} \cup events = events
      OBVIOUS
    <3> QED
      BY <1>1, <3>1, StagedWhole DEF GateInv, RawIsInput
  <2>2. /\ db.current = [o \in Orders |-> Latest(db.raw, o)]
        /\ db.revenue = [d \in Dates |-> Rollup(db.current, d)]
    BY <1>1 DEF GateInv, Inv, Committed
  <2> HIDE DEF events
  <2>3. /\ db.raw = TablesOf(events).raw
        /\ db.current = TablesOf(events).current
        /\ db.revenue = TablesOf(events).revenue
    BY <2>1, <2>2 DEF TablesOf
  <2> QED
    BY <2>3, SnapshotReads DEF counts
<1>2. GateInv => ArrivalOrderIsIrrelevant
  BY <1>1 DEF ArrivalOrderIsIrrelevant, Keyed, Range
<1> HIDE DEF events
<1> QED
  BY <1>2, GateInvInductive, PTL

\* What the dates add up to is what the completed orders add up to.
LEMMA RollupsAddUp ==
    ASSUME Committed, db.raw \in SUBSET Events, IsFiniteSet(db.raw), Keyed(db.raw)
    PROVE  RevenueIsConserved
<1> DEFINE completed == {e \in OrderRows(db) : e.status = "completed"}
           revenue   == snapshot(db).daily_revenue
           D         == DOMAIN revenue
           amount    == [e \in completed |-> e.amount_cents]
           one       == [e \in completed |-> 1]
           date      == [e \in completed |-> DateOf(e)]
           cents     == [d \in D |-> revenue[d].revenue_cents]
           orders    == [d \in D |-> revenue[d].completed_orders]
           On(d)     == {e \in completed : date[e] = d}
<1>1. completed \in SUBSET db.raw
  <2>1. \A o \in Orders : db.current[o] # None => db.current[o] \in db.raw
    <3>1. \A o \in Orders : db.current[o] = Latest(db.raw, o)
      BY DEF Committed
    <3> QED
      BY <3>1, NoEventsNoRow, LatestIsLatest DEF IsLatest, OfOrder
  <2> QED
    BY <2>1 DEF OrderRows
<1>2. completed \in SUBSET Events /\ IsFiniteSet(completed)
  BY <1>1, FS_Subset
<1>3. /\ \A e \in completed : amount[e] \in Nat /\ amount[e] = e.amount_cents
      /\ \A e \in completed : one[e] \in Nat /\ one[e] = 1
      /\ \A e \in completed : date[e] = DateOf(e) /\ date[e] \in Dates
  BY <1>2, EventAssumption DEF Dates
<1>4. \A d : On(d) = CompletedOn(db.current, d)
  BY <1>3 DEF OrderRows, CompletedOn
<1>5. /\ D = RevenueDates(db)
      /\ \A d \in D : d \in Dates /\ revenue[d] = db.revenue[d]
  BY DEF snapshot, RevenueDates
<1> HIDE DEF completed, revenue, D, amount, one, date, On
<1>6. ASSUME NEW d \in Dates
      PROVE  /\ d \in D <=> On(d) # {}
             /\ d \in D => /\ cents[d] = Total(amount, On(d))
                           /\ orders[d] = Total(one, On(d))
  <2>1. On(d) \in SUBSET completed /\ IsFiniteSet(On(d))
    BY <1>2, FS_Subset DEF On
  <2>2. Revenue(On(d)) = Total(amount, On(d)) /\ Revenue(On(d)) \in Nat
    BY <1>3, <2>1, AmountsAdd, TotalIsNat
  <2>3. Cardinality(On(d)) = Total(one, On(d)) /\ Cardinality(On(d)) \in Nat
    BY <1>3, <2>1, TotalOfOnes, FS_CardinalityType
  <2>4. db.revenue[d] = RollupOf(On(d))
    BY <1>4, RollupReads DEF Committed
  <2>5. On(d) = {} => db.revenue[d] = None
    BY <2>4 DEF RollupOf
  <2>6. ASSUME On(d) # {}
        PROVE  /\ db.revenue[d] # None
               /\ db.revenue[d].completed_orders = Cardinality(On(d))
               /\ db.revenue[d].revenue_cents = Revenue(On(d))
    <3>1. db.revenue[d] = [completed_orders |-> Cardinality(On(d)),
                           revenue_cents    |-> Revenue(On(d))]
      BY <2>4, <2>6 DEF RollupOf
    <3> QED
      BY <2>2, <2>3, <3>1, JobAssumption
  <2>7. d \in D <=> db.revenue[d] # None
    BY <1>5 DEF RevenueDates
  <2> QED
    BY <1>5, <2>2, <2>3, <2>5, <2>6, <2>7 DEF cents, orders
<1>7. IsFiniteSet(D)
  <2>1. \A e \in completed : e \in On(date[e]) /\ date[e] \in D
    BY <1>3, <1>6 DEF On
  <2>2. date \in [completed -> D]
    BY <2>1 DEF date
  <2>3. \A d \in D : \E e \in completed : date[e] = d
    BY <1>5, <1>6 DEF On
  <2>4. date \in Surjection(completed, D)
    BY <2>2, <2>3 DEF Surjection
  <2> QED
    BY <1>2, <2>4, FS_Surjection
<1>8. \A e \in completed : date[e] \in D
  BY <1>3, <1>6 DEF On
<1>9. Total(cents, D) = Total(amount, completed)
  <2>1. \A d \in D : cents[d] = Total(amount, {e \in completed : date[e] = d})
    BY <1>5, <1>6 DEF On
  <2> HIDE DEF cents, orders
  <2>2. IsFiniteSet(completed) /\ \A e \in completed : amount[e] \in Nat
    BY <1>2, <1>3
  <2> QED
    BY <1>7, <1>8, <2>1, <2>2, TotalByGroup
<1>10. Total(orders, D) = Total(one, completed)
  <2>1. \A d \in D : orders[d] = Total(one, {e \in completed : date[e] = d})
    BY <1>5, <1>6 DEF On
  <2> HIDE DEF cents, orders
  <2>2. IsFiniteSet(completed) /\ \A e \in completed : one[e] \in Nat
    BY <1>2, <1>3
  <2> QED
    BY <1>7, <1>8, <2>1, <2>2, TotalByGroup
<1>11. /\ CentsOf(revenue, D) = Total(cents, D)
       /\ OrdersOf(revenue, D) = Total(orders, D)
  <2>1. /\ \A d \in D : cents[d] = revenue[d].revenue_cents
        /\ \A d \in D : orders[d] = revenue[d].completed_orders
    OBVIOUS
  <2> HIDE DEF cents, orders
  <2> QED
    BY <1>7, <2>1, CentsAdd, OrdersAdd
<1>12. /\ Revenue(completed) = Total(amount, completed)
       /\ Cardinality(completed) = Total(one, completed)
  BY <1>2, <1>3, AmountsAdd, TotalOfOnes
<1>13. /\ snapshot_semantics(db).checksums.revenue_cents =
             CentsOf(revenue, D)
       /\ snapshot_semantics(db).checksums.completed_orders =
             OrdersOf(revenue, D)
  BY DEF snapshot_semantics, semantic_check, revenue, D, CentsOf, OrdersOf
<1> QED
  BY <1>9, <1>10, <1>11, <1>12, <1>13 DEF RevenueIsConserved, completed

\* No cent of a completed order is lost or counted on two dates: over all dates
\* the revenue is what the completed orders come to, for any history of batches.
THEOREM RevenueConserved == GateSpec => []RevenueIsConserved
<1>1. GateInv => RevenueIsConserved
  BY RawIsWellFormed, RollupsAddUp DEF GateInv, Inv
<1> QED
  BY <1>1, GateInvInductive, PTL
=============================================================================
