------------------------------ MODULE Pipeline ------------------------------
(***************************************************************************)
(* practice_pipeline.pipeline.Pipeline: batches of order events applied to *)
(* a DuckDB database, one transaction each, updating only the orders and   *)
(* the dates the batch touches.  The database is external: a transaction   *)
(* works on a copy that COMMIT installs and ROLLBACK or a crash drops.     *)
(* There is one process() at a time, as DuckDB lets one process open a     *)
(* database for writing and the repository starts no threads on it.        *)
(***************************************************************************)
EXTENDS OrderTables, Sequences

CONSTANT Batches   \* the batches offered to process(): sequences of events

ASSUME BatchAssumption == Batches \subseteq Seq(Events)

Failpoints == {"none", "after_stage", "before_commit"}

RevenueRow == [completed_orders : Nat, revenue_cents : 0 .. BigInt]

Database ==
    [raw     : SUBSET Events,
     current : [Orders -> Events \cup {None}],
     revenue : [Dates -> RevenueRow \cup {None}],
     runs    : [RunIds -> {"running", "completed", "failed", None}]]

Job == [batch : Batches, run_id : RunIds, failpoint : Failpoints]

ASSUME JobAssumption ==
    /\ None \notin Database /\ None \notin Job
    /\ None \notin [completed_orders : Nat, revenue_cents : Nat]

VARIABLES
    db,          \* the committed tables
    txn,         \* the tables as the open transaction sees them, or None
    pc,          \* where process() is
    job,         \* its arguments, or None
    old_dates    \* the dates its orders were on before the batch

vars == <<db, txn, pc, job, old_dates>>

TypeOK ==
    /\ db \in Database
    /\ txn \in Database \cup {None}
    /\ pc \in {"idle", "begun", "staged", "upserted", "refreshed", "failing"}
    /\ job \in Job \cup {None}
    /\ old_dates \subseteq Dates

Init ==
    /\ db = [raw     |-> {},
             current |-> [o \in Orders |-> None],
             revenue |-> [d \in Dates |-> None],
             runs    |-> [r \in RunIds |-> None]]
    /\ txn = None
    /\ pc = "idle"
    /\ job = None
    /\ old_dates = {}

affected_orders == {job.batch[i].order_id : i \in DOMAIN job.batch}

CurrentDates(current, orders) ==
    {DateOf(e) : e \in {current[o] : o \in orders} \ {None}}

-----------------------------------------------------------------------------
(* process(), statement by statement.                                      *)

Begin(batch, r, failpoint) ==
    /\ pc = "idle"
    /\ pc' = "begun"
    /\ job' = [batch |-> batch, run_id |-> r, failpoint |-> failpoint]
    /\ txn' = [db EXCEPT !.runs[r] = "running"]
    /\ old_dates' = CurrentDates(db.current, affected_orders')
    /\ UNCHANGED db

\* An amount that does not fit its column is an error of the INSERT.
Stage ==
    /\ pc = "begun"
    /\ \A i \in DOMAIN job.batch : job.batch[i].amount_cents <= BigInt
    /\ pc' = "staged"
    /\ txn' = [txn EXCEPT !.raw = Staged(@, job.batch)]
    /\ UNCHANGED <<db, job, old_dates>>

\* Mutation: the latest event is looked for in the batch only.
UpsertFromBatch ==
    /\ pc = "staged"
    /\ job.failpoint # "after_stage"
    /\ pc' = "upserted"
    /\ LET batch == {job.batch[i] : i \in DOMAIN job.batch}
       IN  txn' = [txn EXCEPT !.current =
                      [o \in Orders |->
                          IF o \in affected_orders THEN Latest(batch, o) ELSE @[o]]]
    /\ UNCHANGED <<db, job, old_dates>>

\* An order that has no raw event gets no row, and keeps the one it has.
Upsert ==
    /\ pc = "staged"
    /\ job.failpoint # "after_stage"
    /\ pc' = "upserted"
    /\ txn' = [txn EXCEPT !.current =
                  [o \in Orders |->
                      IF o \in affected_orders /\ OfOrder(txn.raw, o) # {}
                      THEN Latest(txn.raw, o)
                      ELSE @[o]]]
    /\ UNCHANGED <<db, job, old_dates>>

\* Mutation: the dates the orders leave are not rebuilt.
affected_dates_without_old == CurrentDates(txn.current, affected_orders)

affected_dates == old_dates \cup CurrentDates(txn.current, affected_orders)

\* A sum that does not fit the column is an error of the INSERT.
Fits(d) == Rollup(txn.current, d) \in RevenueRow \cup {None}

\* Mutation: the sum is stored in a wider column than is declared.
RefreshUnchecked ==
    /\ pc = "upserted"
    /\ pc' = "refreshed"
    /\ txn' = [txn EXCEPT !.revenue =
                  [d \in Dates |->
                      IF d \in affected_dates THEN Rollup(txn.current, d) ELSE @[d]]]
    /\ UNCHANGED <<db, job, old_dates>>

Refresh ==
    /\ pc = "upserted"
    /\ \A d \in affected_dates : Fits(d)
    /\ pc' = "refreshed"
    /\ txn' = [txn EXCEPT !.revenue =
                  [d \in Dates |->
                      IF d \in affected_dates THEN Rollup(txn.current, d) ELSE @[d]]]
    /\ UNCHANGED <<db, job, old_dates>>

Leave ==
    /\ pc' = "idle"
    /\ txn' = None
    /\ job' = None
    /\ old_dates' = {}

\* Mutation: the run is not marked before the commit.
CommitUnmarked ==
    /\ pc = "refreshed"
    /\ job.failpoint # "before_commit"
    /\ db' = txn
    /\ Leave

Commit ==
    /\ pc = "refreshed"
    /\ job.failpoint # "before_commit"
    /\ db' = [txn EXCEPT !.runs[job.run_id] = "completed"]
    /\ Leave

\* Mutation: each statement commits on its own, so an error keeps those before.
RaiseWithoutRollback ==
    /\ pc \in {"begun", "staged", "upserted", "refreshed"}
    /\ pc' = "failing"
    /\ db' = txn
    /\ txn' = None
    /\ UNCHANGED <<job, old_dates>>

\* Any statement may raise: at a failpoint, on overflow, on a full disk.
Raise ==
    /\ pc \in {"begun", "staged", "upserted", "refreshed"}
    /\ pc' = "failing"
    /\ txn' = None
    /\ UNCHANGED <<db, job, old_dates>>

RecordFailure ==
    /\ pc = "failing"
    /\ db' = [db EXCEPT !.runs[job.run_id] = "failed"]
    /\ Leave

\* The process dies, or is interrupted by what "except Exception" lets pass.
Crash ==
    /\ pc # "idle"
    /\ Leave
    /\ UNCHANGED db

Next ==
    \/ \E batch \in Batches, r \in RunIds, f \in Failpoints : Begin(batch, r, f)
    \/ Stage \/ Upsert \/ Refresh \/ Commit
    \/ Raise \/ RecordFailure \/ Crash

Spec == Init /\ [][Next]_vars

-----------------------------------------------------------------------------
(* Properties.                                                             *)

\* Late, duplicate and backfilled events notwithstanding, orders_current holds
\* the latest event of each order.
CurrentIsLatest == \A o \in Orders : db.current[o] = Latest(db.raw, o)

\* An order that moves to another date, or is cancelled, leaves no revenue
\* behind: each row of daily_revenue is the rollup of all orders of its date.
RevenueIsRollup == \A d \in Dates : db.revenue[d] = Rollup(db.current, d)

\* The 'running' status is only ever seen by its own transaction.
RunningIsPrivate == \A r \in RunIds : db.runs[r] # "running"

Abs == INSTANCE FullRefresh WITH
               raw     <- db.raw,
               current <- db.current,
               revenue <- db.revenue,
               runs    <- db.runs

\* Incremental processing is equivalent to a full refresh.
ImplementsFullRefresh == Abs!Spec
=============================================================================
