----------------------------- MODULE OrderGates -----------------------------
(***************************************************************************)
(* What the evaluator of the practice task reads off the pipeline's        *)
(* tables (semantics.py, hashing.semantic_check) and what its gates ask    *)
(* of a batch, stated here of any batch on any history, not of the         *)
(* fixtures only.                                                          *)
(*                                                                         *)
(* The canonical hash of a snapshot is the snapshot (SHA-256 is assumed    *)
(* not to collide); rows are sets, as they are read in the order of their  *)
(* keys.  The tables have primary keys, so no business key is double.      *)
(***************************************************************************)
EXTENDS Pipeline

CONSTANT MaxInput   \* bound on the events of all batches together

VARIABLE input      \* history: the events of the committed batches, in order

gateVars == <<db, txn, pc, job, old_dates, input>>

OrderRows(tables) == {tables.current[o] : o \in Orders} \ {None}

RevenueDates(tables) == {d \in Dates : tables.revenue[d] # None}

snapshot(tables) ==
    [orders_current |-> OrderRows(tables),
     daily_revenue  |-> [d \in RevenueDates(tables) |-> tables.revenue[d]]]

counts(tables) ==
    [raw_order_events |-> Cardinality(tables.raw),
     orders_current   |-> Cardinality(OrderRows(tables)),
     daily_revenue    |-> Cardinality(RevenueDates(tables))]

\* semantic_check for the keys and checksums that semantics.py declares.
semantic_check(data) ==
    LET revenue == data.daily_revenue
    IN  [key_sets  |-> [orders_current |-> {e.order_id : e \in data.orders_current},
                        daily_revenue  |-> DOMAIN revenue],
         checksums |->
            [amount_cents     |-> MapThenSumSet(LAMBDA e : e.amount_cents,
                                                data.orders_current),
             revenue_cents    |-> MapThenSumSet(LAMBDA d : revenue[d].revenue_cents,
                                                DOMAIN revenue),
             completed_orders |-> MapThenSumSet(LAMBDA d : revenue[d].completed_orders,
                                                DOMAIN revenue)],
         canonical_hash |-> data]

snapshot_semantics(tables) == semantic_check(snapshot(tables))

\* semantic_equal leaves the canonical hashes out.
same_semantics(left, right) ==
    LET l == snapshot_semantics(left)
        r == snapshot_semantics(right)
    IN  l.key_sets = r.key_sets /\ l.checksums = r.checksums

aggregate_grain_holds(tables) ==
    LET completed == {e \in OrderRows(tables) : e.status = "completed"}
    IN  /\ {DateOf(e) : e \in completed} = RevenueDates(tables)
        /\ \A d \in RevenueDates(tables) :
              LET rows == {e \in completed : DateOf(e) = d}
              IN  /\ tables.revenue[d].completed_orders = Cardinality(rows)
                  /\ tables.revenue[d].revenue_cents = Revenue(rows)

\* The tables that the queries make of these raw events.
TablesOf(events) ==
    LET current == [o \in Orders |-> Latest(events, o)]
    IN  [raw |-> events, current |-> current,
         revenue |-> [d \in Dates |-> Rollup(current, d)]]

\* The tables that one process() of the batch makes in a new database.
FullRefreshOf(batch) == TablesOf(Staged({}, batch))

\* The gates duplicates, volume_anomaly and idempotency.
ReplayGate(before, after) ==
    /\ counts(after) = counts(before)
    /\ snapshot_semantics(after) = snapshot_semantics(before)

\* The gate backfill: fresh is how many events were new.
BackfillGate(before, after, fresh) ==
    /\ snapshot_semantics(after) = snapshot_semantics(before)
    /\ counts(after).raw_order_events = counts(before).raw_order_events + fresh

-----------------------------------------------------------------------------
GateInit == Init /\ input = <<>>

GateNext ==
    \/ /\ \E batch \in Batches, r \in RunIds, f \in Failpoints :
             /\ Len(input) + Len(batch) <= MaxInput
             /\ Begin(batch, r, f)
       /\ UNCHANGED input
    \/ Stage /\ UNCHANGED input
    \/ Upsert /\ UNCHANGED input
    \/ Refresh /\ UNCHANGED input
    \/ Commit /\ input' = input \o job.batch
    \/ Raise /\ UNCHANGED input
    \/ RecordFailure /\ UNCHANGED input
    \/ Crash /\ UNCHANGED input

GateSpec == GateInit /\ [][GateNext]_gateVars

-----------------------------------------------------------------------------
(* Properties.                                                             *)

Ids(events) == {e.event_id : e \in events}

BatchEvents == {job.batch[i] : i \in DOMAIN job.batch}

\* Replaying events whose ids were ingested before, altered or not, in any
\* selection and order, leaves counts and output as they are.
ReplaysAreIdle ==
    [][Commit /\ Ids(BatchEvents) \subseteq Ids(db.raw) => ReplayGate(db, db')]_gateVars

\* Events older than the current ones of their orders are kept in raw history
\* and change no output.
BackfillsAreKept ==
    [][/\ Commit
       /\ \A e \in BatchEvents : /\ db.current[e.order_id] # None
                                 /\ Later(db.current[e.order_id], e)
       => BackfillGate(db, db', Cardinality(Ids(BatchEvents) \ Ids(db.raw)))]_gateVars

\* Over all dates the revenue is what the completed orders come to: an order
\* that moves to another date, or is cancelled, leaves nothing behind.
RevenueIsConserved ==
    LET sums      == snapshot_semantics(db).checksums
        completed == {e \in OrderRows(db) : e.status = "completed"}
    IN  /\ sums.revenue_cents = Revenue(completed)
        /\ sums.completed_orders = Cardinality(completed)

\* Whatever failed, crashed and was tried again in between, the output is that
\* of one full refresh of all the committed input: two attempts on one input
\* have one result hash.
OutputIsFullRefresh ==
    snapshot_semantics(db) = snapshot_semantics(FullRefreshOf(input))

\* Where no id came with two contents, the output is a function of the set of
\* committed events: how they were batched, in which order they arrived and
\* how often each was sent cannot be told from the tables.
ArrivalOrderIsIrrelevant ==
    LET events == {input[i] : i \in DOMAIN input}
    IN  (\A e, f \in events : e.event_id = f.event_id => e = f) =>
            /\ counts(db) = counts(TablesOf(events))
            /\ snapshot_semantics(db) = snapshot_semantics(TablesOf(events))
=============================================================================
