---------------------------- MODULE OrderTables -----------------------------
(***************************************************************************)
(* The tables of the order pipeline, as functions of the raw events: what  *)
(* a query of pipeline.py returns is an operator here.                     *)
(*                                                                         *)
(* An event is immutable.  Its times are instants in UTC, counted from a   *)
(* midnight, so that the date of an instant is a quotient.  Events are     *)
(* ordered by their ids as the database orders the id strings.             *)
(***************************************************************************)
EXTENDS Integers, FiniteSets, FiniteSetsExt

CONSTANTS
    Events,      \* the events that may ever be ingested
    Orders,      \* order identifiers
    RunIds,      \* identifiers of pipeline runs
    DayLength,   \* ticks in a day
    BigInt,      \* the largest value of a BIGINT column
    None         \* no row

Statuses == {"created", "completed", "cancelled"}

\* OrderEvent refuses other statuses and negative amounts.
ASSUME EventAssumption ==
    \A e \in Events :
        /\ e.event_id \in Nat /\ e.order_id \in Orders
        /\ e.event_time \in Int /\ e.ingest_time \in Int
        /\ e.status \in Statuses /\ e.amount_cents \in Nat

ASSUME TableAssumption ==
    /\ DayLength \in Nat \ {0}
    /\ BigInt \in Nat
    /\ None \notin Events
    /\ None \notin {"running", "completed", "failed"}

DateOf(e) == e.event_time \div DayLength

Dates == {DateOf(e) : e \in Events}

\* Mutation: ON CONFLICT (event_id) DO UPDATE, so a known event is replaced.
StagedReplacing(raw, batch) ==
    LET ids == {batch[i].event_id : i \in DOMAIN batch}
    IN  {e \in raw : e.event_id \notin ids}
            \cup {batch[i] : i \in {j \in DOMAIN batch :
                    \A k \in DOMAIN batch : k > j => batch[k].event_id # batch[j].event_id}}

\* raw_order_events after a batch: ON CONFLICT (event_id) DO NOTHING keeps the
\* row that came first, in the table or in the batch.
Staged(raw, batch) ==
    raw \cup {batch[i] : i \in
                 {j \in DOMAIN batch :
                    /\ \A e \in raw : e.event_id # batch[j].event_id
                    /\ \A k \in DOMAIN batch :
                          k < j => batch[k].event_id # batch[j].event_id}}

\* ORDER BY event_time DESC, ingest_time DESC, event_id DESC
Later(e, f) ==
    \/ e.event_time > f.event_time
    \/ /\ e.event_time = f.event_time
       /\ \/ e.ingest_time > f.ingest_time
          \/ e.ingest_time = f.ingest_time /\ e.event_id > f.event_id

OfOrder(raw, o) == {e \in raw : e.order_id = o}

\* The row of orders_current for order o.
Latest(raw, o) ==
    IF OfOrder(raw, o) = {} THEN None
    ELSE CHOOSE e \in OfOrder(raw, o) :
            \A f \in OfOrder(raw, o) \ {e} : Later(e, f)

\* The rows of orders_current that count on date d.
CompletedOn(current, d) ==
    {e \in {current[o] : o \in Orders} \ {None} :
        e.status = "completed" /\ DateOf(e) = d}

Revenue(rows) == MapThenSumSet(LAMBDA e : e.amount_cents, rows)

\* The row of daily_revenue for date d; GROUP BY makes none of no rows.
Rollup(current, d) ==
    LET rows == CompletedOn(current, d)
    IN  IF rows = {} THEN None
        ELSE [completed_orders |-> Cardinality(rows), revenue_cents |-> Revenue(rows)]
=============================================================================
