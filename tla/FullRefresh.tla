---------------------------- MODULE FullRefresh -----------------------------
(***************************************************************************)
(* What the pipeline promises: each batch is applied whole or not at all,  *)
(* and after each batch the tables are those a refresh from all the raw    *)
(* events would build.  Pipeline is shown to implement this specification. *)
(***************************************************************************)
EXTENDS OrderTables, Sequences

CONSTANT Batches   \* the batches that may be loaded

VARIABLES raw,       \* the events ingested
          current,   \* orders_current
          revenue,   \* daily_revenue
          runs       \* pipeline_runs

vars == <<raw, current, revenue, runs>>

Refreshed ==
    /\ current = [o \in Orders |-> Latest(raw, o)]
    /\ revenue = [d \in Dates |-> Rollup(current, d)]

Init ==
    /\ raw = {}
    /\ Refreshed
    /\ runs = [r \in RunIds |-> None]

Load(batch, r) ==
    /\ raw' = Staged(raw, batch)
    /\ Refreshed'
    /\ runs' = [runs EXCEPT ![r] = "completed"]

Fail(r) ==
    /\ runs' = [runs EXCEPT ![r] = "failed"]
    /\ UNCHANGED <<raw, current, revenue>>

Next == \E r \in RunIds : Fail(r) \/ \E batch \in Batches : Load(batch, r)

Spec == Init /\ [][Next]_vars
=============================================================================
