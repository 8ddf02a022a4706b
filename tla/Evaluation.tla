----------------------------- MODULE Evaluation -----------------------------
(***************************************************************************)
(* The part of run_benchmark that puts the pipeline to the test, on the    *)
(* fixtures of the repository: each batch that is processed and each gate  *)
(* that is recorded, in order, until an unexpected error or a kill ends    *)
(* it; it then starts again with a new database.                           *)
(*                                                                         *)
(* Times are half hours from 2026-01-01T00:00Z; an event that is ingested  *)
(* within the half hour of its own time is ingested at that time.          *)
(***************************************************************************)
EXTENDS OrderGates

VARIABLES
    step,       \* how many steps of Program are done
    before,     \* the committed tables before the last process()
    notes,      \* noop_fails_late and recovery_failed_cleanly, when computed
    gates,      \* what was recorded
    dead        \* an exception or a kill has ended the driver

evaluationVars ==
    <<db, txn, pc, job, old_dates, input, step, before, notes, gates, dead>>

-----------------------------------------------------------------------------
(* The fixtures.  Orders and events go by their numbers.                   *)

Event(id, o, time, ingest, status, amount) ==
    [event_id |-> id, order_id |-> o, event_time |-> time, ingest_time |-> ingest,
     status |-> status, amount_cents |-> amount]

e1  == Event(1, 1, 20, 20, "created", 1000)
e2  == Event(2, 1, 22, 22, "completed", 1000)
e3  == Event(3, 2, 66, 66, "completed", 2500)
e4  == Event(4, 3, 68, 68, "created", 500)
e5  == Event(5, 3, 72, 160, "completed", 500)
e6  == Event(6, 2, 16, 208, "created", 2500)
e7  == Event(7, 4, 124, 124, "completed", 750)
e9  == Event(9, 1, 18, 264, "cancelled", 1000)
e10 == Event(10, 5, 47, 47, "completed", 750)   \* 01:30 at +02:00

Fixtures == {e1, e2, e3, e4, e5, e6, e7, e9, e10}

base == <<e1, e2, e3, e4>>
late == <<e5>>
duplicates == <<e2, e3>>
backfill == <<e6>>
recovery == <<e7>>
ingest_trap == <<e9>>
timezone == <<e10>>

replay == base \o late \o duplicates \o backfill \o ingest_trap \o timezone

FixtureBatches ==
    {base, late, duplicates, backfill, recovery, ingest_trap, timezone, <<>>, replay}

PipelineRuns ==
    {"base", "empty", "duplicates", "late", "backfill", "ingest-trap", "timezone",
     "replay", "recovery-attempt"}

\* The pipeline is offered the fixtures, and perhaps others.
ASSUME EvaluationAssumption ==
    /\ Fixtures \subseteq Events
    /\ FixtureBatches \subseteq Batches
    /\ 1 .. 5 \subseteq Orders
    /\ PipelineRuns \subseteq RunIds
    /\ DayLength = 48

-----------------------------------------------------------------------------
(* The program.                                                            *)

Process(batch, run_id, failpoint) ==
    [op |-> "process", batch |-> batch, run_id |-> run_id, failpoint |-> failpoint]

Gate(name) == [op |-> "gate", name |-> name]

\* What the driver works out between two calls.
Compute(name) == [op |-> "note", name |-> name]

Program ==
    << Process(base, "base", "none"), Compute("noop_fails_late"),
       Process(<<>>, "empty", "none"), Gate("volume_anomaly"),
       Gate("poison_records"),
       Process(duplicates, "duplicates", "none"), Gate("duplicates"),
       Process(late, "late", "none"), Gate("late_data"), Gate("evaluator_sanity"),
       Gate("aggregate_grain"),
       Process(backfill, "backfill", "none"), Gate("backfill"),
       Process(ingest_trap, "ingest-trap", "none"), Gate("event_time_contract"),
       Process(timezone, "timezone", "none"), Gate("timezone"),
       Process(replay, "replay", "none"), Gate("idempotency"), Gate("key_stability"),
       Process(recovery, "recovery-attempt", "after_stage"),
       Compute("recovery_failed_cleanly"),
       Process(recovery, "recovery-attempt", "none"), Gate("recovery"),
       Gate("incremental_full_equivalence"), Gate("semantic_equality") >>

late_data_holds ==
    /\ db.current[3] # None /\ db.current[3].status = "completed"
    /\ db.revenue[1] = [completed_orders |-> 2, revenue_cents |-> 3000]

event_time_holds == db.current[1] = e2

timezone_holds ==
    /\ db.current[5] # None /\ db.current[5].event_time = 47
    /\ db.revenue[1] # None
    /\ db.revenue[0] # None /\ db.revenue[0].revenue_cents = 1750

EquivalentToFullRefresh == same_semantics(db, FullRefreshOf(replay \o recovery))

\* The poison file is refused when it is read, before anything is processed.
Holds(name) ==
    CASE name \in {"volume_anomaly", "poison_records"} ->
            snapshot_semantics(db) = snapshot_semantics(before)
      [] name \in {"duplicates", "idempotency"} -> ReplayGate(before, db)
      [] name = "late_data" -> late_data_holds
      [] name = "evaluator_sanity" -> "noop_fails_late" \in notes /\ late_data_holds
      [] name = "aggregate_grain" -> aggregate_grain_holds(db)
      [] name = "backfill" -> db.current[2] = e3 /\ BackfillGate(before, db, 1)
      [] name = "event_time_contract" -> event_time_holds
      [] name = "timezone" -> timezone_holds
      [] name = "key_stability" ->
            snapshot_semantics(db).key_sets = snapshot_semantics(before).key_sets
      [] name = "recovery" ->
            /\ "recovery_failed_cleanly" \in notes
            /\ db.current[4] # None /\ db.current[4].status = "completed"
            /\ db.runs["recovery-attempt"] = "completed"
      [] name = "incremental_full_equivalence" -> EquivalentToFullRefresh
      [] name = "semantic_equality" -> EquivalentToFullRefresh /\ aggregate_grain_holds(db)

\* Whether a note is made.
Noted(name) ==
    CASE name = "noop_fails_late" -> ~late_data_holds
      [] name = "recovery_failed_cleanly" ->
            /\ snapshot_semantics(db) = snapshot_semantics(before)
            /\ db.runs["recovery-attempt"] = "failed"

-----------------------------------------------------------------------------
Here == Program[step + 1]

\* The driver is between two calls and at a step of this kind.
At(op) == ~dead /\ pc = "idle" /\ step < Len(Program) /\ Here.op = op

EvaluationInit ==
    /\ GateInit
    /\ step = 0
    /\ before = db
    /\ notes = {}
    /\ gates = [g \in {} |-> TRUE]
    /\ dead = FALSE

CallProcess ==
    /\ At("process")
    /\ Begin(Here.batch, Here.run_id, Here.failpoint)
    /\ before' = db
    /\ UNCHANGED <<input, step, notes, gates, dead>>

\* process() goes on.
Inside ==
    /\ Stage \/ Upsert \/ Refresh
    /\ UNCHANGED <<input, step, before, notes, gates, dead>>

Returns ==
    /\ Commit
    /\ input' = input \o job.batch
    /\ step' = step + 1
    /\ UNCHANGED <<before, notes, gates, dead>>

\* The driver expects the exception of the failpoint and no other.
RaiseInside ==
    /\ Raise
    /\ dead' = ~(pc = "staged" /\ job.failpoint = "after_stage")
    /\ UNCHANGED <<input, step, before, notes, gates>>

Raises ==
    /\ RecordFailure
    /\ step' = IF dead THEN step ELSE step + 1
    /\ UNCHANGED <<input, before, notes, gates, dead>>

RecordGate ==
    /\ At("gate")
    /\ gates' = [g \in DOMAIN gates \cup {Here.name} |->
                    IF g = Here.name THEN Holds(g) ELSE gates[g]]
    /\ step' = step + 1
    /\ UNCHANGED <<vars, input, before, notes, dead>>

Note ==
    /\ At("note")
    /\ notes' = IF Noted(Here.name) THEN notes \cup {Here.name} ELSE notes
    /\ step' = step + 1
    /\ UNCHANGED <<vars, input, before, gates, dead>>

Kill ==
    /\ ~dead \/ pc # "idle"
    /\ dead' = TRUE
    /\ txn' = None /\ pc' = "idle" /\ job' = None /\ old_dates' = {}
    /\ UNCHANGED <<db, input, step, before, notes, gates>>

\* The database file of an earlier run is removed before the pipeline is made.
Restart ==
    /\ pc = "idle"
    /\ dead \/ step = Len(Program)
    /\ db' = [raw |-> {}, current |-> [o \in Orders |-> None],
              revenue |-> [d \in Dates |-> None], runs |-> [r \in RunIds |-> None]]
    /\ txn' = None /\ pc' = "idle" /\ job' = None /\ old_dates' = {}
    /\ input' = <<>> /\ step' = 0 /\ before' = db' /\ notes' = {}
    /\ gates' = [g \in {} |-> TRUE]
    /\ dead' = FALSE

EvaluationNext ==
    \/ CallProcess \/ Inside \/ Returns \/ RaiseInside \/ Raises
    \/ RecordGate \/ Note \/ Kill \/ Restart

EvaluationSpec == EvaluationInit /\ [][EvaluationNext]_evaluationVars

-----------------------------------------------------------------------------
\* No gate of the evaluation fails on the pipeline as it is, however often the
\* benchmark was killed before and started again in the same folder.
EveryGateHolds == \A g \in DOMAIN gates : gates[g]
=============================================================================
