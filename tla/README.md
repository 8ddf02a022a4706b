# A verification project for the frontier data-engineering toolkit

TLA+ models of the parts of this repository that keep state other parts rely
on: the run ledger (`src/frontier_control_plane`), the incremental order pipeline
of the practice task with its evaluator and benchmark
(`practice/incremental-order-etl`), and the installer of the skill links
(`scripts`). Detailed specifications are translated from the code, abstract ones
state what the components promise, TLC checks small instances and TLAPS proves
theorems for all of them. Paths below are relative to the repository root
(`src/` in PROJECT.json).

    tlc -workers 2 -config lifecycle.cfg MCControlPlane.tla
    tlapm ControlPlaneProofs.tla

## 1. Inventory

| Component | State | Operations | Hard part |
|---|---|---|---|
| Run lifecycle and evidence ledger, `control_plane.py`, `models.py` | per run: contract (identity, required gates and artifacts), owner, gates, receipts, outcome, result hash, measurements, risks, status, approver; one event list | `register`, `claim`, `record_gate`, `record_artifact`, `set_result_hash`, `record_outcome`, `record_measurement`, `record_residual_risk`, `verify`, `approve`, `submit` | any caller may call any operation at any time; files change behind the receipts; `record_artifact` reads the file before it takes the lock; an attempt and its retry |
| Atomic JSON store, `store.py` | the ledger file, its lock file, temporary files | `load`, `update(mutate)` | processes racing, failing and dying at every system call; power loss; unreadable files; no `fcntl` on Windows |
| Incremental order pipeline, `pipeline.py` | four DuckDB tables | `process(batch, run_id, failpoint)`, queries | late, duplicate and altered events, orders that change date, errors and crashes in the middle of a batch, overflow |
| Run comparison, `ControlPlane.compare` | a snapshot of the ledger, then the files | `compare` | the ledger moves on after the snapshot, the files before and after |
| Artifact re-hashing, `record_artifact`, `_artifact_issues`, `sha256_file` | receipts; an open file and how much of it was read | look up, measure, open, read chunk by chunk | files written in place, removed or replaced between any two of these, accesses that raise; no instant at which all of them need have matched |
| Serialisation, `models.py` | the dictionaries in the ledger's file | `to_dict`, `from_dict` | records of older versions beside new ones: missing keys, gates without a status, no requirements hash |
| Hashing, `hashing.py` | none | canonical digests, `semantic_check`, `semantic_equal` | `semantic_equal` compares keys and sums only |
| Semantic checks, `semantics.py`, and the gates of `benchmark.py` | the tables before the last batch, notes, gates | the gates on replays, backfills, recovery and full refresh | what they ask is tried on one set of fixtures only |
| Benchmark driver, `benchmark.py`, the practice `compare.py` and `run_clean_benchmark.sh` | its progress through two clean attempts; the comparison file; the worktrees it leaves | a sequential client of ledger and pipeline | crash and rerun under the same run ids, over what the crash left of ledger and worktrees; `HEAD` and files that change meanwhile |
| Skill link installer, `install_skill_links.py` | three symbolic links | look, unlink, link, verify, for each harness | killed in between and run again, other programs at the same paths, links to nowhere |
| Command line, `cli.py` | none | one `ControlPlane` method per command | - |
| Skill text, fixtures, tests | none | - | read as statements of intent |

How they interact. `ControlPlane` keeps nothing in memory: every method is one
`AtomicJsonStore.update(mutate)`, that is, lock, read, change, replace, unlock;
`mutate` re-hashes the artifact files while the lock is held. Receipts refer to
files nobody locks. The command line and the benchmark call `ControlPlane`; the
benchmark also calls `Pipeline`, which only talks to DuckDB.

What makes each correct, in short: a ledger update is never lost, half applied
or half visible; nothing is approved or submitted on incomplete, failed or stale
evidence, whatever the order of calls; a retried attempt never counts; the event
list tells the truth; the incremental tables equal those of a full refresh, whatever
is replayed; a verdict on files nobody touched is true; a record is read back as
it was written; a link that is reported is there.
PROJECT.json lists the hazards one by one, at the line where they bite, each
with the properties that would catch it.

## 2. Modules

    ApprovalLedger  <--implements--  ControlPlane   <-- MCControlPlane (TLC)
                                                    <-- ControlPlaneProofs (TLAPS)
    AtomicLedger    <--implements--  JsonStore      <-- MCJsonStore, JsonStoreProofs
    FullRefresh     <--implements--  Pipeline
         \____ OrderTables ____/        ^
                                     OrderGates     <-- MCOrderGates, PipelineProofs
                                        ^
                                     Evaluation     <-- EvaluationProofs

    ControlPlane <-- Comparison <-- Comparing        <-- MCComparing
                                <-- SerializedLedger <-- MCSerializedLedger
                                <== Benchmark        <-- MCBenchmark, BenchmarkProofs
    ArtifactAudit <-- MCArtifactAudit, ArtifactAuditProofs
    SkillLinks    <-- SkillLinksProofs

An arrow `<--` is EXTENDS, `<==` is INSTANCE. `ComparisonProofs` extends `Comparing`,
`SerializedLedger` and `ControlPlaneProofs`; `EvaluationProofs` extends also
`PipelineProofs`; `BenchmarkProofs` also instantiates `ControlPlaneProofs`, for the
ledger the driver writes to.

`JsonStore` justifies `ControlPlane`: because the store implements
`AtomicLedger`, where an update takes effect at one instant on all the updates
before it, `ControlPlane` may take a handler to be one atomic action. In the same
way `ArtifactAudit` opens up the one instant in which `ControlPlane` looks at
files, and `SerializedLedger` the record that `ControlPlane` takes for granted.

### ControlPlane

`runs[r]` is the ledger's record of run `r`, or `None`; `trail[r]` the last
`TrailLen` events of the run; `files[p]` what is at path `p`; `pending[w]` the
receipt process `w` has computed in `record_artifact` and not stored yet.
There is one action per method. `Register` is `register` with
`_validate_retry` (`RetryAllowed`) and `_validate_requirements_migration`
(`MigrationAllowed`); the `record_*` methods share `Amend` (`_ensure_mutable`,
then the new evidence, then status running, then the event); `Approve` and
`Submit` judge the run again (`Passes`, the clauses of `_verification_for`) and,
if it no longer passes, store that verdict (`Verdict`, `_record_verification`)
before they raise. `record_artifact` is two actions, `HashArtifact` before the
lock and `StoreReceipt` under it. `EditFile` is the environment: any file may be
written or removed at any time.

Data left out: a digest is the content it was taken from (SHA-256 does not
collide); starting commit, dataset hash and environment hash are one field
`base`, as they are only compared together; times, texts, and inputs that the
dataclass constructors refuse. Handlers that only raise, or that return a record
without changing it (`register` of a known run, `verify` of a sealed one), are
stuttering steps.

`ApprovalLedger` is the promise: a run carries a packet, open packets are
revised freely, only an acceptable packet is approved, an approved packet is
submitted as it stands or sent back, a submitted or superseded run never changes
again. The mapping takes contract and evidence as the packet and computes the
phase from the status and from whether the run has a retry.

### JsonStore

`update()` cut at every call whose effect another process, a crash or a power
failure can tell apart: `Call`, `Lock`, `Read`, `Mutate` or `MutateRaises`,
`WriteTmp`, `Fsync`, `Replace`, then `Return`, or after an error (`WriteFails`)
`Raise`. The content of the file is the sequence of updates made to it. A missing
file is the empty ledger, as `_read_unlocked` makes it. `Crash` kills a process
anywhere: the kernel drops the lock, nobody hears what became of the update.
`survivors` is the set of versions the path may name after a power failure: a
rename is durable only when the directory has been written (`Writeback`), and a
version that was never synced may come back cut short (`Torn`). `acked` and
`refused` are the updates whose call returned and raised. Three constants choose
the environment: `Flock` (is `fcntl` there), `ReadErrors` (may reading raise
`OSError`), `PowerFails`. `load()` takes the same lock, changes nothing and is
covered by what can be in the file.

`AtomicLedger` is the promise: updates are applied one at a time; what was
acknowledged stays; what was refused never is in the ledger.

### Pipeline

`OrderTables` gives each query of `process()` as an operator on sets of events:
`Staged` (`ON CONFLICT DO NOTHING`), `Latest` (the window function), `Rollup`
(the `GROUP BY`). `Pipeline` runs `process()` statement by statement on a copy
of the database, `txn`, that `Commit` installs and `Raise` or `Crash` drops:
`Begin` (the run row and the dates the orders are on), `Stage`, `Upsert`,
`Refresh`, `Commit`, and `RecordFailure`, which is the insert outside the
transaction that follows the rollback. Amounts and sums that do not fit a
`BIGINT` are errors of their statement. There is one `process()` at a time: one
process may open a DuckDB file for writing, the repository starts no thread, and
its README says isolation gates do not apply to this batch contract. DuckDB's
transactions are trusted to be atomic.

`FullRefresh` is the promise: a batch is applied whole, and the tables are then
those a refresh from all raw events would build; or it fails and only the run
row changes.

### ArtifactAudit

Recording a receipt and auditing receipts, cut at every access to a file:
`StartRecording` (`is_file`, open), `ReadChunk`, `FinishHash`, `StatRecorded`,
`StoreReceipt` under the lock; `BeginAudit` (the record is loaded), and for each
receipt `StatAudited`, `OpenAudited`, `ReadChunk`, `FinishAuditHash`, then
`Conclude`. `verify`, `approve` and `submit` hold the ledger's lock from
`BeginAudit` to `Conclude`, so no receipt is stored meanwhile (`Locked`);
`compare` holds none. Writers do what programs do to files: `Swap` (remove, or
rename another file onto the path; who has the old one open goes on reading it),
and, of the files in `InPlace`, `Truncate` and `AppendChunk`. Any access may raise
an `OSError` for a reason of its own (a permission, an exhausted descriptor table,
an I/O error): `RecordingRaises` ends a recording without a receipt, `AuditRaises`
makes the artifact stale although nobody touched its file, as the `except OSError`
of `_artifact_issues` does. `touched`, `witnessed` and `unread` are history
variables: which files were written since an operation began, which receipts were
true at some instant of an audit, and which artifacts of it could not be read.
Evidence other than receipts is left out; `ControlPlane` has it. To `ControlPlane`,
where the look at the files is one instant, a file that cannot be read is one that
is removed and put back.

### Comparison and Comparing

`Comparison` adds to `ControlPlane` the verdict of `compare` on a set of records:
the contracts agree but for candidate and attempt (`Comparable`; a legacy record
is comparable with nothing), every record passes when judged again, the declared
result hashes are one. `Comparing` runs it beside the other handlers: `Load` takes
the records in one `store.load()`, `Judge` judges them later against the files.
Groups that fail on their records alone are not loaded: they change nothing.

### SerializedLedger

`stored` is the dictionary of run ids in the ledger's file and `runs` what it reads
as (`View`, through `FromDict`). Each handler of `ControlPlane` puts the records it
changed back through `ToDict` and leaves the rest of the file alone. Initially any
runs may be there as older versions wrote them (`LegacyRecords`): gates with
`passed` and no `status`, no required artifacts, no requirements hash, no metadata.
Legacy records may name a worker and a result hash that no handler of the run
uses: `Owners` and `ResultHashes` are what is used from now on.

### OrderGates and Evaluation

`OrderGates` reads the pipeline's tables as the evaluator does: `snapshot`,
`counts`, `semantic_check`, `same_semantics` (`semantic_equal`), and the gates
`ReplayGate` and `BackfillGate`, stated of any batch on any history. `input` is
the history of committed batches. `Evaluation` is `run_benchmark` from the first
batch to the last semantic gate on the repository's own fixtures: `Program` lists
the batches and gates in the order of the code, `CallProcess`, `Inside`, `Returns`,
`RaiseInside` and `Raises` run the pipeline below it, and `Kill` and `Restart`
break it off and begin again in the same folder. The fixtures are the events of
`practice/incremental-order-etl`, with times in half hours; the event in another
time zone becomes the instant it denotes. `EvaluationAssumption` says that these
events, batches, orders and run ids are among those of the pipeline below.

### Benchmark

A client of the ledger: it instantiates `Comparison` and its actions conjoin the
ledger's. `Program` lists the calls of `run_benchmark` in order, `pc` is the next
one and `phase` the place in the script around it: `Prune`, `RemoveLedger` and
`RemoveComparison` (the two unlinks of one `rm`), then for each attempt
`RemoveWorktree` if there is a directory, `AddWorktree` and `Program`, then `Compare`
and `Write` (opening the output empties it, so `comparison` may be `"torn"`).
`worktrees` is what each attempt's worktree is to git, and survives the script: it
is `"present"` after every experiment, finished or killed. A `Crash` inside
`git worktree remove` or `add` may leave it in any state: registered without a
directory (`"missing"`, which `Prune` clears), or `"broken"` (a directory that is
not registered, a lock), which the next git may remove or not. `GitRefuses` is git
exiting with an error, which ends the script. A call that the ledger refuses is `Raise`, and a
judgement that does not pass ends the script (`set -e`), `Judged`. What `pytest`,
`git status` and the pipeline answer is the outcome of the gate that is recorded:
`GateHolds` or `GateFails`. From outside come `Crash` anywhere, `MoveHead` to
another commit, perhaps with other requirements, and `TouchFile`. `swapped` is a
history variable: the attempts whose result file another program changed between
the write of `benchmark.py` and the read of `record_artifact`. One script runs
at a time; the gates after `skill_cli` are a parameter, as they differ only in
name. `run-record.json` is written and never read, and is left out.

### SkillLinks

`main()` of the installer, one action per call: `Start` (the source check), `Look`
(`mkdir`, `is_symlink`, `exists`), `Unlink`, `Link`, `Verify`, and `Kill` between
any two. `at[h]` is what is at the destination of harness `h`, from nothing to a
directory or a parent that cannot be made. `Change` and `MoveSource` are other
programs; `disturbed` and `touched` remember that they acted.

## 3. Runs

| Run | Question | Bounds, and why they are enough |
|---|---|---|
| `lifecycle` | `TypeOK`, `EvidenceComplete`, `AuditTrail` | one run, one required gate recorded as passing, skipped or not applicable, two outcomes, a file that comes and goes, one late receipt, the last four events. The properties are about one run: evidence is completed, disturbed by each handler and judged again; the longest pattern in the log is four events. 3.3 million states. |
| `retries` | `RetriedNotAccepted`, `NeverBothCount`, `FrozenEvidence`, `ImplementsApprovalLedger` | two runs, so that one may be the retry of the other, each through the whole lifecycle, with a late receipt, and compared at any time. Gates are left out here; `lifecycle` has them. |
| `serialized` | `RetryLineage`, `MigrationsNoted`, `ReadsBack`, `LegacyStandsAlone`, `AcceptedOnFile` | three runs, each new or left by an older version with a gate that passed, failed or is missing: two retries of one parent, a chain of retries, and two requirements of a task met in any order all need at most three. Three attempts at one contract, so that in a chain each attempt is later than the one before and only the rule against retrying a retry refuses it; a fourth contract has another base and other requirements. That another base alone refuses a retry is left to `RetriesArePairs`. 690 thousand states. |
| `store` | `TypeOK`, `AckedSurvive`, `ImplementsAtomicLedger`, `EveryUpdateEnds` | two processes, two updates each: a lost update takes two processes, and the second update of one shows that what it left behind does no harm. |
| `store_power` | `NeverTorn`, `PowerLosesSuffix` | the same with power failures |
| `store_read_error` | `AckedSurvive`, violated | as `store`, and reads may fail (section 6) |
| `audit_in_place` | `TypeOK`, `QuietReceiptIsTrue`, `SubmissionIsJudged` | one artifact, approved and submitted; its file has up to two chunks of two kinds, so it may be read half before and half after a write, may change without changing its size, and its receipt may have the hash of one content and the size of another; any access may fail. 2.2 million states. |
| `audit_two_files` | `PassWasWitnessed`, `QuietVerdictIsTrue` | two artifacts, one of them required, each with its file, which is removed, or replaced whole by one of the same size; any access may fail. Two are what it takes for one file to change while the other is audited, and for a pass to have no instant at which all files matched. Files written in place are in the theorems, which hold of any mixture. 1.8 million states. |
| `pipeline` | `TypeOK`, `CurrentIsLatest`, `RevenueIsRollup`, `RunningIsPrivate`, `ImplementsFullRefresh`, `OutputIsFullRefresh`, `RevenueIsConserved`, `ArrivalOrderIsIrrelevant`, `ReplaysAreIdle`, `BackfillsAreKept` | two orders, two days, seven events (a late one, a duplicate id with another payload, ties in time, a cancellation, an amount that does not fit), batches of at most two events, in every order, `MaxInput` = 5 committed events in all: a base, a change of it, and a batch that replays or backfills both. Any two of these histories with the same events are an instance of `ArrivalOrderIsIrrelevant`. |
| `evaluation` | `EveryGateHolds` | the fixtures of the repository and the benchmark's own sequence; the bound on amounts and input is never reached. Killed anywhere, without limit. |
| `benchmark` | `TypeOK`, `ComparisonStandsOnLedger`, `ExperimentEnds` | two attempts, as in the script; three commits, with and without a change of requirements; two snapshots; two gates after `skill_cli`, one not applicable; two faults of any kind (a kill, a failing gate, a moved `HEAD`, an edited file), so that one experiment may be broken off twice or broken off and then find its files changed. A result file may be changed before it is hashed, after, or while its receipt is in hand, so `ComparisonStandsOnLedger` meets receipts that are not of the declared result. Two kills inside git leave both worktrees missing or broken. Experiments follow one another without limit. |
| `skill_links` | `LinkedMeansLinked`, `UndisturbedRunSucceeds`, `RemovesLinksOnly` | the whole system: it has no parameters |

Deadlock is checked in every run. Symmetry is used over runs, processes and
chunks in runs without liveness properties; the modules choose no element of
those sets. The platform without `fcntl` has no run: `store.py:14` promises
only atomic replacement there, and `FileIsWhole` (section 4) proves that much
with and without a lock.

What the `evaluation` run does not say matters too. It also holds of a pipeline
that forgets the dates an order leaves, that keeps half of a failed batch, or
that lets a replay overwrite raw history: the fixtures do not tell these from
the code. `RevenueIsRollup`, `ImplementsFullRefresh` and `ReplaysAreIdle` in the
`pipeline` run do.

Every property has a mutant in PROJECT.json: a plausible bug in a definition
(a check dropped, a lock not awaited, a status kept, dates forgotten) that makes
TLC refute the property in the same run. The mutated forms stand in the modules
just before the definitions they change, under a comment that begins "Mutation".

Fairness. Two runs assume any. `benchmark` assumes weak fairness of `Step`, what
the script and its driver do on their own: a sequential program that was started
goes on. Nobody has to start it, and no fault has to happen; the property asks
for the end of an experiment that starts when the budget of faults (`MaxFaults`)
is spent and no killed git has left a worktree `"broken"`: with one, the script may
stop at git until somebody removes it by hand, and the model lets it. `store` assumes weak fairness of `Step(p)`, the
steps of a process inside `update()`. The code has no wait in it but `flock`,
so a live process that can go on does; a process that dies is `Crash`, which is
never forced. A waiting process is given the lock only if it stays free
(weak fairness): the finite number of calls is what lets it stay free in the
end. With callers that never pause `flock` promises no order, and starvation is
possible; that is outside the claim.

## 4. Proofs

The proof modules hold for every value of the constants that satisfies the
named assumptions of the component modules: finite or infinite sets of runs,
processes, files, commits and events, any list of gates, and any value of the
bounds `TrailLen`, `MaxUpdates`, `MaxChunks`, `MaxInput` and `MaxFaults`. No proof
is about a bounded part of a state space: the runs of section 3 are where the
formulas were tried first.

**ControlPlaneProofs.** `TypeCorrect` first. Then one inductive invariant made of
the parts that need each other: acceptance implies complete evidence
(`AcceptedIsComplete`); retries come in pairs whose parent keeps a retryable
outcome (`RetriesArePairs`); from these a retried run is never accepted
(`RetriedNeverAccepted`), although `verify`, which skips `_ensure_mutable`, still
runs on it: its outcome is not `solved` and can no longer be rewritten.
`MigrationsAreNoted` rests on registration alone. `EvidenceIsFrozen` is the
action property and `Refinement` the implementation of `ApprovalLedger`: each
handler enters, revises or judges one run, and each kind of step maps to an
abstract step or a stutter.

Of the event list, `TrailIsTrue` needs no invariant beside the type, but it needs
to know how a log ends once its oldest events were dropped: what is logged is what
the log ends with, after what it ended with before (`LogEnds`, from `ConcatEnds`
and `RecentEnds`). It assumes `TrailLen >= 4`, as the longest pattern has four events.
Each handler logs the events that explain the status it leaves (`OpenLogs`,
`ApproveLogs`, `SubmitLogs`); between an approval and the submission nothing is
logged of the run, as whatever is logged takes its approval away. What clients of
the ledger need is stated as lemmas about one step: `NextPreserves` (any step keeps
the invariant), `NextFreezes` (any step keeps the records that are final).

**ComparisonProofs**, of `Comparing`. `NeverBoth`: an attempt and its retry never count in one passed
comparison, although either may have been complete when it was loaded. When the
records are taken, `RetryLineage` says that the parent of a retry has a retryable
outcome, so it is not complete and the group fails; afterwards lineage is fixed,
whatever becomes of the ledger (`UnrelatedStays`).

**ComparisonProofs**, of `SerializedLedger`. `RoundTrip` is the lemma about the data: `FromDict(ToDict(rec))
= rec` for every record of the right shape. `StepKinds` says what any handler does
to a record: it leaves it, enters it, or keeps its contract and lineage and
accepts it only when complete; in each case the new record has that shape. From
these `PutsReadBack`; then `AcceptedOnWrittenGates` (what was complete in memory was
complete in the file it was read from) and `LegacyRunsStandAlone` (a new run has
requirements, so it is no attempt at a legacy contract). The proofs take of
legacy records only `LegacyAssumption`: known gates, no retries, no requirements.

**JsonStoreProofs.** `TypeInv` adds to the type that a writing process has a
temporary file and a process inside `update()` has a call; `StoreTypeCorrect`
holds in every environment. `SyncedFirst` (what is named, or about to be, was
synced) gives `FileIsWhole`, also in every environment: with or without lock,
read errors and power failures. Atomicity is proved under `Friendly`: the lock
exists, reads do not fail, power stays on; each is needed, as the runs above
show. The invariant `Inv` says only the holder of the lock is inside
(`Exclusive`), its copy is the file's content (`CopyIsFresh`), an update is in
the file only if its call is over or has replaced the file (`LogIsPast`), and
the outcomes told to callers are true (`OutcomesAreTrue`). One lemma, `LocalStep`,
covers every step that leaves the file's content alone; `ReplaceAppends` covers
the other. `AckedUpdatesSurvive` and `StoreIsAtomic` follow.
`PowerTakesTheEnd` allows power failures (`Legible` asks only for the lock and
readable files): any version that may be on the disk starts what every later one
continues, because with the lock each update extends the version it replaces.

**PipelineProofs.** The invariant `Inv` relates the open transaction to the
committed tables after each statement. Two lemmas carry it: staging a batch
changes the latest event only of orders in the batch (`StagingIsLocal`), and a
date that no order of the batch was on before or is on after keeps its rollup
(`RollupIsLocal`). They give `CurrentCorrect`, `RevenueCorrect`, `RunsArePrivate`
and `IncrementalIsFull`.

Two more things need that the latest event of an order is one of its events: that
a row of `orders_current` is an event, and that a stale event changes nothing.
That takes a maximum of a finite set, for which there is no induction here:
`LatestExists` takes a smallest subset without one instead, by the
well-foundedness of strict inclusion between finite sets, and adds an event to a
smaller one. `StagedIsWellFormed` gives its hypotheses: the raw events are finitely
many and no two have one id, whatever a batch repeats. From these
`PipelineTypeCorrect`; that a revenue row is a pair of numbers in range is what the
statement checks before it stores one (`Fits`).

For `OrderGates` the invariant adds that the raw events are the committed input,
staged at once (`RawIsInput`, from `StagedTwice`: two batches in turn store what
their concatenation stores). Then `ReplaysIdle` (a replay stages nothing),
`BackfillsKept` (a stale event changes no latest one) and `OutputCorrect`. Where every
id came with one content, staging stores just the set of events (`StagedWhole`), and
`ArrivalOrderForgotten` follows: the output does not depend on how that set was
batched, ordered or repeated.

`RevenueConserved` is the one theorem that opens the sums. `MapThenSumSet` is a
recursive function on the subsets of a set and adds the terms in the order `CHOOSE`
gives them. That such a function exists (`AddsExists`), that only one does
(`AddsOnce`), that any term may be taken first (`TotalWithout`), and that a sum may
be taken group by group (`TotalByGroup`) are again shown by a smallest subset for
which they fail (`Smallest`). `RollupsAddUp` then groups the completed orders by their
dates. It needs that `None` is not the row of a date, whatever the sum comes to,
which is why `JobAssumption` says so of all such records and not of those that fit.

**EvaluationProofs.** `GatesNeverFail`: no gate of the evaluator fails on a sound
pipeline, wherever it is killed and however often it begins again. The tables are a
function of the raw events (`Inv` of the pipeline), and which raw events are
committed is known from the number of steps done (`RawAt`), whatever earlier
attempts in the folder left, because a new attempt empties it. `EvaluationInv` says
so of an idle driver (`Position`) and of one inside a call (`Calling`), and what it
kept from before the last batch (`BeforeKnown`). A call can only fail at the step
that injects a failure: the sums of the fixtures fit. So each gate becomes a
statement about a known set of events, worked out by rows and dates (`RowsAt`,
`CurrentAt`, `RevenueAt`) from the fields of the fixtures, and, for the gates that
ask about a change, about two such sets (`SameRawSameOutput`, `BackfillAt`). What
`EvaluationAssumption` asks of the constants is all it takes: there may be any
other events, orders and run ids beside the evaluator's.

**ArtifactAuditProofs.** `Inv` says that what a reader has of a file nobody touched is
a prefix of that file (`RecordingFaithful`, `AuditFaithful`), which gives
`VerdictOnQuietFilesIsTrue` and `ReceiptOfQuietFileIsTrue`: such a file is stale if
and only if its receipt does not describe it or an access to it failed. Where a file
is replaced whole, a handle shows one version of it to the end
(`HandleSeesOneFile`), so each artifact of a passed audit matched at some instant of
it (`PassesAreWitnessed`); no single instant need exist for all. `ApprovalInv` says
that the receipts of an approved run describe their files until one is written,
which gives one half of `SubmissionsAreJudged`: a submission that fails had a file
written since its approval, or one it could not read. The other half is that of a
submission that passes: every receipt describes its file, unless the file was written
during that very audit, also where the receipt took its hash and its size of two
different contents, or the file was changed after the approval.

**BenchmarkProofs.** The driver has no ledger of its own, so the proof has none
either: `L` is `ControlPlaneProofs` with the substitutions `Benchmark` makes for its
ledger, its three assumptions are proved (`LedgerAssumptions`), and every step of
the driver is shown to be a step or a stutter of that ledger (`LedgerStep`), but for
`rm` and the kill that drops a receipt in hand. So the ledger's invariant holds
between any two calls, and a submitted run never changes (`SubmittedStays`). What is
left to say is where the driver can be (`DriverInv`): the old comparison is gone
before the first attempt starts, whatever git makes of the worktrees; the second attempt runs only after the first was
submitted, and `compare` only after both; when its verdict is `passed` the two
records agree. `ProgramShape` and `ProgramPlaces` read off the program, for any number
of gates, that the result is written, read, stored as a receipt and declared in this
order, and that nothing between there and `submit` stores another. `ResultInv`
follows one snapshot along it: from the driver's memory to the file, to the receipt
in hand, to the record, to the declared hash, after which the two are `Tied`; a
submitted run stays tied because it never changes. Each link breaks only by
`TouchFile` while the file waits to be read, and that puts the attempt in `swapped`.
`ComparisonIsFounded` follows: what a passed comparison compares, two declared
hashes, is also what the two receipts say of the files. So does
`BenchmarkTypeCorrect`, which needs more of `DriverInv` than it seems to: a hash is
declared only when a result was written.

**SkillLinksProofs.** The invariant follows one run of the script: destinations
before the present one are links of ours or were touched by another program since
(`EarlierLinked`), and, if nobody interfered, what was seen or made at this one is
still there at the next call (`Undisturbed`). `ExitZeroIsLinked` and
`UndisturbedSucceeds` follow. `OnlyLinksAreRemoved` is an action property: a step
of the script takes away a link or a file, never a directory, and when it leaves
nothing in place the destinations before that one are linked, but for those others
touched. They hold for any number of runs,
kills and interferences; the three destinations are the script's.

Model-checked only: `EveryUpdateEnds` and `ExperimentEnds`, which are liveness. Every
invariant and every action property of the passing runs is the statement of a
theorem. SHA-256, DuckDB's transactions, `flock` and the file system are
assumptions of the models.

## 5. Not modelled, and why

- The command line: each command calls one method and prints the answer. Only
  the metadata it gives `register` is modelled (`MetadataOf`), as it decides
  which keys a record has.
- Evidence texts and their validation in `models.py` (blank texts, malformed
  digests, infinite measurements): the models offer what the constructors accept.
- `schema_contract` and `value_invariants` of `semantics.py`, which test Python types and
  ranges that the tables' types fix; the gates of the benchmark about the clean
  checkout, unit tests and the static ones are outcomes (`GateHolds`, `GateFails`).
- `snapshot` reads two tables without a transaction (`pipeline.py:233`). One
  process may open the file for writing and the repository starts no thread, so
  nothing can commit in between.
- `register` of a known run returns the record or refuses (`control_plane.py:308`);
  it changes nothing, and is a stuttering step.
- The report beside the verdict of `compare` repeats the records it was given.
- `ControlPlane` over `JsonStore` as one module: with `AtomicLedger` for a store the
  composition would say of each handler what `ControlPlane` says by being one
  action, and nothing else.
- Temporary files a crash leaves behind are never read again. A ledger file that is
  damaged by something else, or has another version, reads as empty like a torn
  one; nothing in the repository produces such a file.
- `compare` itself never ties the `result_hash` of a run to the digest of an
  artifact (`control_plane.py:663`), and no invariant of `ControlPlane` can. The order
  of the driver's calls does, and `ComparisonStandsOnLedger` says it of the driver.
  It says nothing of the attempts in `swapped`: a result file changed before it is
  hashed leaves a receipt of one content and a declared hash of another, and such a
  comparison passes.

## 6. Findings

`store_read_error`. `_read_unlocked` returns `empty_state()` when reading the file
raises `OSError` (`store.py:44`), and `update` then writes that state back. One
failed read replaces every recorded run by an empty ledger with the one update
at hand, which is acknowledged. `control_plane.py:1` calls the ledger
"Fail-closed"; this path loses evidence silently instead of refusing the update.

## 7. Plan

Done, in this order: `ControlPlane`, `JsonStore` and `Pipeline` with their abstract
specifications and proofs, because everything else rests on them; `Comparison`
and `Benchmark` on top of the ledger; `ArtifactAudit`, which opens up the file
accesses; `OrderGates` and `Evaluation` on top of the pipeline; `Comparing`,
`SerializedLedger` and `SkillLinks`; then the proofs of each, the last of them that
of `Evaluation`, as a client of the theorems about any batches.

What would come next:

1. Several audits and recordings at a time in `ArtifactAudit`, which has one of each.
2. The platform without `fcntl` under `ControlPlane`: which lifecycle properties
   survive lost updates.
