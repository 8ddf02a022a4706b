---------------------------- MODULE ControlPlane ----------------------------
(***************************************************************************)
(* The run lifecycle and evidence ledger of frontier_control_plane.        *)
(*                                                                         *)
(* Every public method of ControlPlane reads the ledger, changes it and    *)
(* writes it back under the lock of its AtomicJsonStore, so each is one    *)
(* action here.  The exception is record_artifact, which reads the file    *)
(* before it takes the lock: it is the two actions HashArtifact and        *)
(* StoreReceipt, and anything may happen between them.  The files that     *)
(* receipts point at belong to no one and change at any time (EditFile).   *)
(*                                                                         *)
(* A digest is the content it was taken from (SHA-256 is assumed not to    *)
(* collide), so the size in a receipt says nothing more and is left out.   *)
(* Times, details and evidence texts are left out; inputs the constructors *)
(* refuse (blank names, malformed digests) are not offered.                *)
(***************************************************************************)
EXTENDS Naturals, Sequences

CONSTANTS
    RunIds,             \* run identifiers
    Contracts,          \* what a run can be registered with (see below)
    Owners,             \* the workers that claim runs and the approvers
    BaselineGates,      \* gates every run must require
    GateNames,          \* gates that are recorded
    GateInputs,         \* gate statuses that are recorded
    ArtifactNames,      \* artifacts that are recorded
    Paths,              \* files on disk
    Contents,           \* contents a file can have, and their digests
    ResultHashes,       \* canonical result digests
    OutcomeInputs,      \* outcome classes that are recorded
    MeasurementNames,   \* measurements that are recorded
    RiskNames,          \* residual risks that are recorded
    Recorders,          \* processes inside record_artifact
    TrailLen,           \* how many of a run's last events are kept
    None                \* Python's None; a missing file

GateStatus == {"pass", "fail", "not_run", "not_applicable"}

RETRYABLE_OUTCOMES ==
    {"timeout", "oom", "infrastructure", "malformed_artifact",
     "missing_artifact", "transport_failure"}

OutcomeClass == {"solved", "completed_semantic_failure"} \cup RETRYABLE_OUTCOMES

\* What a record written before requirements were recorded is read with.
LEGACY_REQUIREMENTS_HASH == "legacy-unrecorded"

RunStatus ==
    {"registered", "claimed", "running", "verified", "approved", "submitted",
     "failed"}

\* The statuses in which a run refuses every change of its evidence.
Sealed == {"approved", "submitted"}

EventActions ==
    {"registered", "claimed", "gate", "artifact", "result", "outcome",
     "measurement", "residual_risk", "verify", "verify_failed", "approved",
     "submit_verify", "submitted"}

(***************************************************************************)
(* A contract is the immutable part of a record: the identity (without the *)
(* run id), the required gates and the required artifacts.  "base" stands  *)
(* for the starting commit, the dataset hash and the environment hash,     *)
(* which the code only ever compares together.                             *)
(***************************************************************************)
ContractFields ==
    {"task", "candidate", "base", "requirements", "attempt", "gates",
     "artifacts"}

ASSUME ContractAssumption ==
    \A c \in Contracts :
        /\ c = [f \in ContractFields |-> c[f]]
        /\ c.attempt \in Nat \ {0}
        /\ c.gates \subseteq GateNames
        /\ c.artifacts \subseteq ArtifactNames

ASSUME InputAssumption ==
    /\ GateInputs \subseteq GateStatus
    /\ OutcomeInputs \subseteq OutcomeClass
    /\ BaselineGates \subseteq GateNames
    /\ TrailLen \in Nat

-----------------------------------------------------------------------------
(* A dictionary maps the keys it does not hold to None.                    *)

Receipt == [path : Paths, sha256 : Contents]

Evidence ==
    [owner          : Owners \cup {None},
     result_hash    : ResultHashes \cup {None},
     gates          : [GateNames -> GateStatus \cup {None}],
     artifacts      : [ArtifactNames -> Receipt \cup {None}],
     outcome        : OutcomeClass \cup {None},
     measurements   : SUBSET MeasurementNames,
     residual_risks : SUBSET RiskNames]

RunRecord ==
    [contract       : Contracts,
     retry_of       : RunIds \cup {None},
     migration_note : BOOLEAN,
     status         : RunStatus,
     approved_by    : Owners \cup {None},
     evidence       : Evidence]

PendingReceipt == [run : RunIds, name : ArtifactNames, receipt : Receipt]

ASSUME NoneAssumption ==
    /\ None \notin RunIds
    /\ None \notin Owners
    /\ None \notin ResultHashes
    /\ None \notin Contents
    /\ None \notin OutcomeClass
    /\ None \notin GateStatus
    /\ None \notin Receipt
    /\ None \notin RunRecord
    /\ None \notin PendingReceipt

-----------------------------------------------------------------------------
VARIABLES
    runs,       \* the ledger's runs: a record for each run id, or None
    trail,      \* the last TrailLen events of each run
    files,      \* the content at each path, or None
    pending     \* per recorder: the receipt it has computed and not stored

vars == <<runs, trail, files, pending>>

TypeOK ==
    /\ runs \in [RunIds -> RunRecord \cup {None}]
    /\ trail \in [RunIds -> Seq(EventActions)]
    /\ files \in [Paths -> Contents \cup {None}]
    /\ pending \in [Recorders -> PendingReceipt \cup {None}]

Init ==
    /\ runs = [r \in RunIds |-> None]
    /\ trail = [r \in RunIds |-> <<>>]
    /\ files \in [Paths -> Contents \cup {None}]
    /\ pending = [w \in Recorders |-> None]

-----------------------------------------------------------------------------
(* What the handlers ask of a record.                                      *)

Registered == {r \in RunIds : runs[r] # None}

Retried(r) == \E x \in Registered : runs[x].retry_of = r

\* Mutation: the search for a clean retry is dropped.
MutableThoughRetried(r) ==
    /\ r \in Registered
    /\ runs[r].status \notin Sealed

\* _ensure_mutable
Mutable(r) ==
    /\ r \in Registered
    /\ runs[r].status \notin Sealed
    /\ ~Retried(r)

\* The clauses of _verification_for that only need the record: every required
\* gate is recorded and neither failed nor skipped, every required artifact
\* has a receipt, and the run is owned, has a result and is solved.
Complete(contract, evidence) ==
    /\ \A g \in contract.gates : evidence.gates[g] \notin {None, "fail", "not_run"}
    /\ \A n \in contract.artifacts : evidence.artifacts[n] # None
    /\ evidence.result_hash # None
    /\ evidence.owner # None
    /\ evidence.outcome = "solved"

\* The clause that looks at the disk: every receipt, required or not, still
\* describes the file it points at.
Fresh(evidence) ==
    \A n \in ArtifactNames :
        evidence.artifacts[n] # None =>
            files[evidence.artifacts[n].path] = evidence.artifacts[n].sha256

Passes(r) ==
    /\ Complete(runs[r].contract, runs[r].evidence)
    /\ Fresh(runs[r].evidence)

\* A run's trail keeps its last TrailLen events.
Recent(s) == SubSeq(s, IF Len(s) > TrailLen THEN Len(s) - TrailLen + 1 ELSE 1, Len(s))

Log(r, actions) == trail' = [trail EXCEPT ![r] = Recent(@ \o actions)]

-----------------------------------------------------------------------------
(* Registration.                                                           *)

SameContract(c, d) ==
    \A f \in ContractFields \ {"attempt"} : c[f] = d[f]

\* Mutation: the scan for an existing retry is dropped.
RetryAllowedTwice(c, parent) ==
    \/ parent = None
    \/ /\ parent \in Registered
       /\ runs[parent].retry_of = None
       /\ runs[parent].evidence.outcome \in RETRYABLE_OUTCOMES
       /\ SameContract(c, runs[parent].contract)
       /\ c.attempt > runs[parent].contract.attempt

\* Mutation: a retry may be retried again.
RetryAllowedOfRetry(c, parent) ==
    \/ parent = None
    \/ /\ parent \in Registered
       /\ runs[parent].evidence.outcome \in RETRYABLE_OUTCOMES
       /\ SameContract(c, runs[parent].contract)
       /\ c.attempt > runs[parent].contract.attempt
       /\ ~Retried(parent)

\* _validate_retry
RetryAllowed(c, parent) ==
    \/ parent = None
    \/ /\ parent \in Registered
       /\ runs[parent].retry_of = None
       /\ runs[parent].evidence.outcome \in RETRYABLE_OUTCOMES
       /\ SameContract(c, runs[parent].contract)
       /\ c.attempt > runs[parent].contract.attempt
       /\ ~Retried(parent)

\* Mutation: only runs on the same dataset are compared.
MigrationAllowedAcrossBases(c, note) ==
    \/ note
    \/ \A x \in Registered :
          /\ runs[x].contract.task = c.task
          /\ runs[x].contract.base = c.base
          => runs[x].contract.requirements = c.requirements

\* _validate_requirements_migration
MigrationAllowed(c, note) ==
    \/ note
    \/ \A x \in Registered :
          runs[x].contract.task = c.task =>
              runs[x].contract.requirements = c.requirements

EmptyEvidence ==
    [owner |-> None, result_hash |-> None, gates |-> [g \in GateNames |-> None],
     artifacts |-> [n \in ArtifactNames |-> None], outcome |-> None, measurements |-> {},
     residual_risks |-> {}]

\* Registering a known run id again changes nothing: it returns the record if
\* the contract is the same and is refused otherwise.  The requirements must be
\* a digest, which the stand-in of a legacy record is not.
Register(r, c, parent, note) ==
    /\ r \notin Registered
    /\ c.requirements # LEGACY_REQUIREMENTS_HASH
    /\ BaselineGates \subseteq c.gates
    /\ c.artifacts # {}
    /\ RetryAllowed(c, parent)
    /\ MigrationAllowed(c, note)
    /\ runs' = [runs EXCEPT ![r] = [contract       |-> c,
                                    retry_of       |-> parent,
                                    migration_note |-> note,
                                    status         |-> "registered",
                                    approved_by    |-> None,
                                    evidence       |-> EmptyEvidence]]
    /\ Log(r, <<"registered">>)
    /\ UNCHANGED <<files, pending>>

-----------------------------------------------------------------------------
(* Recording evidence.                                                     *)

\* Mutation: a claim leaves the status it finds.
ClaimKeepingStatus(r, owner) ==
    /\ Mutable(r)
    /\ runs[r].evidence.owner \in {None, owner}
    /\ runs' = [runs EXCEPT ![r].evidence.owner = owner]
    /\ Log(r, <<"claimed">>)
    /\ UNCHANGED <<files, pending>>

Claim(r, owner) ==
    /\ Mutable(r)
    /\ runs[r].evidence.owner \in {None, owner}
    /\ runs' = [runs EXCEPT ![r].evidence.owner = owner, ![r].status = "claimed"]
    /\ Log(r, <<"claimed">>)
    /\ UNCHANGED <<files, pending>>

\* The common shape of the record_* handlers.
Amend(r, evidence, action) ==
    /\ Mutable(r)
    /\ runs' = [runs EXCEPT ![r].evidence = evidence, ![r].status = "running"]
    /\ Log(r, <<action>>)

RecordGate(r, g, status) ==
    /\ Amend(r, [runs[r].evidence EXCEPT !.gates[g] = status], "gate")
    /\ UNCHANGED <<files, pending>>

SetResultHash(r, hash) ==
    /\ Amend(r, [runs[r].evidence EXCEPT !.result_hash = hash], "result")
    /\ UNCHANGED <<files, pending>>

\* Mutation: an outcome is stored without reopening the run.
RecordOutcomeKeepingStatus(r, class) ==
    /\ Mutable(r)
    /\ runs' = [runs EXCEPT ![r].evidence.outcome = class]
    /\ Log(r, <<"outcome">>)
    /\ UNCHANGED <<files, pending>>

RecordOutcome(r, class) ==
    /\ Amend(r, [runs[r].evidence EXCEPT !.outcome = class], "outcome")
    /\ UNCHANGED <<files, pending>>

RecordMeasurement(r, m) ==
    /\ Amend(r, [runs[r].evidence EXCEPT !.measurements = @ \cup {m}], "measurement")
    /\ UNCHANGED <<files, pending>>

RecordResidualRisk(r, k) ==
    /\ Amend(r, [runs[r].evidence EXCEPT !.residual_risks = @ \cup {k}], "residual_risk")
    /\ UNCHANGED <<files, pending>>

\* Mutation: the is_file check is dropped.
HashArtifactUnchecked(w, r, n, p) ==
    /\ pending[w] = None
    /\ pending' = [pending EXCEPT ![w] =
                      [run |-> r, name |-> n,
                       receipt |-> [path |-> p, sha256 |-> files[p]]]]
    /\ UNCHANGED <<runs, trail, files>>

\* record_artifact before the lock: the file must exist, and is hashed.
HashArtifact(w, r, n, p) ==
    /\ pending[w] = None
    /\ files[p] # None
    /\ pending' = [pending EXCEPT ![w] =
                      [run |-> r, name |-> n,
                       receipt |-> [path |-> p, sha256 |-> files[p]]]]
    /\ UNCHANGED <<runs, trail, files>>

\* Mutation: the run is checked before the file is hashed, not under the lock.
StoreReceiptUnchecked(w) ==
    /\ pending[w] # None
    /\ LET r == pending[w].run
       IN  /\ r \in Registered
           /\ runs' = [runs EXCEPT
                 ![r].evidence.artifacts[pending[w].name] = pending[w].receipt]
           /\ Log(r, <<"artifact">>)
    /\ pending' = [pending EXCEPT ![w] = None]
    /\ UNCHANGED files

\* record_artifact under the lock: the receipt is stored, or refused because
\* the run is unknown or no longer accepts evidence.
StoreReceipt(w) ==
    /\ pending[w] # None
    /\ LET r == pending[w].run
       IN  \/ Amend(r, [runs[r].evidence EXCEPT !.artifacts[pending[w].name] =
                           pending[w].receipt], "artifact")
           \/ ~Mutable(r) /\ UNCHANGED <<runs, trail>>
    /\ pending' = [pending EXCEPT ![w] = None]
    /\ UNCHANGED files

-----------------------------------------------------------------------------
(* Verification, approval, submission.                                     *)

\* _record_verification
Verdict(r) ==
    IF Passes(r)
    THEN /\ runs' = [runs EXCEPT ![r].status = "verified"]
         /\ Log(r, <<"verify">>)
    ELSE /\ runs' = [runs EXCEPT ![r].status = "failed"]
         /\ Log(r, <<"verify_failed">>)

\* A sealed run is judged and left alone.  A retried run is not refused here.
Verify(r) ==
    /\ r \in Registered
    /\ runs[r].status \notin Sealed
    /\ Verdict(r)
    /\ UNCHANGED <<files, pending>>

Approve(r, approver) ==
    /\ Mutable(r)
    /\ IF Passes(r)
       THEN /\ runs' = [runs EXCEPT ![r].status = "approved",
                                    ![r].approved_by = approver]
            /\ Log(r, <<"verify", "approved">>)
       ELSE Verdict(r)
    /\ UNCHANGED <<files, pending>>

\* Mutation: a verified run is submitted without an approval.
SubmitVerified(r) ==
    /\ r \in Registered
    /\ runs[r].status \in {"verified", "approved"}
    /\ IF Passes(r)
       THEN /\ runs' = [runs EXCEPT ![r].status = "submitted"]
            /\ Log(r, <<"submit_verify", "submitted">>)
       ELSE Verdict(r)
    /\ UNCHANGED <<files, pending>>

Submit(r) ==
    /\ r \in Registered
    /\ runs[r].status = "approved"
    /\ IF Passes(r)
       THEN /\ runs' = [runs EXCEPT ![r].status = "submitted"]
            /\ Log(r, <<"submit_verify", "submitted">>)
       ELSE Verdict(r)
    /\ UNCHANGED <<files, pending>>

-----------------------------------------------------------------------------
(* The disk: anything may be written, or removed, at any time.             *)

EditFile(p, c) ==
    /\ files' = [files EXCEPT ![p] = c]
    /\ UNCHANGED <<runs, trail, pending>>

Next ==
    \/ \E r \in RunIds :
          \/ \E c \in Contracts, parent \in RunIds \cup {None}, note \in BOOLEAN :
                Register(r, c, parent, note)
          \/ \E o \in Owners : Claim(r, o)
          \/ \E g \in GateNames, s \in GateInputs : RecordGate(r, g, s)
          \/ \E h \in ResultHashes : SetResultHash(r, h)
          \/ \E x \in OutcomeInputs : RecordOutcome(r, x)
          \/ \E m \in MeasurementNames : RecordMeasurement(r, m)
          \/ \E k \in RiskNames : RecordResidualRisk(r, k)
          \/ Verify(r)
          \/ \E o \in Owners : Approve(r, o)
          \/ Submit(r)
    \/ \E w \in Recorders :
          \/ \E r \in RunIds, n \in ArtifactNames, p \in Paths : HashArtifact(w, r, n, p)
          \/ StoreReceipt(w)
    \/ \E p \in Paths, c \in Contents \cup {None} : EditFile(p, c)

Spec == Init /\ [][Next]_vars

-----------------------------------------------------------------------------
(* Safety.                                                                 *)

Accepted == {"verified", "approved", "submitted"}

\* A run that stands verified, approved or submitted carries complete passing
\* evidence, however its handlers interleaved since; an approval has a name.
EvidenceComplete ==
    \A r \in Registered :
        /\ runs[r].status \in Accepted =>
              Complete(runs[r].contract, runs[r].evidence)
        /\ runs[r].status \in Sealed => runs[r].approved_by # None

\* A retry has one parent and is its only retry; the parent is an original
\* attempt of the same contract that failed for a reason outside the work,
\* and that reason is still on record (register with retry_of).
RetryLineage ==
    \A r \in Registered :
        LET p == runs[r].retry_of
        IN  p # None =>
              /\ p \in Registered
              /\ runs[p].retry_of = None
              /\ runs[p].evidence.outcome \in RETRYABLE_OUTCOMES
              /\ SameContract(runs[r].contract, runs[p].contract)
              /\ runs[r].contract.attempt > runs[p].contract.attempt
              /\ \A x \in Registered : runs[x].retry_of = p => x = r

\* A run that was retried is never accepted afterwards, although verify still
\* runs on it: an attempt and its retry cannot both count.
RetriedNotAccepted ==
    \A r \in Registered : Retried(r) => runs[r].status \notin Accepted

\* Two runs of one task with different requirements never meet in a ledger
\* without a migration note on one of them (register).
MigrationsNoted ==
    \A r, x \in Registered :
        /\ runs[r].contract.task = runs[x].contract.task
        /\ runs[r].contract.requirements # runs[x].contract.requirements
        => runs[r].migration_note \/ runs[x].migration_note

\* The status an event leaves a run in.
StatusAfter ==
    [a \in EventActions |->
        CASE a = "verify"        -> "verified"
          [] a = "verify_failed" -> "failed"
          [] a = "submit_verify" -> "approved"
          [] a \in RunStatus     -> a
          [] OTHER               -> "running"]

EndsWith(s, t) ==
    Len(s) >= Len(t) /\ SubSeq(s, Len(s) - Len(t) + 1, Len(s)) = t

\* The event log tells the truth: a run's status is the one its last event
\* leaves it in, and an approval or a submission is in the log right after
\* the verification it rests on, with nothing in between.
AuditTrail ==
    \A r \in Registered :
        /\ trail[r] # <<>>
        /\ runs[r].status = StatusAfter[trail[r][Len(trail[r])]]
        /\ runs[r].status = "approved" => EndsWith(trail[r], <<"verify", "approved">>)
        /\ runs[r].status = "submitted" =>
              EndsWith(trail[r], <<"verify", "approved", "submit_verify", "submitted">>)

\* What may never change again: the evidence of a sealed or retried run, and
\* everything about a submitted one.
FrozenStep ==
    \A r \in Registered :
        /\ runs'[r] # None
        /\ runs'[r].contract = runs[r].contract
        /\ runs[r].status \in Sealed \/ Retried(r) =>
              runs'[r].evidence = runs[r].evidence
        /\ runs[r].status = "submitted" => runs'[r] = runs[r]

FrozenEvidence == [][FrozenStep]_vars

-----------------------------------------------------------------------------
(* The promise: ApprovalLedger, with the contract and the evidence of a    *)
(* run as its packet.                                                      *)

Phase(r) ==
    IF r \notin Registered THEN "absent"
    ELSE IF Retried(r) THEN "superseded"
    ELSE IF runs[r].status \in Sealed THEN runs[r].status
    ELSE "open"

Packet(r) ==
    IF r \in Registered
    THEN [contract |-> runs[r].contract, evidence |-> runs[r].evidence]
    ELSE [contract |-> None, evidence |-> None]

Acceptable(packet) == Complete(packet.contract, packet.evidence)

Abs == INSTANCE ApprovalLedger WITH
           Runs   <- RunIds,
           phase  <- [r \in RunIds |-> Phase(r)],
           packet <- [r \in RunIds |-> Packet(r)]

\* Every behaviour of the control plane is one ApprovalLedger allows.
ImplementsApprovalLedger == Abs!Spec
=============================================================================
