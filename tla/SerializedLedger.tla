-------------------------- MODULE SerializedLedger --------------------------
(***************************************************************************)
(* The records as the ledger's file holds them.  Every handler reads a run *)
(* with RunRecord.from_dict, which fills in what older versions did not    *)
(* write, and puts it back with to_dict; so a ledger that older versions   *)
(* left mixes both forms, and runs is what the file reads as.              *)
(*                                                                         *)
(* A dictionary of the file is a function whose domain is the keys it has. *)
(* Evidence texts are left out, and with them the placeholder that stands  *)
(* for texts never captured.                                               *)
(***************************************************************************)
EXTENDS Comparison

CONSTANT LegacyRecords      \* the records older versions may have left

VARIABLE stored             \* the file's dictionary of run ids

serialized_vars == <<vars, stored>>

Get(data, key, default) == IF key \in DOMAIN data THEN data[key] ELSE default

Present(dict) == {k \in DOMAIN dict : dict[k] # None}

-----------------------------------------------------------------------------
(* Gates.  Older versions wrote whether a gate passed; now its status is   *)
(* written and passed beside it.                                           *)

\* Mutation: a gate counts as passed because it has the old key.
GateFromDictByKey(data) ==
    Get(data, "status", IF "passed" \in DOMAIN data THEN "pass" ELSE "fail")

\* GateResult.from_dict
GateFromDict(data) ==
    Get(data, "status", IF Get(data, "passed", FALSE) THEN "pass" ELSE "fail")

\* Mutation: gates are written the old way.
GateToDictBoolean(status) == [passed |-> status = "pass"]

\* GateResult.to_dict
GateToDict(status) == [status |-> status, passed |-> status = "pass"]

-----------------------------------------------------------------------------
(* Records.                                                                *)

\* RunIdentity.from_dict
IdentityFromDict(data) ==
    [task |-> data.task, candidate |-> data.candidate, base |-> data.base,
     attempt |-> data.attempt,
     requirements |-> Get(data, "requirements", LEGACY_REQUIREMENTS_HASH)]

\* The gates and receipts of a record, with a value for every name.
GatesFromDict(data) ==
    [g \in GateNames |-> IF g \in DOMAIN data THEN GateFromDict(data[g]) ELSE None]

ArtifactsFromDict(data) == [n \in ArtifactNames |-> Get(data, n, None)]

\* RunRecord.from_dict.  A missing or empty list of artifacts means "result".
FromDict(data) ==
    LET identity  == IdentityFromDict(data.identity)
        artifacts == Get(data, "required_artifacts", {})
        metadata  == Get(data, "metadata", <<>>)
    IN  [contract |->
            [f \in ContractFields |->
                CASE f = "gates"     -> Get(data, "required_gates", {})
                  [] f = "artifacts" -> IF artifacts = {} THEN {"result"} ELSE artifacts
                  [] OTHER           -> identity[f]],
         retry_of       |-> Get(metadata, "retry_of", None),
         migration_note |-> "migration_note" \in DOMAIN metadata,
         status         |-> Get(data, "status", "registered"),
         approved_by    |-> Get(data, "approved_by", None),
         evidence |->
            [owner          |-> Get(data, "owner", None),
             result_hash    |-> Get(data, "result_hash", None),
             gates          |-> GatesFromDict(Get(data, "gates", <<>>)),
             artifacts      |-> ArtifactsFromDict(Get(data, "artifacts", <<>>)),
             outcome        |-> Get(data, "outcome", None),
             measurements   |-> Get(data, "measurements", {}),
             residual_risks |-> Get(data, "residual_risks", {})]]

\* The metadata register is given: no key for what was not asked for.
MetadataOf(record) ==
    [k \in (IF record.retry_of # None THEN {"retry_of"} ELSE {})
              \cup (IF record.migration_note THEN {"migration_note"} ELSE {}) |->
        IF k = "retry_of" THEN record.retry_of ELSE "noted"]

\* RunRecord.to_dict
ToDict(record) ==
    [identity           |-> [f \in ContractFields \ {"gates", "artifacts"} |->
                                record.contract[f]],
     required_gates     |-> record.contract.gates,
     required_artifacts |-> record.contract.artifacts,
     status             |-> record.status,
     owner              |-> record.evidence.owner,
     result_hash        |-> record.evidence.result_hash,
     gates              |-> [g \in Present(record.evidence.gates) |->
                                GateToDict(record.evidence.gates[g])],
     artifacts          |-> [n \in Present(record.evidence.artifacts) |->
                                record.evidence.artifacts[n]],
     outcome            |-> record.evidence.outcome,
     measurements       |-> record.evidence.measurements,
     residual_risks     |-> record.evidence.residual_risks,
     metadata           |-> MetadataOf(record),
     approved_by        |-> record.approved_by]

\* What the file reads as.
View(file) == [r \in RunIds |-> IF r \in DOMAIN file THEN FromDict(file[r]) ELSE None]

\* Older versions knew the gates and no retries, and recorded no requirements.
ASSUME LegacyAssumption ==
    \A data \in LegacyRecords :
        LET record == FromDict(data)
        IN  /\ record.contract.gates \subseteq GateNames
            /\ record.evidence.gates \in [GateNames -> GateStatus \cup {None}]
            /\ record.retry_of = None
            /\ record.contract.requirements = LEGACY_REQUIREMENTS_HASH

-----------------------------------------------------------------------------
\* A ledger older versions left: its event log may be anything, so no event
\* of theirs is kept.
SerializedInit ==
    /\ \E ids \in SUBSET RunIds : stored \in [ids -> LegacyRecords]
    /\ runs = View(stored)
    /\ trail = [r \in RunIds |-> <<>>]
    /\ files \in [Paths -> Contents \cup {None}]
    /\ pending = [w \in Recorders |-> None]

\* The runs a handler puts back: whoever puts a record logs an event.  (If
\* the trail shows no difference, the file held this very record before.)
Put == {r \in RunIds : runs'[r] # runs[r] \/ trail'[r] # trail[r]}

SerializedNext ==
    /\ Next
    /\ stored' = [r \in DOMAIN stored \cup Put |->
                     IF r \in Put THEN ToDict(runs'[r]) ELSE stored[r]]

SerializedSpec == SerializedInit /\ [][SerializedNext]_serialized_vars

-----------------------------------------------------------------------------
(* Safety.                                                                 *)

\* What a handler puts is what the next one reads, whichever version wrote
\* the record first (to_dict, from_dict).
ReadsBack == runs = View(stored)

\* What the file says of a gate, to a reader of either form.
PassedOnFile(gate) ==
    IF "status" \in DOMAIN gate
    THEN gate.status \in {"pass", "not_applicable"}
    ELSE gate.passed

\* A run is only accepted on gates the file says passed: no default of
\* from_dict turns a gate that failed, or was never recorded, into a pass.
AcceptedOnFileStep ==
    \A r \in Registered :
        runs[r].status \notin Accepted /\ runs'[r].status \in Accepted =>
            \A g \in runs[r].contract.gates :
                LET gates == Get(stored[r], "gates", <<>>)
                IN  g \in DOMAIN gates /\ PassedOnFile(gates[g])

AcceptedOnFile == [][AcceptedOnFileStep]_serialized_vars

IsLegacy(r) == runs[r].contract.requirements = LEGACY_REQUIREMENTS_HASH

\* A run whose requirements were never recorded stands alone: no comparison
\* with it passes, even with its like, it never gets a retry, and a new run
\* of its task says that the requirements changed.
LegacyStandsAlone ==
    \A r, x \in Registered :
        r # x /\ IsLegacy(r) =>
            /\ ~ComparisonPasses(Loaded({r, x}))
            /\ runs[x].retry_of # r
            /\ ~IsLegacy(x) /\ runs[x].contract.task = runs[r].contract.task =>
                   runs[x].migration_note
=============================================================================
