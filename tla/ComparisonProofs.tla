------------------------- MODULE ComparisonProofs --------------------------
(***************************************************************************)
(* Proofs about the two modules on top of Comparison, for every value of   *)
(* their constants: Comparing, and SerializedLedger.                       *)
(***************************************************************************)
EXTENDS Comparing, SerializedLedger, ControlPlaneProofs

-----------------------------------------------------------------------------
(* Comparing.                                                              *)

\* compare changes neither the ledger nor the files.
LEMMA ComparingIsControlPlane == CompareSpec => Spec
<1>1. CompareInit => Init
  BY DEF CompareInit
<1>2. [CompareNext]_<<vars, compare_vars>> => [Next]_vars
  BY DEF CompareNext, Load, Judge
<1> QED
  BY <1>1, <1>2, PTL DEF CompareSpec, Spec

\* A registered run stays registered and keeps its lineage.
LEMMA LineageIsFixed ==
    ASSUME TypeOK, TypeOK', [Next]_vars, NEW x \in Registered
    PROVE  x \in Registered' /\ runs'[x].retry_of = runs[x].retry_of
<1>1. CASE UNCHANGED runs
  BY <1>1 DEF Registered
<1>2. ASSUME NEW r \in RunIds, Enters(r)
      PROVE  runs'[x] = runs[x]
  BY <1>2 DEF Enters, Register, TypeOK, Registered
<1>3. ASSUME NEW r \in RunIds, KeepsContract(r)
      PROVE  runs'[x] # None /\ runs'[x].retry_of = runs[x].retry_of
  BY <1>3 DEF KeepsContract, Registered
<1> QED
  BY <1>1, <1>2, <1>3, StepKinds DEF Registered, Revises, Judges

-----------------------------------------------------------------------------
(* What a comparison has taken, and what the last one counted, are groups  *)
(* of registered runs none of which is a retry of another.  RetryLineage   *)
(* gives that when the records are taken: a parent keeps its retryable     *)
(* outcome, so it is not complete in any ledger that holds its retry.      *)

Unrelated(ids) ==
    /\ ids \subseteq Registered
    /\ \A r, x \in ids : runs[x].retry_of # r

CompareInv ==
    /\ Unrelated(DOMAIN loaded)
    /\ Unrelated(counted)

LEMMA UnrelatedStays ==
    ASSUME TypeOK, TypeOK', [Next]_vars, NEW ids, Unrelated(ids)
    PROVE  Unrelated(ids)'
BY LineageIsFixed DEF Unrelated

LEMMA PromisingAreUnrelated ==
    ASSUME RetryLineage, NEW ids, ids \subseteq Registered, Promising(Loaded(ids))
    PROVE  Unrelated(ids)
<1>1. ASSUME NEW r \in ids, NEW x \in ids, runs[x].retry_of = r
      PROVE  FALSE
  <2>1. Complete(runs[r].contract, runs[r].evidence)
    BY DEF Promising, Loaded
  <2>2. runs[r].evidence.outcome \in RETRYABLE_OUTCOMES
    BY <1>1, NoneAssumption DEF RetryLineage, Registered
  <2> QED
    BY <2>1, <2>2, RetryableBlocks
<1> QED
  BY <1>1 DEF Unrelated

LEMMA CompareInvInductive == CompareSpec => []CompareInv
<1>1. CompareInit => CompareInv
  BY DEF CompareInit, CompareInv, Unrelated, Nothing
<1>2. Inv /\ Inv' /\ CompareInv /\ [CompareNext]_<<vars, compare_vars>> => CompareInv'
  <2> SUFFICES ASSUME Inv, Inv', CompareInv, [CompareNext]_<<vars, compare_vars>>
               PROVE  CompareInv'
    OBVIOUS
  <2>1. CASE [Next]_vars /\ UNCHANGED compare_vars
    BY <2>1, UnrelatedStays DEF CompareInv, compare_vars, Inv
  <2>2. ASSUME NEW ids \in Groups, Load(ids)
        PROVE  CompareInv'
    <3>1. Unrelated(ids)
      BY <2>2, PromisingAreUnrelated DEF Load, Inv
    <3>2. DOMAIN loaded' = ids
      BY <2>2 DEF Load, Loaded
    <3> QED
      BY <2>2, <3>1, <3>2 DEF Load, CompareInv, Unrelated, Registered, vars
  <2>3. ASSUME NEW ids \in Groups, Judge(ids)
        PROVE  CompareInv'
    <3>1. DOMAIN loaded' = {}
      BY <2>3 DEF Judge, Nothing
    <3> QED
      BY <2>3, <3>1 DEF Judge, CompareInv, Unrelated, Registered, vars
  <2> QED
    BY <2>1, <2>2, <2>3 DEF CompareNext
<1>3. CompareSpec => []Inv
  BY ComparingIsControlPlane, InvInductive, PTL
<1> QED
  BY <1>1, <1>2, <1>3, PTL DEF CompareSpec

\* An attempt and its clean retry never count in one passed comparison, for
\* any number of runs, whatever the handlers do while compare judges.
THEOREM NeverBoth == CompareSpec => []NeverBothCount
<1>1. CompareInv => NeverBothCount
  BY DEF CompareInv, Unrelated, NeverBothCount
<1> QED
  BY <1>1, CompareInvInductive, PTL

-----------------------------------------------------------------------------
(* What to_dict writes, from_dict reads.                                   *)

EvidenceFields ==
    {"owner", "result_hash", "gates", "artifacts", "outcome", "measurements",
     "residual_risks"}

RecordFields ==
    {"contract", "retry_of", "migration_note", "status", "approved_by", "evidence"}

EvidenceShape(e) ==
    /\ e = [f \in EvidenceFields |-> e[f]]
    /\ e.gates \in [GateNames -> GateStatus \cup {None}]
    /\ e.artifacts = [n \in ArtifactNames |-> e.artifacts[n]]

ContractShape(c) ==
    /\ c = [f \in ContractFields |-> c[f]]
    /\ c.gates \subseteq GateNames
    /\ c.artifacts # {}

Shaped(rec) ==
    /\ rec = [f \in RecordFields |-> rec[f]]
    /\ ContractShape(rec.contract)
    /\ rec.migration_note \in BOOLEAN
    /\ EvidenceShape(rec.evidence)

LEMMA GateRoundTrip ==
    ASSUME NEW s PROVE GateFromDict(GateToDict(s)) = s
BY DEF GateFromDict, GateToDict, Get

LEMMA GatesRoundTrip ==
    ASSUME NEW gates \in [GateNames -> GateStatus \cup {None}]
    PROVE  GatesFromDict([g \in Present(gates) |-> GateToDict(gates[g])]) = gates
<1> DEFINE dict == [g \in Present(gates) |-> GateToDict(gates[g])]
<1>1. ASSUME NEW g \in GateNames
      PROVE  (IF g \in DOMAIN dict THEN GateFromDict(dict[g]) ELSE None) = gates[g]
  <2>1. CASE gates[g] = None
    BY <2>1 DEF Present
  <2>2. CASE gates[g] # None
    <3>1. g \in Present(gates)
      BY <2>2 DEF Present
    <3>2. dict[g] = GateToDict(gates[g])
      BY <3>1
    <3> QED
      BY <3>1, <3>2, GateRoundTrip
  <2> QED
    BY <2>1, <2>2
<1> HIDE DEF dict
<1> QED
  BY <1>1 DEF GatesFromDict, dict

LEMMA ArtifactsRoundTrip ==
    ASSUME NEW a, a = [n \in ArtifactNames |-> a[n]]
    PROVE  ArtifactsFromDict([n \in Present(a) |-> a[n]]) = a
<1> DEFINE dict == [n \in Present(a) |-> a[n]]
<1>1. ASSUME NEW n \in ArtifactNames
      PROVE  Get(dict, n, None) = a[n]
  BY DEF Get, Present
<1> HIDE DEF dict
<1> QED
  BY <1>1 DEF ArtifactsFromDict, dict

LEMMA ContractRoundTrip ==
    ASSUME NEW rec, Shaped(rec)
    PROVE  FromDict(ToDict(rec)).contract = rec.contract
<1> DEFINE c == rec.contract
           data == ToDict(rec)
           identity == IdentityFromDict(data.identity)
<1>1. /\ data.identity = [f \in ContractFields \ {"gates", "artifacts"} |-> c[f]]
      /\ Get(data, "required_gates", {}) = c.gates
      /\ Get(data, "required_artifacts", {}) = c.artifacts
  BY DEF ToDict, Get
<1>2. \A f \in ContractFields \ {"gates", "artifacts"} : identity[f] = c[f]
  BY <1>1 DEF IdentityFromDict, ContractFields, Get
<1>3. c.artifacts # {} /\ c = [f \in ContractFields |-> c[f]]
  BY DEF Shaped, ContractShape
<1>4. FromDict(data).contract =
        [f \in ContractFields |->
            CASE f = "gates"     -> c.gates
              [] f = "artifacts" -> c.artifacts
              [] OTHER           -> identity[f]]
  BY <1>1, <1>3 DEF FromDict
<1> HIDE DEF c, data, identity
<1>5. [f \in ContractFields |->
            CASE f = "gates"     -> c.gates
              [] f = "artifacts" -> c.artifacts
              [] OTHER           -> identity[f]] = [f \in ContractFields |-> c[f]]
  BY <1>2
<1> QED
  BY <1>3, <1>4, <1>5 DEF c, data

LEMMA MetadataRoundTrip ==
    ASSUME NEW rec, rec.migration_note \in BOOLEAN
    PROVE  /\ Get(MetadataOf(rec), "retry_of", None) = rec.retry_of
           /\ ("migration_note" \in DOMAIN MetadataOf(rec)) = rec.migration_note
<1>1. DOMAIN MetadataOf(rec) = (IF rec.retry_of # None THEN {"retry_of"} ELSE {})
              \cup (IF rec.migration_note THEN {"migration_note"} ELSE {})
  BY DEF MetadataOf
<1>2. CASE rec.retry_of # None
  <2>1. "retry_of" \in DOMAIN MetadataOf(rec)
    BY <1>1, <1>2
  <2>2. MetadataOf(rec)["retry_of"] = rec.retry_of
    BY <1>2 DEF MetadataOf
  <2>3. ("migration_note" \in DOMAIN MetadataOf(rec)) = rec.migration_note
    BY <1>1
  <2> QED
    BY <2>1, <2>2, <2>3 DEF Get
<1>3. CASE rec.retry_of = None
  <2>1. "retry_of" \notin DOMAIN MetadataOf(rec)
    BY <1>1, <1>3
  <2>2. ("migration_note" \in DOMAIN MetadataOf(rec)) = rec.migration_note
    BY <1>1
  <2> QED
    BY <1>3, <2>1, <2>2 DEF Get
<1> QED
  BY <1>2, <1>3

\* A record that is written and read again is the same record, whatever the
\* run's contract and evidence (to_dict, from_dict).
THEOREM RoundTrip ==
    ASSUME NEW rec, Shaped(rec)
    PROVE  FromDict(ToDict(rec)) = rec
<1> DEFINE data == ToDict(rec)
           e == rec.evidence
<1>1. /\ Get(data, "metadata", <<>>) = MetadataOf(rec)
      /\ Get(data, "status", "registered") = rec.status
      /\ Get(data, "approved_by", None) = rec.approved_by
      /\ Get(data, "owner", None) = e.owner
      /\ Get(data, "result_hash", None) = e.result_hash
      /\ Get(data, "outcome", None) = e.outcome
      /\ Get(data, "measurements", {}) = e.measurements
      /\ Get(data, "residual_risks", {}) = e.residual_risks
  BY DEF ToDict, Get
<1>2. GatesFromDict(Get(data, "gates", <<>>)) = e.gates
  <2>1. Get(data, "gates", <<>>) = [g \in Present(e.gates) |-> GateToDict(e.gates[g])]
    BY DEF ToDict, Get
  <2> QED
    BY <2>1, GatesRoundTrip DEF Shaped, EvidenceShape
<1>3. ArtifactsFromDict(Get(data, "artifacts", <<>>)) = e.artifacts
  <2>1. Get(data, "artifacts", <<>>) = [n \in Present(e.artifacts) |-> e.artifacts[n]]
    BY DEF ToDict, Get
  <2> QED
    BY <2>1, ArtifactsRoundTrip DEF Shaped, EvidenceShape
<1>4. /\ Get(MetadataOf(rec), "retry_of", None) = rec.retry_of
      /\ ("migration_note" \in DOMAIN MetadataOf(rec)) = rec.migration_note
  BY MetadataRoundTrip DEF Shaped
<1>5. FromDict(data).contract = rec.contract
  BY ContractRoundTrip
<1> HIDE DEF data
<1>6. FromDict(data) =
        [contract |-> FromDict(data).contract, retry_of |-> rec.retry_of,
         migration_note |-> rec.migration_note, status |-> rec.status,
         approved_by |-> rec.approved_by,
         evidence |-> [owner |-> e.owner, result_hash |-> e.result_hash,
                       gates |-> e.gates, artifacts |-> e.artifacts,
                       outcome |-> e.outcome, measurements |-> e.measurements,
                       residual_risks |-> e.residual_risks]]
  BY <1>1, <1>2, <1>3, <1>4 DEF FromDict
<1>7. e = [owner |-> e.owner, result_hash |-> e.result_hash, gates |-> e.gates,
           artifacts |-> e.artifacts, outcome |-> e.outcome,
           measurements |-> e.measurements, residual_risks |-> e.residual_risks]
  BY DEF Shaped, EvidenceShape, EvidenceFields
<1>8. rec = [contract |-> rec.contract, retry_of |-> rec.retry_of,
             migration_note |-> rec.migration_note, status |-> rec.status,
             approved_by |-> rec.approved_by, evidence |-> e]
  BY DEF Shaped, RecordFields
<1> QED
  BY <1>5, <1>6, <1>7, <1>8 DEF data

-----------------------------------------------------------------------------
(* What a handler does to the records: it enters a new one, or revises one *)
(* that is there without touching its contract and its lineage.            *)

Keeps(r) ==
    /\ r \in Registered
    /\ Shaped(runs'[r])
    /\ runs'[r].contract = runs[r].contract
    /\ runs'[r].retry_of = runs[r].retry_of
    /\ runs'[r].migration_note = runs[r].migration_note
    /\ runs[r].status \notin Accepted /\ runs'[r].status \in Accepted =>
          Complete(runs[r].contract, runs[r].evidence)

Leaves(r) == runs'[r] = runs[r] /\ trail'[r] = trail[r]

LedgerShape ==
    /\ runs = [r \in RunIds |-> runs[r]]
    /\ trail = [r \in RunIds |-> trail[r]]
    /\ \A r \in Registered : Shaped(runs[r])

\* Only the record at r is changed, into rec.
Puts(r, rec) ==
    /\ runs' = [runs EXCEPT ![r] = rec]
    /\ \E acts : trail' = [trail EXCEPT ![r] = acts]

KindsOfStep ==
    /\ runs' = [r \in RunIds |-> runs'[r]]
    /\ trail' = [r \in RunIds |-> trail'[r]]
    /\ \A r \in RunIds : Leaves(r) \/ Keeps(r) \/ Enters(r)

LEMMA PutKeeps ==
    ASSUME LedgerShape, NEW r \in Registered, NEW rec, Puts(r, rec), Shaped(rec),
           rec.contract = runs[r].contract,
           rec.retry_of = runs[r].retry_of,
           rec.migration_note = runs[r].migration_note,
           runs[r].status \notin Accepted /\ rec.status \in Accepted =>
              Complete(runs[r].contract, runs[r].evidence)
    PROVE  KindsOfStep
<1>1. r \in RunIds
  BY DEF Registered
<1>2. /\ runs'[r] = rec
      /\ \A x \in RunIds \ {r} : Leaves(x)
      /\ runs' = [x \in RunIds |-> runs'[x]]
      /\ trail' = [x \in RunIds |-> trail'[x]]
  BY <1>1 DEF Puts, LedgerShape, Leaves
<1>3. Keeps(r)
  BY <1>2 DEF Keeps
<1> QED
  BY <1>1, <1>2, <1>3 DEF KindsOfStep

LEMMA LogPuts ==
    ASSUME NEW r, NEW acts, NEW rec, Log(r, acts), runs' = [runs EXCEPT ![r] = rec]
    PROVE  Puts(r, rec)
BY DEF Log, Puts

LEMMA UpdateKeepsShape ==
    ASSUME NEW rec, Shaped(rec), NEW new, new = [f \in RecordFields |-> new[f]],
           new.contract = rec.contract, new.migration_note = rec.migration_note,
           EvidenceShape(new.evidence)
    PROVE  Shaped(new)
BY DEF Shaped

\* An evidence handler: new evidence and an open status.
LEMMA EvidenceKeeps ==
    ASSUME LedgerShape, NEW r \in Registered, NEW e, EvidenceShape(e), NEW acts,
           NEW status \in {"claimed", "running"},
           runs' = [runs EXCEPT ![r] = [runs[r] EXCEPT !.evidence = e, !.status = status]],
           Log(r, acts)
    PROVE  KindsOfStep
<1> DEFINE rec == [runs[r] EXCEPT !.evidence = e, !.status = status]
<1>1. Shaped(runs[r])
  BY DEF LedgerShape
<1>2. Puts(r, rec)
  BY LogPuts
<1>3. /\ rec = [f \in RecordFields |-> rec[f]]
      /\ rec.contract = runs[r].contract
      /\ rec.retry_of = runs[r].retry_of
      /\ rec.migration_note = runs[r].migration_note
      /\ rec.status = status
      /\ rec.evidence = e
  BY <1>1 DEF Shaped, RecordFields
<1> HIDE DEF rec
<1>4. Shaped(rec)
  BY <1>1, <1>3, UpdateKeepsShape
<1> QED
  BY <1>2, <1>3, <1>4, PutKeeps DEF Accepted

LEMMA AmendKeeps ==
    ASSUME LedgerShape, NEW r \in RunIds, NEW e, EvidenceShape(e), NEW action,
           Amend(r, e, action)
    PROVE  KindsOfStep
<1>1. r \in Registered /\ Shaped(runs[r])
  BY DEF Amend, Mutable, LedgerShape
<1>2. runs' = [runs EXCEPT ![r] = [runs[r] EXCEPT !.evidence = e, !.status = "running"]]
  BY DEF Amend, LedgerShape
<1> QED
  BY <1>1, <1>2, EvidenceKeeps DEF Amend

\* A judgement: a new status, and perhaps an approver.
LEMMA JudgementKeeps ==
    ASSUME LedgerShape, NEW r \in Registered, NEW status, NEW approver, NEW acts,
           runs' = [runs EXCEPT ![r] = [runs[r] EXCEPT !.status = status,
                                                       !.approved_by = approver]],
           Log(r, acts),
           status \in Accepted => Complete(runs[r].contract, runs[r].evidence)
    PROVE  KindsOfStep
<1> DEFINE rec == [runs[r] EXCEPT !.status = status, !.approved_by = approver]
<1>1. Shaped(runs[r])
  BY DEF LedgerShape
<1>2. Puts(r, rec)
  BY LogPuts
<1>3. /\ rec = [f \in RecordFields |-> rec[f]]
      /\ rec.contract = runs[r].contract
      /\ rec.retry_of = runs[r].retry_of
      /\ rec.migration_note = runs[r].migration_note
      /\ rec.status = status
      /\ rec.evidence = runs[r].evidence
  BY <1>1 DEF Shaped, RecordFields
<1> HIDE DEF rec
<1>4. Shaped(rec)
  BY <1>1, <1>3, UpdateKeepsShape DEF Shaped
<1> QED
  BY <1>2, <1>3, <1>4, PutKeeps

\* A status alone is a judgement with the approver it had.
LEMMA StatusKeeps ==
    ASSUME LedgerShape, NEW r \in Registered, NEW status, NEW acts,
           runs' = [runs EXCEPT ![r].status = status],
           Log(r, acts),
           status \in Accepted => Complete(runs[r].contract, runs[r].evidence)
    PROVE  KindsOfStep
<1>1. Shaped(runs[r]) /\ r \in RunIds
  BY DEF LedgerShape, Registered
<1>2. [runs[r] EXCEPT !.status = status] =
      [runs[r] EXCEPT !.status = status, !.approved_by = runs[r].approved_by]
  BY <1>1 DEF Shaped, RecordFields
<1>3. runs' = [runs EXCEPT ![r] = [runs[r] EXCEPT !.status = status,
                                                  !.approved_by = runs[r].approved_by]]
  BY <1>1, <1>2 DEF LedgerShape
<1> QED
  BY <1>3, JudgementKeeps

LEMMA VerdictKeeps ==
    ASSUME LedgerShape, NEW r \in Registered, Verdict(r)
    PROVE  KindsOfStep
<1>1. CASE Passes(r)
  BY <1>1, StatusKeeps DEF Verdict, Passes
<1>2. CASE ~Passes(r)
  BY <1>2, StatusKeeps DEF Verdict, Accepted
<1> QED
  BY <1>1, <1>2

LEMMA ClaimKeeps ==
    ASSUME LedgerShape, NEW r \in RunIds, NEW owner, Claim(r, owner)
    PROVE  KindsOfStep
<1> DEFINE e == [runs[r].evidence EXCEPT !.owner = owner]
<1>1. r \in Registered /\ Shaped(runs[r])
  BY DEF Claim, Mutable, LedgerShape
<1>2. EvidenceShape(e)
  BY <1>1 DEF Shaped, EvidenceShape, EvidenceFields
<1>3. runs' = [runs EXCEPT ![r] = [runs[r] EXCEPT !.evidence = e, !.status = "claimed"]]
  BY <1>1 DEF Claim, LedgerShape, Shaped, RecordFields
<1> QED
  BY <1>1, <1>2, <1>3, EvidenceKeeps DEF Claim

LEMMA RecordsKeep ==
    ASSUME LedgerShape, NEW r \in RunIds
    PROVE  /\ \A g \in GateNames, s \in GateInputs : RecordGate(r, g, s) => KindsOfStep
           /\ \A h : SetResultHash(r, h) => KindsOfStep
           /\ \A x : RecordOutcome(r, x) => KindsOfStep
           /\ \A m : RecordMeasurement(r, m) => KindsOfStep
           /\ \A k : RecordResidualRisk(r, k) => KindsOfStep
           /\ \A n, receipt, action :
                 Amend(r, [runs[r].evidence EXCEPT !.artifacts[n] = receipt], action)
                    => KindsOfStep
<1> DEFINE e == runs[r].evidence
<1> SUFFICES ASSUME r \in Registered
             PROVE  /\ \A g \in GateNames, s \in GateInputs :
                          RecordGate(r, g, s) => KindsOfStep
                    /\ \A h : SetResultHash(r, h) => KindsOfStep
                    /\ \A x : RecordOutcome(r, x) => KindsOfStep
                    /\ \A m : RecordMeasurement(r, m) => KindsOfStep
                    /\ \A k : RecordResidualRisk(r, k) => KindsOfStep
                    /\ \A n, receipt, action :
                          Amend(r, [e EXCEPT !.artifacts[n] = receipt], action)
                             => KindsOfStep
  BY DEF RecordGate, SetResultHash, RecordOutcome, RecordMeasurement,
         RecordResidualRisk, Amend, Mutable
<1>1. EvidenceShape(e)
  BY DEF LedgerShape, Shaped
<1>2. ASSUME NEW g \in GateNames, NEW s \in GateInputs, RecordGate(r, g, s)
      PROVE  KindsOfStep
  <2>1. EvidenceShape([e EXCEPT !.gates[g] = s])
    BY <1>1, InputAssumption DEF EvidenceShape, EvidenceFields
  <2> QED
    BY <1>2, <2>1, AmendKeeps DEF RecordGate
<1>3. ASSUME NEW h, SetResultHash(r, h)
      PROVE  KindsOfStep
  <2>1. EvidenceShape([e EXCEPT !.result_hash = h])
    BY <1>1 DEF EvidenceShape, EvidenceFields
  <2> QED
    BY <1>3, <2>1, AmendKeeps DEF SetResultHash
<1>4. ASSUME NEW x, RecordOutcome(r, x)
      PROVE  KindsOfStep
  <2>1. EvidenceShape([e EXCEPT !.outcome = x])
    BY <1>1 DEF EvidenceShape, EvidenceFields
  <2> QED
    BY <1>4, <2>1, AmendKeeps DEF RecordOutcome
<1>5. ASSUME NEW m, RecordMeasurement(r, m)
      PROVE  KindsOfStep
  <2>1. EvidenceShape([e EXCEPT !.measurements = @ \cup {m}])
    BY <1>1 DEF EvidenceShape, EvidenceFields
  <2> QED
    BY <1>5, <2>1, AmendKeeps DEF RecordMeasurement
<1>6. ASSUME NEW k, RecordResidualRisk(r, k)
      PROVE  KindsOfStep
  <2>1. EvidenceShape([e EXCEPT !.residual_risks = @ \cup {k}])
    BY <1>1 DEF EvidenceShape, EvidenceFields
  <2> QED
    BY <1>6, <2>1, AmendKeeps DEF RecordResidualRisk
<1>7. ASSUME NEW n, NEW receipt, NEW action,
             Amend(r, [e EXCEPT !.artifacts[n] = receipt], action)
      PROVE  KindsOfStep
  <2>1. EvidenceShape([e EXCEPT !.artifacts[n] = receipt])
    BY <1>1 DEF EvidenceShape, EvidenceFields
  <2> QED
    BY <1>7, <2>1, AmendKeeps
<1> QED
  BY <1>2, <1>3, <1>4, <1>5, <1>6, <1>7

LEMMA ApproveKeeps ==
    ASSUME LedgerShape, NEW r \in RunIds, NEW approver, Approve(r, approver)
    PROVE  KindsOfStep
<1>1. r \in Registered
  BY DEF Approve, Mutable
<1>2. CASE Passes(r)
  <2>1. Shaped(runs[r])
    BY <1>1 DEF LedgerShape
  <2>2. runs' = [runs EXCEPT ![r] = [runs[r] EXCEPT !.status = "approved",
                                                    !.approved_by = approver]]
    BY <1>2, <2>1 DEF Approve, LedgerShape, Shaped, RecordFields
  <2> QED
    BY <1>1, <1>2, <2>2, JudgementKeeps DEF Approve, Passes
<1>3. CASE ~Passes(r)
  BY <1>1, <1>3, VerdictKeeps DEF Approve
<1> QED
  BY <1>2, <1>3

LEMMA SubmitKeeps ==
    ASSUME LedgerShape, NEW r \in RunIds, Submit(r)
    PROVE  KindsOfStep
<1>1. CASE Passes(r)
  BY <1>1, StatusKeeps DEF Submit, Passes
<1>2. CASE ~Passes(r)
  BY <1>2, VerdictKeeps DEF Submit
<1> QED
  BY <1>1, <1>2

LEMMA RegisterEnters ==
    ASSUME LedgerShape, NEW r \in RunIds, Enters(r)
    PROVE  KindsOfStep
<1>1. PICK c \in Contracts, parent \in RunIds \cup {None}, note \in BOOLEAN :
         Register(r, c, parent, note)
  BY DEF Enters
<1>2. /\ \A x \in RunIds \ {r} : Leaves(x)
      /\ runs' = [x \in RunIds |-> runs'[x]]
      /\ trail' = [x \in RunIds |-> trail'[x]]
  BY <1>1 DEF Register, Log, LedgerShape, Leaves
<1> QED
  BY <1>2 DEF KindsOfStep

LEMMA FileStepKinds ==
    ASSUME LedgerShape, [Next]_vars
    PROVE  KindsOfStep
<1>1. CASE UNCHANGED <<runs, trail>>
  BY <1>1 DEF KindsOfStep, Leaves, LedgerShape
<1>2. ASSUME NEW r \in RunIds, NEW c \in Contracts, NEW parent \in RunIds \cup {None},
             NEW note \in BOOLEAN, Register(r, c, parent, note)
      PROVE  KindsOfStep
  BY <1>2, RegisterEnters DEF Enters
<1>3. ASSUME NEW r \in RunIds, Verify(r)
      PROVE  KindsOfStep
  BY <1>3, VerdictKeeps DEF Verify
<1>4. ASSUME NEW w \in Recorders, StoreReceipt(w), ~UNCHANGED <<runs, trail>>
      PROVE  KindsOfStep
  <2> DEFINE r == pending[w].run
  <2>1. Amend(r, [runs[r].evidence EXCEPT !.artifacts[pending[w].name] =
                     pending[w].receipt], "artifact")
    BY <1>4 DEF StoreReceipt
  <2>2. r \in RunIds
    BY <2>1 DEF Amend, Mutable, Registered
  <2> HIDE DEF r
  <2> QED
    BY <2>1, <2>2, RecordsKeep
<1>5. ASSUME \/ \E w \in Recorders, r \in RunIds, n \in ArtifactNames, p \in Paths :
                   HashArtifact(w, r, n, p)
             \/ \E p \in Paths, c \in Contents \cup {None} : EditFile(p, c)
             \/ UNCHANGED vars
      PROVE  UNCHANGED <<runs, trail>>
  BY <1>5 DEF HashArtifact, EditFile, vars
<1> QED
  BY <1>1, <1>2, <1>3, <1>4, <1>5, ClaimKeeps, RecordsKeep, ApproveKeeps, SubmitKeeps
     DEF Next

-----------------------------------------------------------------------------
(* What every handler puts is well-formed, so it is read back as it was.   *)

LEMMA EntersShaped ==
    ASSUME LedgerShape, NEW r \in RunIds, Enters(r)
    PROVE  Shaped(runs'[r])
<1>1. PICK c \in Contracts, parent \in RunIds \cup {None}, note \in BOOLEAN :
         Register(r, c, parent, note)
  BY DEF Enters
<1> DEFINE rec == [contract |-> c, retry_of |-> parent, migration_note |-> note,
                   status |-> "registered", approved_by |-> None,
                   evidence |-> EmptyEvidence]
<1>2. runs'[r] = rec
  BY <1>1 DEF Register, LedgerShape
<1>3. ContractShape(c)
  BY <1>1, ContractAssumption DEF Register, ContractShape
<1>4. EvidenceShape(EmptyEvidence)
  BY DEF EmptyEvidence, EvidenceShape, EvidenceFields
<1>5. rec = [f \in RecordFields |-> rec[f]]
  BY DEF RecordFields
<1> QED
  BY <1>2, <1>3, <1>4, <1>5 DEF Shaped

LEMMA LegacyShaped ==
    ASSUME NEW data \in LegacyRecords
    PROVE  Shaped(FromDict(data))
<1> DEFINE rec == FromDict(data)
<1>1. rec = [f \in RecordFields |-> rec[f]] /\ rec.migration_note \in BOOLEAN
  BY SMTT(30) DEF FromDict, RecordFields
<1>2. ContractShape(rec.contract)
  <2>1. rec.contract = [f \in ContractFields |-> rec.contract[f]]
    BY DEF FromDict
  <2>2. rec.contract.artifacts # {}
    BY DEF FromDict, ContractFields
  <2> QED
    BY <2>1, <2>2, LegacyAssumption DEF ContractShape
<1>3. EvidenceShape(rec.evidence)
  <2>1. rec.evidence = [f \in EvidenceFields |-> rec.evidence[f]]
    BY DEF FromDict, EvidenceFields
  <2>2. rec.evidence.artifacts = [n \in ArtifactNames |-> rec.evidence.artifacts[n]]
    BY DEF FromDict, ArtifactsFromDict
  <2> QED
    BY <2>1, <2>2, LegacyAssumption DEF EvidenceShape
<1> HIDE DEF rec
<1> QED
  BY <1>1, <1>2, <1>3 DEF Shaped, rec

LEMMA PutShaped ==
    ASSUME LedgerShape, KindsOfStep, NEW r \in Put
    PROVE  Shaped(runs'[r])
BY EntersShaped DEF KindsOfStep, Put, Leaves, Keeps

FileInv ==
    /\ LedgerShape
    /\ ReadsBack
    /\ DOMAIN stored \subseteq RunIds

LEMMA FileInvInitially == SerializedInit => FileInv
<1> SUFFICES ASSUME SerializedInit PROVE FileInv
  OBVIOUS
<1>1. PICK ids \in SUBSET RunIds : stored \in [ids -> LegacyRecords]
  BY DEF SerializedInit
<1>2. ReadsBack
  BY DEF SerializedInit, ReadsBack
<1>3. ASSUME NEW r \in Registered PROVE Shaped(runs[r])
  <2>1. r \in DOMAIN stored /\ runs[r] = FromDict(stored[r])
    BY <1>3 DEF SerializedInit, View, Registered
  <2> QED
    BY <1>1, <2>1, LegacyShaped
<1> QED
  BY <1>1, <1>2, <1>3 DEF FileInv, LedgerShape, SerializedInit, View

LEMMA FileInvStep ==
    ASSUME FileInv, [SerializedNext]_serialized_vars
    PROVE  FileInv'
<1>1. CASE UNCHANGED serialized_vars
  BY <1>1 DEF serialized_vars, vars, FileInv, LedgerShape, Registered, ReadsBack,
              View, Shaped, ContractShape, EvidenceShape
<1>2. CASE SerializedNext
  <2>1. KindsOfStep
    BY <1>2, FileStepKinds DEF SerializedNext, FileInv
  <2>2. ASSUME NEW r \in Registered' PROVE Shaped(runs'[r])
    <3>1. CASE r \in Put
      BY <2>1, <3>1, PutShaped DEF FileInv
    <3>2. CASE r \notin Put
      BY <2>2, <3>2 DEF Put, Registered, FileInv, LedgerShape
    <3> QED
      BY <3>1, <3>2
  <2>3. LedgerShape'
    BY <2>1, <2>2 DEF LedgerShape, KindsOfStep, Shaped, ContractShape, EvidenceShape
  <2>4. Put \subseteq RunIds
    BY DEF Put
  <2>5. /\ DOMAIN stored' = DOMAIN stored \cup Put
        /\ \A r \in Put : stored'[r] = ToDict(runs'[r])
        /\ \A r \in DOMAIN stored \ Put : stored'[r] = stored[r]
    BY <1>2 DEF SerializedNext
  <2>6. ASSUME NEW r \in RunIds
        PROVE  runs'[r] = IF r \in DOMAIN stored' THEN FromDict(stored'[r]) ELSE None
    <3>1. CASE r \in Put
      BY <2>1, <2>5, <3>1, PutShaped, RoundTrip DEF FileInv
    <3>2. CASE r \notin Put
      BY <2>5, <3>2 DEF Put, FileInv, ReadsBack, View
    <3> QED
      BY <3>1, <3>2
  <2>7. ReadsBack'
    BY <2>1, <2>6 DEF ReadsBack, View, KindsOfStep
  <2> QED
    BY <2>3, <2>4, <2>5, <2>7 DEF FileInv
<1> QED
  BY <1>1, <1>2

\* What a handler puts is what the next one reads, in any mix of records old
\* and new versions wrote (to_dict, from_dict).
THEOREM PutsReadBack == SerializedSpec => []ReadsBack
<1>1. FileInv => ReadsBack
  BY DEF FileInv
<1> QED
  BY <1>1, FileInvInitially, FileInvStep, PTL DEF SerializedSpec

-----------------------------------------------------------------------------
(* No default of from_dict accepts a run.                                  *)

LEMMA PassingGateOnFile ==
    ASSUME NEW gate, GateFromDict(gate) \in GateStatus \ {"fail", "not_run"}
    PROVE  PassedOnFile(gate)
<1>1. CASE "status" \in DOMAIN gate
  BY <1>1 DEF GateFromDict, Get, PassedOnFile, GateStatus
<1>2. CASE "status" \notin DOMAIN gate
  <2>1. Get(gate, "passed", FALSE)
    BY <1>2 DEF GateFromDict, Get
  <2>2. gate.passed
    BY <2>1 DEF Get
  <2> QED
    BY <1>2, <2>2 DEF PassedOnFile
<1> QED
  BY <1>1, <1>2

LEMMA AcceptedOnFileByStep ==
    ASSUME FileInv, [SerializedNext]_serialized_vars
    PROVE  AcceptedOnFileStep \/ UNCHANGED serialized_vars
<1> SUFFICES ASSUME SerializedNext PROVE AcceptedOnFileStep
  OBVIOUS
<1> SUFFICES ASSUME NEW r \in Registered,
                    runs[r].status \notin Accepted, runs'[r].status \in Accepted,
                    NEW g \in runs[r].contract.gates
             PROVE  LET gates == Get(stored[r], "gates", <<>>)
                    IN  g \in DOMAIN gates /\ PassedOnFile(gates[g])
  BY DEF AcceptedOnFileStep
<1> DEFINE gates == Get(stored[r], "gates", <<>>)
<1>1. r \in RunIds
  BY DEF Registered
<1>2. Keeps(r)
  <2>1. KindsOfStep
    BY FileStepKinds DEF SerializedNext, FileInv
  <2> QED
    BY <1>1, <2>1 DEF KindsOfStep, Leaves, Enters, Register
<1>3. Complete(runs[r].contract, runs[r].evidence)
  BY <1>2 DEF Keeps
<1>4. runs[r].evidence.gates = GatesFromDict(gates)
  <2>1. runs[r] = FromDict(stored[r])
    BY <1>1 DEF FileInv, ReadsBack, View, Registered
  <2> QED
    BY <2>1 DEF FromDict
<1>5. g \in GateNames /\ runs[r].evidence.gates \in [GateNames -> GateStatus \cup {None}]
  BY DEF FileInv, LedgerShape, Shaped, ContractShape, EvidenceShape
<1>6. runs[r].evidence.gates[g] \in GateStatus \ {"fail", "not_run"}
  BY <1>3, <1>5 DEF Complete
<1> HIDE DEF gates
<1>7. runs[r].evidence.gates[g] =
        IF g \in DOMAIN gates THEN GateFromDict(gates[g]) ELSE None
  BY <1>4, <1>5 DEF GatesFromDict
<1>8. g \in DOMAIN gates
  BY <1>6, <1>7, NoneAssumption
<1> QED
  BY <1>6, <1>7, <1>8, PassingGateOnFile DEF gates

\* A run is only accepted on gates the file itself says passed, in whichever
\* form a version wrote them (from_dict, verify, approve).
THEOREM AcceptedOnWrittenGates == SerializedSpec => AcceptedOnFile
<1>1. FileInv /\ [SerializedNext]_serialized_vars => [AcceptedOnFileStep]_serialized_vars
  BY AcceptedOnFileByStep
<1> QED
  BY <1>1, FileInvInitially, FileInvStep, PTL DEF SerializedSpec, AcceptedOnFile

-----------------------------------------------------------------------------
(* A run without recorded requirements stands alone.  A new run has        *)
(* requirements, so it is no legacy run, nor an attempt at the contract of *)
(* one; and register refuses it beside one without a note.                 *)

Apart(r, x) ==
    /\ runs[x].retry_of # r
    /\ ~IsLegacy(x) /\ runs[x].contract.task = runs[r].contract.task =>
           runs[x].migration_note

LegacyApart == \A r, x \in Registered : r # x /\ IsLegacy(r) => Apart(r, x)

LEMMA LegacyNeverCompares ==
    ASSUME NEW r \in Registered, NEW x \in Registered, IsLegacy(r)
    PROVE  ~ComparisonPasses(Loaded({r, x}))
<1>1. /\ r \in DOMAIN Loaded({r, x})
      /\ Loaded({r, x})[r].contract.requirements = LEGACY_REQUIREMENTS_HASH
  BY DEF IsLegacy, Loaded
<1> QED
  BY <1>1 DEF ComparisonPasses, Comparable

LEMMA LegacyApartInitially == SerializedInit => LegacyApart
<1> SUFFICES ASSUME SerializedInit PROVE LegacyApart
  OBVIOUS
<1>1. ASSUME NEW r \in Registered PROVE IsLegacy(r) /\ runs[r].retry_of = None
  <2>1. r \in DOMAIN stored /\ runs[r] = FromDict(stored[r])
    BY <1>1 DEF SerializedInit, View, Registered
  <2>2. stored[r] \in LegacyRecords
    BY <2>1 DEF SerializedInit
  <2> QED
    BY <2>1, <2>2, LegacyAssumption DEF IsLegacy
<1>2. \A r \in Registered : r # None
  BY NoneAssumption DEF Registered
<1> QED
  BY <1>1, <1>2 DEF LegacyApart, Apart

LEMMA LegacyApartStep ==
    ASSUME LedgerShape, LegacyApart, [Next]_vars
    PROVE  LegacyApart'
<1>1. KindsOfStep
  BY FileStepKinds
<1>2. \A r \in Registered : r \in RunIds
  BY DEF Registered
<1>3. ASSUME NEW r \in Registered', NEW x \in Registered', r # x, IsLegacy(r)'
      PROVE  Apart(r, x)'
  <2>1. r \in RunIds /\ x \in RunIds /\ None \notin RunIds
    BY NoneAssumption DEF Registered
  <2>2. r \in Registered /\ runs'[r].contract = runs[r].contract /\ IsLegacy(r)
    <3>1. CASE Enters(r)
      <4>1. runs'[r].contract.requirements # LEGACY_REQUIREMENTS_HASH
        BY <2>1, <3>1 DEF Enters, Register, LedgerShape
      <4> QED
        BY <1>3, <4>1 DEF IsLegacy
    <3>2. CASE Leaves(r) \/ Keeps(r)
      BY <1>3, <3>2 DEF Leaves, Keeps, Registered, IsLegacy
    <3> QED
      BY <1>1, <2>1, <3>1, <3>2 DEF KindsOfStep
  <2>3. CASE Leaves(x) \/ Keeps(x)
    <3>1. /\ x \in Registered
          /\ runs'[x].contract = runs[x].contract
          /\ runs'[x].retry_of = runs[x].retry_of
          /\ runs'[x].migration_note = runs[x].migration_note
      BY <1>3, <2>3 DEF Leaves, Keeps, Registered
    <3>2. Apart(r, x)
      BY <1>3, <2>2, <3>1 DEF LegacyApart
    <3> QED
      BY <2>2, <3>1, <3>2 DEF Apart, IsLegacy
  <2>4. CASE Enters(x)
    <3>1. PICK c \in Contracts, parent \in RunIds \cup {None}, note \in BOOLEAN :
             Register(x, c, parent, note)
      BY <2>4 DEF Enters
    <3>2. /\ runs'[x].contract = c
          /\ runs'[x].retry_of = parent
          /\ runs'[x].migration_note = note
      BY <2>1, <3>1 DEF Register, LedgerShape
    <3>3. /\ c.requirements # LEGACY_REQUIREMENTS_HASH
          /\ RetryAllowed(c, parent)
          /\ MigrationAllowed(c, note)
      BY <3>1 DEF Register
    <3>4. parent # r
      BY <2>1, <2>2, <3>3 DEF RetryAllowed, SameContract, ContractFields, IsLegacy
    <3>5. c.task = runs[r].contract.task => note
      BY <2>2, <3>3 DEF MigrationAllowed, IsLegacy
    <3> QED
      BY <2>2, <3>2, <3>4, <3>5 DEF Apart
  <2> QED
    BY <1>1, <2>1, <2>3, <2>4 DEF KindsOfStep
<1> QED
  BY <1>3 DEF LegacyApart

\* A run whose requirements were never recorded passes no comparison, gets no
\* retry, and later runs of its task carry a note (compare, register).
THEOREM LegacyRunsStandAlone == SerializedSpec => []LegacyStandsAlone
<1>1. LegacyApart => LegacyStandsAlone
  BY LegacyNeverCompares DEF LegacyApart, LegacyStandsAlone, Apart
<1>2. LedgerShape /\ LegacyApart /\ [SerializedNext]_serialized_vars => LegacyApart'
  BY LegacyApartStep DEF SerializedNext, serialized_vars
<1>3. FileInv => LedgerShape
  BY DEF FileInv
<1> QED
  BY <1>1, <1>2, <1>3, FileInvInitially, FileInvStep, LegacyApartInitially, PTL
     DEF SerializedSpec
=============================================================================
