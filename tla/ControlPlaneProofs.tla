------------------------- MODULE ControlPlaneProofs -------------------------
(***************************************************************************)
(* Proofs about ControlPlane for every value of its constants.             *)
(***************************************************************************)
EXTENDS ControlPlane, SequenceTheorems, TLAPS

-----------------------------------------------------------------------------
(* Type correctness.                                                       *)

LEMMA RecentType ==
    ASSUME NEW s \in Seq(EventActions)
    PROVE  Recent(s) \in Seq(EventActions)
<1> DEFINE m == IF Len(s) > TrailLen THEN Len(s) - TrailLen + 1 ELSE 1
<1>1. TrailLen \in Nat /\ Len(s) \in Nat
  BY InputAssumption
<1>2. m \in Int /\ m >= 1
  BY <1>1
<1>3. \A i \in m .. Len(s) : s[i] \in EventActions
  BY <1>1, <1>2
<1>4. SubSeq(s, m, Len(s)) \in Seq(EventActions)
  BY <1>1, <1>2, <1>3, SubSeqProperties
<1> QED
  BY <1>4 DEF Recent

LEMMA LogType ==
    ASSUME TypeOK, NEW r \in RunIds, NEW acts \in Seq(EventActions), Log(r, acts)
    PROVE  trail' \in [RunIds -> Seq(EventActions)]
<1>1. trail[r] \o acts \in Seq(EventActions)
  BY ConcatProperties DEF TypeOK
<1>2. Recent(trail[r] \o acts) \in Seq(EventActions)
  BY <1>1, RecentType
<1>3. trail' = [trail EXCEPT ![r] = Recent(trail[r] \o acts)]
  BY DEF Log, TypeOK
<1> QED
  BY <1>2, <1>3 DEF TypeOK

LEMMA LogOneType ==
    ASSUME TypeOK, NEW r \in RunIds, NEW act \in EventActions, Log(r, <<act>>)
    PROVE  trail' \in [RunIds -> Seq(EventActions)]
<1>1. <<act>> \in Seq(EventActions)
  OBVIOUS
<1> QED
  BY <1>1, LogType

\* Updating one record of the ledger with a well-formed one.
LEMMA RegisteredType ==
    ASSUME TypeOK, NEW r \in Registered
    PROVE  /\ r \in RunIds
           /\ runs[r] \in RunRecord
           /\ runs[r].evidence \in Evidence
BY DEF TypeOK, Registered, RunRecord

LEMMA AmendType ==
    ASSUME TypeOK, NEW r \in RunIds, NEW e \in Evidence, NEW act \in EventActions,
           Amend(r, e, act)
    PROVE  /\ runs' \in [RunIds -> RunRecord \cup {None}]
           /\ trail' \in [RunIds -> Seq(EventActions)]
<1>1. runs[r] \in RunRecord
  BY RegisteredType DEF Amend, Mutable
<1>2. [runs[r] EXCEPT !.evidence = e, !.status = "running"] \in RunRecord
  BY <1>1 DEF RunRecord, RunStatus
<1>3. runs' = [runs EXCEPT ![r] = [runs[r] EXCEPT !.evidence = e, !.status = "running"]]
  BY DEF Amend, TypeOK
<1>4. runs' \in [RunIds -> RunRecord \cup {None}]
  BY <1>2, <1>3 DEF TypeOK
<1>5. trail' \in [RunIds -> Seq(EventActions)]
  BY LogOneType DEF Amend
<1> QED
  BY <1>4, <1>5

LEMMA VerdictType ==
    ASSUME TypeOK, NEW r \in Registered, Verdict(r)
    PROVE  /\ runs' \in [RunIds -> RunRecord \cup {None}]
           /\ trail' \in [RunIds -> Seq(EventActions)]
<1>1. runs[r] \in RunRecord /\ r \in RunIds
  BY RegisteredType
<1>2. PICK s \in {"verified", "failed"}, act \in EventActions :
         /\ runs' = [runs EXCEPT ![r].status = s]
         /\ Log(r, <<act>>)
  BY DEF Verdict, EventActions
<1>3. [runs[r] EXCEPT !.status = s] \in RunRecord
  BY <1>1, <1>2 DEF RunRecord, RunStatus
<1>4. runs' = [runs EXCEPT ![r] = [runs[r] EXCEPT !.status = s]]
  BY <1>1, <1>2 DEF TypeOK
<1>5. runs' \in [RunIds -> RunRecord \cup {None}]
  BY <1>1, <1>3, <1>4 DEF TypeOK
<1>6. trail' \in [RunIds -> Seq(EventActions)]
  BY <1>1, <1>2, LogOneType
<1> QED
  BY <1>5, <1>6

\* The record_* handlers that run wholly under the lock.
Records(r) ==
    \/ \E g \in GateNames, s \in GateInputs : RecordGate(r, g, s)
    \/ \E h \in ResultHashes : SetResultHash(r, h)
    \/ \E x \in OutcomeInputs : RecordOutcome(r, x)
    \/ \E m \in MeasurementNames : RecordMeasurement(r, m)
    \/ \E k \in RiskNames : RecordResidualRisk(r, k)

LEMMA RecordsAmend ==
    ASSUME TypeOK, NEW r \in RunIds, Records(r)
    PROVE  /\ \E e \in Evidence, act \in EventActions : Amend(r, e, act)
           /\ UNCHANGED <<files, pending>>
<1> DEFINE Goal == /\ \E e \in Evidence, act \in EventActions : Amend(r, e, act)
                   /\ UNCHANGED <<files, pending>>
<1>1. ASSUME NEW g \in GateNames, NEW s \in GateInputs, RecordGate(r, g, s)
      PROVE  Goal
  <2>1. runs[r].evidence \in Evidence
    BY <1>1, RegisteredType DEF RecordGate, Amend, Mutable
  <2>2. [runs[r].evidence EXCEPT !.gates[g] = s] \in Evidence
    BY <2>1, InputAssumption DEF Evidence
  <2> QED
    BY <1>1, <2>2 DEF RecordGate, EventActions
<1>2. ASSUME NEW h \in ResultHashes, SetResultHash(r, h)
      PROVE  Goal
  <2>1. runs[r].evidence \in Evidence
    BY <1>2, RegisteredType DEF SetResultHash, Amend, Mutable
  <2>2. [runs[r].evidence EXCEPT !.result_hash = h] \in Evidence
    BY <2>1 DEF Evidence
  <2> QED
    BY <1>2, <2>2 DEF SetResultHash, EventActions
<1>3. ASSUME NEW x \in OutcomeInputs, RecordOutcome(r, x)
      PROVE  Goal
  <2>1. runs[r].evidence \in Evidence
    BY <1>3, RegisteredType DEF RecordOutcome, Amend, Mutable
  <2>2. [runs[r].evidence EXCEPT !.outcome = x] \in Evidence
    BY <2>1, InputAssumption DEF Evidence
  <2> QED
    BY <1>3, <2>2 DEF RecordOutcome, EventActions
<1>4. ASSUME NEW m \in MeasurementNames, RecordMeasurement(r, m)
      PROVE  Goal
  <2>1. runs[r].evidence \in Evidence
    BY <1>4, RegisteredType DEF RecordMeasurement, Amend, Mutable
  <2>2. [runs[r].evidence EXCEPT !.measurements = @ \cup {m}] \in Evidence
    BY <2>1 DEF Evidence
  <2> QED
    BY <1>4, <2>2 DEF RecordMeasurement, EventActions
<1>5. ASSUME NEW k \in RiskNames, RecordResidualRisk(r, k)
      PROVE  Goal
  <2>1. runs[r].evidence \in Evidence
    BY <1>5, RegisteredType DEF RecordResidualRisk, Amend, Mutable
  <2>2. [runs[r].evidence EXCEPT !.residual_risks = @ \cup {k}] \in Evidence
    BY <2>1 DEF Evidence
  <2> QED
    BY <1>5, <2>2 DEF RecordResidualRisk, EventActions
<1> QED
  BY <1>1, <1>2, <1>3, <1>4, <1>5 DEF Records

LEMMA StoreAmends ==
    ASSUME TypeOK, NEW w \in Recorders, StoreReceipt(w)
    PROVE  \/ UNCHANGED <<runs, trail>>
           \/ \E r \in RunIds, e \in Evidence, act \in EventActions : Amend(r, e, act)
<1>1. /\ pending[w].run \in RunIds
      /\ pending[w].name \in ArtifactNames
      /\ pending[w].receipt \in Receipt
  BY DEF StoreReceipt, TypeOK, PendingReceipt
<1> DEFINE r == pending[w].run
           e == [runs[r].evidence EXCEPT !.artifacts[pending[w].name] =
                   pending[w].receipt]
<1>2. CASE Amend(r, e, "artifact")
  <2>1. runs[r].evidence \in Evidence
    BY <1>2, RegisteredType DEF Amend, Mutable
  <2>2. e \in Evidence
    BY <1>1, <2>1 DEF Evidence
  <2> QED
    BY <1>1, <1>2, <2>2 DEF EventActions
<1>3. CASE UNCHANGED <<runs, trail>>
  BY <1>3
<1> QED
  BY <1>2, <1>3 DEF StoreReceipt

LEMMA NextTyped ==
    ASSUME TypeOK, [Next]_vars
    PROVE  TypeOK'
<1>1. ASSUME NEW r \in RunIds, NEW c \in Contracts,
             NEW parent \in RunIds \cup {None}, NEW note \in BOOLEAN,
             Register(r, c, parent, note)
      PROVE  TypeOK'
  <2>1. EmptyEvidence \in Evidence
    BY DEF EmptyEvidence, Evidence
  <2>2. runs' \in [RunIds -> RunRecord \cup {None}]
    BY <1>1, <2>1 DEF Register, TypeOK, RunRecord, RunStatus
  <2>3. trail' \in [RunIds -> Seq(EventActions)]
    BY <1>1, LogOneType DEF Register, EventActions
  <2> QED
    BY <1>1, <2>2, <2>3 DEF Register, TypeOK
<1>2. ASSUME NEW r \in RunIds, NEW o \in Owners, Claim(r, o)
      PROVE  TypeOK'
  <2>1. runs[r] \in RunRecord /\ runs[r].evidence \in Evidence
    BY <1>2, RegisteredType DEF Claim, Mutable
  <2>2. [runs[r] EXCEPT !.evidence.owner = o, !.status = "claimed"] \in RunRecord
    BY <2>1 DEF RunRecord, RunStatus, Evidence
  <2>3. runs' \in [RunIds -> RunRecord \cup {None}]
    BY <1>2, <2>2 DEF Claim, TypeOK
  <2>4. trail' \in [RunIds -> Seq(EventActions)]
    BY <1>2, LogOneType DEF Claim, EventActions
  <2> QED
    BY <1>2, <2>3, <2>4 DEF Claim, TypeOK
<1>3. ASSUME NEW r \in RunIds, Records(r)
      PROVE  TypeOK'
  BY <1>3, RecordsAmend, AmendType DEF TypeOK
<1>4. ASSUME NEW r \in RunIds, Verify(r)
      PROVE  TypeOK'
  BY <1>4, VerdictType DEF Verify, TypeOK
<1>5. ASSUME NEW r \in RunIds, NEW o \in Owners, Approve(r, o)
      PROVE  TypeOK'
  <2>1. runs[r] \in RunRecord /\ r \in Registered
    BY <1>5, RegisteredType DEF Approve, Mutable
  <2>2. CASE Passes(r)
    <3>1. [runs[r] EXCEPT !.status = "approved", !.approved_by = o] \in RunRecord
      BY <2>1 DEF RunRecord, RunStatus
    <3>2. runs' \in [RunIds -> RunRecord \cup {None}]
      BY <1>5, <2>2, <3>1 DEF Approve, TypeOK
    <3>3. trail' \in [RunIds -> Seq(EventActions)]
      BY <1>5, <2>2, LogType DEF Approve, EventActions
    <3> QED
      BY <1>5, <3>2, <3>3 DEF Approve, TypeOK
  <2>3. CASE ~Passes(r)
    BY <1>5, <2>1, <2>3, VerdictType DEF Approve, TypeOK
  <2> QED
    BY <2>2, <2>3
<1>6. ASSUME NEW r \in RunIds, Submit(r)
       PROVE  TypeOK'
  <2>1. runs[r] \in RunRecord /\ r \in Registered
    BY <1>6, RegisteredType DEF Submit
  <2>2. CASE Passes(r)
    <3>1. [runs[r] EXCEPT !.status = "submitted"] \in RunRecord
      BY <2>1 DEF RunRecord, RunStatus
    <3>2. runs' \in [RunIds -> RunRecord \cup {None}]
      BY <1>6, <2>2, <3>1 DEF Submit, TypeOK
    <3>3. <<"submit_verify", "submitted">> \in Seq(EventActions)
      BY DEF EventActions
    <3>4. trail' \in [RunIds -> Seq(EventActions)]
      BY <1>6, <2>2, <3>3, LogType DEF Submit
    <3> QED
      BY <1>6, <3>2, <3>4 DEF Submit, TypeOK
  <2>3. CASE ~Passes(r)
    BY <1>6, <2>1, <2>3, VerdictType DEF Submit, TypeOK
  <2> QED
    BY <2>2, <2>3
<1>7. ASSUME NEW w \in Recorders, NEW r \in RunIds, NEW n \in ArtifactNames,
              NEW p \in Paths, HashArtifact(w, r, n, p)
       PROVE  TypeOK'
  <2>1. files[p] \in Contents
    BY <1>7 DEF HashArtifact, TypeOK
  <2>2. [run |-> r, name |-> n, receipt |-> [path |-> p, sha256 |-> files[p]]]
           \in PendingReceipt
    BY <2>1 DEF PendingReceipt, Receipt
  <2> QED
    BY <1>7, <2>2 DEF HashArtifact, TypeOK
<1>8. ASSUME NEW w \in Recorders, StoreReceipt(w)
       PROVE  TypeOK'
  BY <1>8, StoreAmends, AmendType DEF StoreReceipt, TypeOK
<1>9. ASSUME NEW p \in Paths, NEW c \in Contents \cup {None}, EditFile(p, c)
       PROVE  TypeOK'
  BY <1>9 DEF EditFile, TypeOK
<1>10. CASE UNCHANGED vars
  BY <1>10 DEF vars, TypeOK
<1> QED
  BY <1>1, <1>2, <1>3, <1>4, <1>5, <1>6, <1>7, <1>8, <1>9, <1>10
     DEF Next, Records

\* Type correctness: every handler leaves a well-formed ledger, and a receipt
\* in flight always holds a digest of an existing file.
THEOREM TypeCorrect == Spec => []TypeOK
<1>1. Init => TypeOK
  BY DEF Init, TypeOK
<1>2. TypeOK /\ [Next]_vars => TypeOK'
  BY NextTyped
<1> QED
  BY <1>1, <1>2, PTL DEF Spec

-----------------------------------------------------------------------------
(* The steps of the ledger fall into three kinds.  A run is registered, or  *)
(* its evidence is revised, or it is judged.                               *)

\* Only run r's record changes, and not its contract or its lineage.
KeepsContract(r) ==
    /\ r \in Registered
    /\ runs' \in [RunIds -> RunRecord \cup {None}]
    /\ \A x \in RunIds \ {r} : runs'[x] = runs[x]
    /\ runs'[r] # None
    /\ runs'[r].contract = runs[r].contract
    /\ runs'[r].retry_of = runs[r].retry_of
    /\ runs'[r].migration_note = runs[r].migration_note

Revises(r) ==
    /\ KeepsContract(r)
    /\ Mutable(r)
    /\ runs'[r].status \in {"claimed", "running"}

Judges(r) ==
    /\ KeepsContract(r)
    /\ runs'[r].evidence = runs[r].evidence
    /\ runs[r].status # "submitted"
    /\ runs'[r].status \in Accepted \cup {"failed"}
    /\ runs'[r].status \in Accepted =>
          Complete(runs[r].contract, runs[r].evidence)
    /\ runs'[r].status = "approved" => Mutable(r) /\ runs'[r].approved_by # None
    /\ runs'[r].status = "submitted" =>
          runs[r].status = "approved" /\ runs'[r].approved_by = runs[r].approved_by
    /\ runs[r].status = "approved" => runs'[r].status \in {"submitted", "failed"}

Enters(r) ==
    \E c \in Contracts, parent \in RunIds \cup {None}, note \in BOOLEAN :
        Register(r, c, parent, note)

LEMMA AmendRevises ==
    ASSUME TypeOK, NEW r \in RunIds, NEW e \in Evidence, NEW act \in EventActions,
           Amend(r, e, act)
    PROVE  Revises(r)
<1>1. r \in Registered /\ runs[r] \in RunRecord
  BY RegisteredType DEF Amend, Mutable
<1>2. runs' = [runs EXCEPT ![r] = [runs[r] EXCEPT !.evidence = e, !.status = "running"]]
  BY DEF Amend, TypeOK
<1>3. runs'[r] = [runs[r] EXCEPT !.evidence = e, !.status = "running"]
  BY <1>2 DEF TypeOK
<1>4. \A x \in RunIds \ {r} : runs'[x] = runs[x]
  BY <1>2 DEF TypeOK
<1>5. /\ runs'[r].contract = runs[r].contract
      /\ runs'[r].retry_of = runs[r].retry_of
      /\ runs'[r].migration_note = runs[r].migration_note
      /\ runs'[r].status = "running"
      /\ runs'[r] \in RunRecord
  BY <1>1, <1>3 DEF RunRecord, RunStatus
<1>6. runs' \in [RunIds -> RunRecord \cup {None}]
  BY AmendType
<1>7. KeepsContract(r)
  BY <1>1, <1>4, <1>5, <1>6, NoneAssumption DEF KeepsContract
<1> QED
  BY <1>5, <1>7 DEF Revises, Amend

LEMMA VerdictJudges ==
    ASSUME TypeOK, NEW r \in Registered, Verdict(r), runs[r].status # "submitted",
           runs[r].status = "approved" => ~Passes(r)
    PROVE  Judges(r)
<1>1. r \in RunIds /\ runs[r] \in RunRecord
  BY RegisteredType
<1>2. PICK s \in {"verified", "failed"} :
         /\ runs' = [runs EXCEPT ![r].status = s]
         /\ s = "verified" => Passes(r)
         /\ Passes(r) => s = "verified"
  BY DEF Verdict
<1>3. runs' = [runs EXCEPT ![r] = [runs[r] EXCEPT !.status = s]]
  BY <1>1, <1>2 DEF TypeOK
<1>4. /\ runs'[r] = [runs[r] EXCEPT !.status = s]
      /\ \A x \in RunIds \ {r} : runs'[x] = runs[x]
  BY <1>1, <1>3 DEF TypeOK
<1>5. /\ runs'[r].contract = runs[r].contract
      /\ runs'[r].retry_of = runs[r].retry_of
      /\ runs'[r].migration_note = runs[r].migration_note
      /\ runs'[r].evidence = runs[r].evidence
      /\ runs'[r].status = s
      /\ runs'[r] \in RunRecord
  BY <1>1, <1>4 DEF RunRecord, RunStatus
<1>6. runs' \in [RunIds -> RunRecord \cup {None}]
  BY VerdictType
<1>7. KeepsContract(r)
  BY <1>4, <1>5, <1>6, NoneAssumption DEF KeepsContract
<1>8. s = "verified" => Complete(runs[r].contract, runs[r].evidence)
  BY <1>2 DEF Passes
<1> QED
  BY <1>2, <1>5, <1>7, <1>8 DEF Judges, Accepted

LEMMA StepKinds ==
    ASSUME TypeOK, [Next]_vars
    PROVE  \/ UNCHANGED runs
           \/ \E r \in RunIds : Enters(r) \/ Revises(r) \/ Judges(r)
<1> DEFINE Goal == \/ UNCHANGED runs
                   \/ \E r \in RunIds : Enters(r) \/ Revises(r) \/ Judges(r)
<1>1. ASSUME NEW r \in RunIds, Enters(r)
      PROVE  Goal
  BY <1>1
<1>2. ASSUME NEW r \in RunIds, NEW o \in Owners, Claim(r, o)
      PROVE  Goal
  <2> DEFINE rec == [runs[r] EXCEPT !.evidence.owner = o, !.status = "claimed"]
  <2>1. runs[r] \in RunRecord /\ runs[r].evidence \in Evidence /\ r \in Registered
    BY <1>2, RegisteredType DEF Claim, Mutable
  <2>2. /\ rec \in RunRecord
        /\ rec.contract = runs[r].contract
        /\ rec.retry_of = runs[r].retry_of
        /\ rec.migration_note = runs[r].migration_note
        /\ rec.status = "claimed"
    BY <2>1 DEF RunRecord, RunStatus, Evidence
  <2>3. runs' = [runs EXCEPT ![r] = rec]
    BY <1>2 DEF Claim, TypeOK
  <2> HIDE DEF rec
  <2>4. KeepsContract(r)
    BY <2>1, <2>2, <2>3, NoneAssumption DEF KeepsContract, TypeOK
  <2>5. Revises(r)
    BY <1>2, <2>2, <2>3, <2>4 DEF Revises, Claim, TypeOK
  <2> QED
    BY <2>5
<1>3. ASSUME NEW r \in RunIds, Records(r)
      PROVE  Goal
  BY <1>3, RecordsAmend, AmendRevises
<1>4. ASSUME NEW r \in RunIds, Verify(r)
      PROVE  Goal
  <2>1. Judges(r)
    BY <1>4, VerdictJudges DEF Verify, Sealed
  <2> QED
    BY <2>1
<1>5. ASSUME NEW r \in RunIds, NEW o \in Owners, Approve(r, o)
      PROVE  Goal
  <2>1. runs[r] \in RunRecord /\ r \in Registered /\ Mutable(r)
    BY <1>5, RegisteredType DEF Approve, Mutable
  <2>2. CASE Passes(r)
    <3> DEFINE rec == [runs[r] EXCEPT !.status = "approved", !.approved_by = o]
    <3>1. /\ rec \in RunRecord
          /\ rec.contract = runs[r].contract
          /\ rec.retry_of = runs[r].retry_of
          /\ rec.migration_note = runs[r].migration_note
          /\ rec.evidence = runs[r].evidence
          /\ rec.status = "approved"
          /\ rec.approved_by = o
      BY <2>1 DEF RunRecord, RunStatus
    <3>2. runs' = [runs EXCEPT ![r] = rec]
      BY <1>5, <2>2 DEF Approve, TypeOK
    <3> HIDE DEF rec
    <3>3. KeepsContract(r)
      BY <2>1, <3>1, <3>2, NoneAssumption DEF KeepsContract, TypeOK
    <3>4. runs'[r] = rec
      BY <3>2 DEF TypeOK
    <3>5. Judges(r)
      BY <2>1, <2>2, <3>1, <3>3, <3>4, NoneAssumption
         DEF Judges, Passes, Accepted, Mutable, Sealed
    <3> QED
      BY <3>5
  <2>3. CASE ~Passes(r)
    BY <1>5, <2>1, <2>3, VerdictJudges DEF Approve, Mutable, Sealed
  <2> QED
    BY <2>2, <2>3
<1>6. ASSUME NEW r \in RunIds, Submit(r)
      PROVE  Goal
  <2>1. runs[r] \in RunRecord /\ r \in Registered
    BY <1>6, RegisteredType DEF Submit
  <2>2. CASE Passes(r)
    <3> DEFINE rec == [runs[r] EXCEPT !.status = "submitted"]
    <3>1. /\ rec \in RunRecord
          /\ rec.contract = runs[r].contract
          /\ rec.retry_of = runs[r].retry_of
          /\ rec.migration_note = runs[r].migration_note
          /\ rec.evidence = runs[r].evidence
          /\ rec.approved_by = runs[r].approved_by
          /\ rec.status = "submitted"
      BY <2>1 DEF RunRecord, RunStatus
    <3>2. runs' = [runs EXCEPT ![r] = rec]
      BY <1>6, <2>2 DEF Submit, TypeOK
    <3> HIDE DEF rec
    <3>3. KeepsContract(r)
      BY <2>1, <3>1, <3>2, NoneAssumption DEF KeepsContract, TypeOK
    <3>4. runs'[r] = rec
      BY <3>2 DEF TypeOK
    <3>5. Judges(r)
      BY <1>6, <2>2, <3>1, <3>3, <3>4 DEF Judges, Passes, Accepted, Submit
    <3> QED
      BY <3>5
  <2>3. CASE ~Passes(r)
    BY <1>6, <2>1, <2>3, VerdictJudges DEF Submit
  <2> QED
    BY <2>2, <2>3
<1>7. ASSUME NEW w \in Recorders, StoreReceipt(w)
      PROVE  Goal
  BY <1>7, StoreAmends, AmendRevises
<1>8. ASSUME \/ UNCHANGED vars
             \/ \E w \in Recorders, r \in RunIds, n \in ArtifactNames, p \in Paths :
                   HashArtifact(w, r, n, p)
             \/ \E p \in Paths, c \in Contents \cup {None} : EditFile(p, c)
      PROVE  Goal
  BY <1>8 DEF vars, HashArtifact, EditFile
<1> QED
  BY <1>1, <1>2, <1>3, <1>4, <1>5, <1>6, <1>7, <1>8 DEF Next, Records, Enters

-----------------------------------------------------------------------------
(* The inductive invariant.  RetriedNotAccepted is what makes it one: a    *)
(* retried run keeps its retryable outcome (RetryLineage), so it is not    *)
(* complete and no judgement can accept it (EvidenceComplete).             *)

Inv ==
    /\ TypeOK
    /\ EvidenceComplete
    /\ RetryLineage
    /\ RetriedNotAccepted
    /\ MigrationsNoted

LEMMA RetryableBlocks ==
    ASSUME NEW contract, NEW evidence, evidence.outcome \in RETRYABLE_OUTCOMES
    PROVE  ~Complete(contract, evidence)
BY DEF Complete, RETRYABLE_OUTCOMES

LEMMA RetriedIsRetryable ==
    ASSUME RetryLineage, NEW r \in RunIds, Retried(r), NoneAssumption
    PROVE  /\ r \in Registered
           /\ runs[r].evidence.outcome \in RETRYABLE_OUTCOMES
BY DEF RetryLineage, Retried

LEMMA EnterPreserves ==
    ASSUME Inv, NEW r \in RunIds, Enters(r), TypeOK'
    PROVE  Inv'
<1>1. PICK c \in Contracts, parent \in RunIds \cup {None}, note \in BOOLEAN :
         Register(r, c, parent, note)
  BY DEF Enters
<1> DEFINE rec == runs'[r]
<1>2. /\ r \notin Registered
      /\ \A x \in RunIds \ {r} : runs'[x] = runs[x]
      /\ rec.contract = c
      /\ rec.retry_of = parent
      /\ rec.migration_note = note
      /\ rec.status = "registered"
  BY <1>1 DEF Register, Inv, TypeOK
<1>3. rec # None
  <2>1. runs'[r] = [contract |-> c, retry_of |-> parent, migration_note |-> note,
                    status |-> "registered", approved_by |-> None,
                    evidence |-> EmptyEvidence]
    BY <1>1 DEF Register, Inv, TypeOK
  <2>2. runs'[r] \in RunRecord
    BY <2>1 DEF RunRecord, RunStatus, Evidence, EmptyEvidence
  <2> QED
    BY <2>2, NoneAssumption
<1>4. Registered' = Registered \cup {r}
  BY <1>2, <1>3 DEF Registered
<1>5. \A x \in Registered : x \in RunIds \ {r} /\ runs'[x] = runs[x]
  BY <1>2 DEF Registered
<1>6. RetryAllowed(c, parent) /\ MigrationAllowed(c, note)
  BY <1>1 DEF Register
<1> HIDE DEF rec
<1>7. EvidenceComplete'
  BY <1>2, <1>4, <1>5 DEF Inv, EvidenceComplete, Accepted, Sealed, rec
<1>8. RetryLineage'
  <2>1. ASSUME NEW x \in Registered, runs[x].retry_of # None
        PROVE  runs[x].retry_of \in Registered /\ runs[x].retry_of # parent
    BY <1>6, <2>1 DEF Inv, RetryLineage, RetryAllowed, Retried
  <2> QED
    BY <1>2, <1>4, <1>5, <1>6, <2>1
       DEF Inv, RetryLineage, RetryAllowed, Retried, rec, SameContract
<1>9. RetriedNotAccepted'
  <2>1. ASSUME NEW x \in Registered, x = parent
        PROVE  runs[x].status \notin Accepted
    BY <1>6, <2>1, RetryableBlocks, NoneAssumption
       DEF RetryAllowed, Inv, EvidenceComplete, Registered
  <2> QED
    BY <1>2, <1>4, <1>5, <2>1
       DEF Inv, RetriedNotAccepted, Retried, Accepted, rec
<1>10. MigrationsNoted'
  BY <1>2, <1>4, <1>5, <1>6 DEF Inv, MigrationsNoted, MigrationAllowed, rec
<1> QED
  BY <1>7, <1>8, <1>9, <1>10 DEF Inv

\* What a step that keeps contracts does to the relations between runs.
LEMMA KeepsRelations ==
    ASSUME Inv, NEW r \in RunIds, KeepsContract(r),
           Retried(r) => runs'[r].evidence = runs[r].evidence
    PROVE  /\ Registered' = Registered
           /\ \A x \in Registered : Retried(x)' <=> Retried(x)
           /\ RetryLineage'
           /\ MigrationsNoted'
<1>1. Registered' = Registered
  BY DEF KeepsContract, Registered
<1>2. \A x \in Registered : /\ runs'[x].contract = runs[x].contract
                            /\ runs'[x].retry_of = runs[x].retry_of
                            /\ runs'[x].migration_note = runs[x].migration_note
  BY DEF KeepsContract, Registered
<1>3. \A x \in Registered : Retried(x)' <=> Retried(x)
  BY <1>1, <1>2 DEF Retried
<1>4. \A x \in Registered : Retried(x) => runs'[x].evidence = runs[x].evidence
  BY DEF KeepsContract, Registered
<1>5. RetryLineage'
  BY <1>1, <1>2, <1>4 DEF Inv, RetryLineage, Retried, SameContract
<1>6. MigrationsNoted'
  BY <1>1, <1>2 DEF Inv, MigrationsNoted
<1> QED
  BY <1>1, <1>3, <1>5, <1>6

LEMMA RevisePreserves ==
    ASSUME Inv, NEW r \in RunIds, Revises(r), TypeOK'
    PROVE  Inv'
<1>1. KeepsContract(r) /\ ~Retried(r)
  BY DEF Revises, Mutable
<1>2. /\ Registered' = Registered
      /\ \A x \in Registered : Retried(x)' <=> Retried(x)
      /\ RetryLineage'
      /\ MigrationsNoted'
  BY <1>1, KeepsRelations
<1>3. \A x \in Registered \ {r} : runs'[x] = runs[x]
  BY <1>1 DEF KeepsContract, Registered
<1>4. EvidenceComplete'
  BY <1>2, <1>3 DEF Inv, EvidenceComplete, Revises, Accepted, Sealed
<1>5. RetriedNotAccepted'
  BY <1>2, <1>3 DEF Inv, RetriedNotAccepted, Revises, Accepted
<1> QED
  BY <1>2, <1>4, <1>5 DEF Inv

LEMMA JudgePreserves ==
    ASSUME Inv, NEW r \in RunIds, Judges(r), TypeOK'
    PROVE  Inv'
<1>1. KeepsContract(r) /\ runs'[r].evidence = runs[r].evidence
  BY DEF Judges
<1>2. /\ Registered' = Registered
      /\ \A x \in Registered : Retried(x)' <=> Retried(x)
      /\ RetryLineage'
      /\ MigrationsNoted'
  BY <1>1, KeepsRelations
<1>3. /\ r \in Registered
      /\ runs'[r].contract = runs[r].contract
      /\ \A x \in Registered \ {r} : runs'[x] = runs[x]
  BY <1>1 DEF KeepsContract, Registered
<1>4. EvidenceComplete'
  <2>1. runs'[r].status \in Accepted =>
           Complete(runs'[r].contract, runs'[r].evidence)
    BY <1>1, <1>3 DEF Judges
  <2>2. runs'[r].status \in Sealed => runs'[r].approved_by # None
    BY <1>3 DEF Judges, Sealed, Inv, EvidenceComplete
  <2> QED
    BY <1>2, <1>3, <2>1, <2>2 DEF Inv, EvidenceComplete
<1>5. RetriedNotAccepted'
  <2>1. Retried(r) => runs'[r].status \notin Accepted
    BY RetriedIsRetryable, RetryableBlocks, NoneAssumption DEF Judges, Inv
  <2> QED
    BY <1>2, <1>3, <2>1 DEF Inv, RetriedNotAccepted
<1> QED
  BY <1>2, <1>4, <1>5 DEF Inv

\* Nothing is wrong with an empty ledger, whenever it is emptied.
LEMMA EmptyLedger ==
    ASSUME TypeOK, \A r \in RunIds : runs[r] = None
    PROVE  Inv
BY DEF Inv, EvidenceComplete, RetryLineage, RetriedNotAccepted, MigrationsNoted,
       Registered

LEMMA RunsKept ==
    ASSUME Inv, TypeOK', UNCHANGED runs
    PROVE  Inv'
BY DEF Inv, EvidenceComplete, RetryLineage, RetriedNotAccepted, MigrationsNoted,
       Registered, Retried

LEMMA NextPreserves ==
    ASSUME Inv, [Next]_vars
    PROVE  Inv'
<1>1. TypeOK'
  BY NextTyped DEF Inv
<1>2. ASSUME NEW r \in RunIds, Enters(r) \/ Revises(r) \/ Judges(r)
      PROVE  Inv'
  BY <1>1, <1>2, EnterPreserves, RevisePreserves, JudgePreserves
<1> QED
  BY <1>1, <1>2, StepKinds, RunsKept DEF Inv

LEMMA InvInductive == Spec => []Inv
<1>1. Init => Inv
  <2> SUFFICES ASSUME Init
               PROVE  Inv
    OBVIOUS
  <2>1. TypeOK /\ \A r \in RunIds : runs[r] = None
    BY DEF Init, TypeOK
  <2> QED
    BY <2>1, EmptyLedger
<1>2. Inv /\ [Next]_vars => Inv'
  BY NextPreserves
<1> QED
  BY <1>1, <1>2, PTL DEF Spec

\* A verified, approved or submitted run carries complete passing evidence:
\* verify, approve and submit judge it, and every record_* reopens the run.
THEOREM AcceptedIsComplete == Spec => []EvidenceComplete
<1>1. Inv => EvidenceComplete
  BY DEF Inv
<1> QED
  BY <1>1, InvInductive, PTL

\* Retries form pairs: one clean retry of one original that failed for a
\* retryable reason under the same contract, for any number of runs.
THEOREM RetriesArePairs == Spec => []RetryLineage
<1>1. Inv => RetryLineage
  BY DEF Inv
<1> QED
  BY <1>1, InvInductive, PTL

\* No retried run is ever verified, approved or submitted afterwards.
THEOREM RetriedNeverAccepted == Spec => []RetriedNotAccepted
<1>1. Inv => RetriedNotAccepted
  BY DEF Inv
<1> QED
  BY <1>1, InvInductive, PTL

\* Two requirements of one task never meet without a migration note.
THEOREM MigrationsAreNoted == Spec => []MigrationsNoted
<1>1. Inv => MigrationsNoted
  BY DEF Inv
<1> QED
  BY <1>1, InvInductive, PTL

LEMMA NextFreezes ==
    ASSUME Inv, [Next]_vars
    PROVE  FrozenStep
<1> SUFFICES ASSUME NEW x \in Registered
             PROVE  /\ runs'[x] # None
                    /\ runs'[x].contract = runs[x].contract
                    /\ runs[x].status \in Sealed \/ Retried(x) =>
                          runs'[x].evidence = runs[x].evidence
                    /\ runs[x].status = "submitted" => runs'[x] = runs[x]
  BY DEF FrozenStep
<1>1. CASE UNCHANGED runs
  BY <1>1 DEF Registered
<1>2. ASSUME NEW r \in RunIds, Enters(r)
      PROVE  runs'[x] = runs[x]
  BY <1>2 DEF Enters, Register, Inv, TypeOK, Registered
<1>3. ASSUME NEW r \in RunIds, Revises(r) \/ Judges(r), x # r
      PROVE  runs'[x] = runs[x]
  BY <1>3 DEF Revises, Judges, KeepsContract, Registered
<1>4. CASE Revises(x)
  BY <1>4 DEF Revises, KeepsContract, Mutable, Sealed
<1>5. CASE Judges(x)
  BY <1>5 DEF Judges, KeepsContract
<1> QED
  BY <1>1, <1>2, <1>3, <1>4, <1>5, StepKinds DEF Inv, Registered

\* The evidence of an approved, submitted or retried run never changes, not
\* even by a receipt that was computed before and arrives late.
THEOREM EvidenceIsFrozen == Spec => FrozenEvidence
<1>1. Inv /\ [Next]_vars => [FrozenStep]_vars
  BY NextFreezes
<1> QED
  BY <1>1, InvInductive, PTL DEF Spec, FrozenEvidence

-----------------------------------------------------------------------------
(* The refinement.                                                         *)

AbsPhase == [r \in RunIds |-> Phase(r)]
AbsPacket == [r \in RunIds |-> Packet(r)]

\* A registration is Enter or EnterAsRetry.
LEMMA EnterRefines ==
    ASSUME Inv, Inv', NEW r \in RunIds, Enters(r)
    PROVE  Abs!Next
<1>1. PICK c \in Contracts, parent \in RunIds \cup {None}, note \in BOOLEAN :
         Register(r, c, parent, note)
  BY DEF Enters
<1>2. /\ r \notin Registered
      /\ \A x \in RunIds \ {r} : runs'[x] = runs[x]
      /\ runs'[r].retry_of = parent
      /\ runs'[r].status = "registered"
      /\ RetryAllowed(c, parent)
  BY <1>1 DEF Register, Inv, TypeOK
<1>3. runs'[r] # None
  <2>1. runs'[r] = [contract |-> c, retry_of |-> parent, migration_note |-> note,
                    status |-> "registered", approved_by |-> None,
                    evidence |-> EmptyEvidence]
    BY <1>1 DEF Register, Inv, TypeOK
  <2>2. runs'[r] \in RunRecord
    BY <2>1 DEF RunRecord, RunStatus, Evidence, EmptyEvidence
  <2> QED
    BY <2>2, NoneAssumption
<1>4. Registered' = Registered \cup {r}
  BY <1>2, <1>3 DEF Registered
<1>5. \A x \in RunIds \ {r} : Packet(x)' = Packet(x)
  BY <1>2, <1>4 DEF Packet
<1>6. \A x \in RunIds \ {r} : Retried(x)' <=> Retried(x) \/ x = parent
  BY <1>2, <1>4 DEF Retried, Registered
<1>7. ~Retried(r)'
  <2>1. \A x \in Registered : runs[x].retry_of # r
    BY <1>2, NoneAssumption DEF Inv, RetryLineage
  <2>2. parent # r
    BY <1>2, NoneAssumption DEF RetryAllowed
  <2> QED
    BY <1>2, <1>4, <2>1, <2>2 DEF Retried, Registered
<1>8. Phase(r) = "absent" /\ Phase(r)' = "open"
  BY <1>2, <1>4, <1>7 DEF Phase, Sealed
<1>9. CASE parent = None
  <2>1. \A x \in RunIds \ {r} : Phase(x)' = Phase(x)
    BY <1>2, <1>4, <1>6, <1>9, NoneAssumption DEF Phase
  <2>2. AbsPhase' = [AbsPhase EXCEPT ![r] = "open"]
    BY <1>8, <2>1 DEF AbsPhase
  <2>3. Abs!Enter(r)
    BY <1>5, <1>8, <2>2 DEF Abs!Enter, Abs!OthersKeepPackets, AbsPhase
  <2> QED
    BY <2>3 DEF Abs!Next
<1>10. CASE parent # None
  <2>1. /\ parent \in Registered
        /\ ~Retried(parent)
        /\ runs[parent].evidence.outcome \in RETRYABLE_OUTCOMES
    BY <1>2, <1>10 DEF RetryAllowed
  <2>2. parent \in RunIds /\ parent # r
    BY <1>2, <2>1 DEF Registered
  <2>3. ~Complete(runs[parent].contract, runs[parent].evidence)
    BY <2>1, RetryableBlocks
  <2>4. runs[parent].status \notin Sealed
    BY <2>1, <2>3 DEF Inv, EvidenceComplete, Sealed, Accepted
  <2>5. Phase(parent) = "open"
    BY <2>1, <2>4 DEF Phase
  <2>6. Phase(parent)' = "superseded"
    BY <1>4, <1>6, <2>1, <2>2 DEF Phase
  <2>7. \A x \in RunIds \ {r, parent} : Phase(x)' = Phase(x)
    BY <1>2, <1>4, <1>6 DEF Phase
  <2>8. AbsPhase' = [AbsPhase EXCEPT ![r] = "open", ![parent] = "superseded"]
    BY <1>8, <2>2, <2>6, <2>7 DEF AbsPhase
  <2>9. ~Acceptable(Packet(parent))
    BY <2>1, <2>3 DEF Acceptable, Packet
  <2>10. Abs!EnterAsRetry(r, parent)
    BY <1>5, <1>8, <2>2, <2>5, <2>8, <2>9
       DEF Abs!EnterAsRetry, Abs!OthersKeepPackets, AbsPhase
  <2> QED
    BY <2>2, <2>10 DEF Abs!Next
<1> QED
  BY <1>9, <1>10

\* A revision of the evidence is Revise.
LEMMA ReviseRefines ==
    ASSUME Inv, Inv', NEW r \in RunIds, Revises(r)
    PROVE  Abs!Next
<1>1. /\ KeepsContract(r)
      /\ ~Retried(r)
      /\ runs[r].status \notin Sealed
      /\ runs'[r].status \notin Sealed
  BY DEF Revises, Mutable, Sealed
<1>2. /\ Registered' = Registered
      /\ \A x \in Registered : Retried(x)' <=> Retried(x)
  BY <1>1, KeepsRelations
<1>3. \A x \in RunIds : Phase(x)' = Phase(x)
  BY <1>1, <1>2 DEF Phase, KeepsContract
<1>4. AbsPhase' = AbsPhase
  BY <1>3 DEF AbsPhase
<1>5. Phase(r) = "open"
  BY <1>1 DEF Phase, KeepsContract
<1>6. \A x \in RunIds \ {r} : Packet(x)' = Packet(x)
  BY <1>1, <1>2 DEF Packet, KeepsContract
<1>7. Abs!Revise(r)
  BY <1>4, <1>5, <1>6 DEF Abs!Revise, Abs!OthersKeepPackets, AbsPhase
<1> QED
  BY <1>7 DEF Abs!Next

\* A judgement is Approve, Submit or SendBack, or changes nothing promised.
LEMMA JudgeRefines ==
    ASSUME Inv, Inv', NEW r \in RunIds, Judges(r)
    PROVE  [Abs!Next]_(Abs!vars)
<1>1. KeepsContract(r) /\ runs'[r].evidence = runs[r].evidence
  BY DEF Judges
<1>2. /\ Registered' = Registered
      /\ \A x \in Registered : Retried(x)' <=> Retried(x)
  BY <1>1, KeepsRelations
<1>3. \A x \in RunIds : Packet(x)' = Packet(x)
  BY <1>1, <1>2 DEF Packet, KeepsContract
<1>4. AbsPacket' = AbsPacket
  BY <1>3 DEF AbsPacket
<1>5. \A x \in RunIds \ {r} : Phase(x)' = Phase(x)
  BY <1>1, <1>2 DEF Phase, KeepsContract, Registered
<1>6. CASE Phase(r)' = Phase(r)
  <2>1. AbsPhase' = AbsPhase
    BY <1>5, <1>6 DEF AbsPhase
  <2> QED
    BY <1>4, <2>1 DEF Abs!vars, AbsPhase, AbsPacket
<1>7. CASE Phase(r)' # Phase(r)
  <2>1. r \in Registered /\ ~Retried(r) /\ ~Retried(r)'
    BY <1>1, <1>2, <1>7 DEF Phase, KeepsContract
  <2>2. AbsPhase' = [AbsPhase EXCEPT ![r] = Phase(r)']
    BY <1>5 DEF AbsPhase
  <2>3. CASE runs[r].status = "approved"
    <3>1. Phase(r) = "approved"
      BY <2>1, <2>3 DEF Phase, Sealed
    <3>2. CASE runs'[r].status = "submitted"
      <4>1. Phase(r)' = "submitted"
        BY <1>2, <2>1, <3>2 DEF Phase, Sealed
      <4>2. Abs!Submit(r)
        BY <1>4, <2>2, <3>1, <4>1 DEF Abs!Submit, AbsPhase, AbsPacket
      <4> QED
        BY <4>2 DEF Abs!Next
    <3>3. CASE runs'[r].status = "failed"
      <4>1. Phase(r)' = "open"
        BY <1>2, <2>1, <3>3 DEF Phase, Sealed
      <4>2. Abs!SendBack(r)
        BY <1>4, <2>2, <3>1, <4>1 DEF Abs!SendBack, AbsPhase, AbsPacket
      <4> QED
        BY <4>2 DEF Abs!Next
    <3> QED
      BY <2>3, <3>2, <3>3 DEF Judges
  <2>4. CASE runs[r].status # "approved"
    <3>1. Phase(r) = "open"
      BY <2>1, <2>4 DEF Phase, Sealed, Judges
    <3>2. runs'[r].status \in Sealed
      BY <1>2, <1>7, <2>1, <3>1 DEF Phase
    <3>3. runs'[r].status = "approved"
      BY <2>4, <3>2 DEF Judges, Sealed
    <3>4. Phase(r)' = "approved"
      BY <1>2, <2>1, <3>3 DEF Phase, Sealed
    <3>5. Acceptable(Packet(r))
      BY <2>1, <3>3 DEF Judges, Accepted, Acceptable, Packet
    <3>6. Abs!Approve(r)
      BY <1>4, <2>2, <3>1, <3>4, <3>5 DEF Abs!Approve, AbsPhase, AbsPacket
    <3> QED
      BY <3>6 DEF Abs!Next
  <2> QED
    BY <2>3, <2>4
<1> QED
  BY <1>6, <1>7

\* Every behaviour of the control plane is a behaviour of ApprovalLedger.
THEOREM Refinement == Spec => ImplementsApprovalLedger
<1>1. Init => Abs!Init
  BY DEF Init, Abs!Init, Phase, Registered
<1>2. Inv /\ Inv' /\ [Next]_vars => [Abs!Next]_(Abs!vars)
  <2> SUFFICES ASSUME Inv, Inv', [Next]_vars
               PROVE  [Abs!Next]_(Abs!vars)
    OBVIOUS
  <2>1. CASE UNCHANGED runs
    BY <2>1 DEF Phase, Packet, Registered, Retried, Abs!vars
  <2>2. ASSUME NEW r \in RunIds, Enters(r) \/ Revises(r) \/ Judges(r)
        PROVE  [Abs!Next]_(Abs!vars)
    BY <2>2, EnterRefines, ReviseRefines, JudgeRefines
  <2> QED
    BY <2>1, <2>2, StepKinds DEF Inv
<1> QED
  BY <1>1, <1>2, InvInductive, PTL DEF Spec, ImplementsApprovalLedger, Abs!Spec

-----------------------------------------------------------------------------
(* The event log tells the truth about any run, however many events were   *)
(* logged and forgotten, if the last four are kept.                        *)
(*                                                                         *)
(* How a trail ends after its oldest events were dropped.                  *)

Trail == Seq(EventActions)

LEMMA EndsWithElements ==
    ASSUME NEW s \in Trail, NEW t \in Trail
    PROVE  EndsWith(s, t) <=>
             /\ Len(s) >= Len(t)
             /\ \A k \in 1 .. Len(t) : s[Len(s) - Len(t) + k] = t[k]
<1> DEFINE m == Len(s) - Len(t) + 1
           u == SubSeq(s, m, Len(s))
<1> SUFFICES ASSUME Len(s) >= Len(t)
             PROVE  u = t <=> \A k \in 1 .. Len(t) : s[Len(s) - Len(t) + k] = t[k]
  BY DEF EndsWith
<1>1. Len(s) \in Nat /\ Len(t) \in Nat /\ m \in Int /\ m >= 1
  BY DEF Trail
<1>2. \A k \in m .. Len(s) : s[k] \in EventActions
  BY <1>1 DEF Trail
<1>3. /\ u \in Trail
      /\ Len(u) = Len(t)
      /\ \A k \in 1 .. Len(t) : u[k] = s[Len(s) - Len(t) + k]
  <2>1. /\ SubSeq(s, m, Len(s)) \in Seq(EventActions)
        /\ Len(SubSeq(s, m, Len(s))) = IF m <= Len(s) THEN Len(s) - m + 1 ELSE 0
        /\ \A k \in 1 .. Len(s) - m + 1 : SubSeq(s, m, Len(s))[k] = s[m + k - 1]
    BY <1>1, <1>2, SubSeqProperties
  <2> QED
    BY <1>1, <2>1 DEF Trail
<1> HIDE DEF u, m
<1>4. ASSUME \A k \in 1 .. Len(t) : s[Len(s) - Len(t) + k] = t[k]
      PROVE  u = t
  BY <1>3, <1>4, SeqEqual DEF Trail
<1> QED
  BY <1>3, <1>4

LEMMA RecentEnds ==
    ASSUME NEW s \in Trail, NEW t \in Trail, Len(t) <= TrailLen, EndsWith(s, t)
    PROVE  EndsWith(Recent(s), t)
<1> DEFINE m == IF Len(s) > TrailLen THEN Len(s) - TrailLen + 1 ELSE 1
           u == SubSeq(s, m, Len(s))
<1>1. /\ Len(s) \in Nat /\ Len(t) \in Nat /\ TrailLen \in Nat /\ m \in Int /\ m >= 1
      /\ \A k \in m .. Len(s) : s[k] \in EventActions
  BY InputAssumption DEF Trail
<1>2. /\ SubSeq(s, m, Len(s)) \in Seq(EventActions)
      /\ Len(SubSeq(s, m, Len(s))) = IF m <= Len(s) THEN Len(s) - m + 1 ELSE 0
      /\ \A k \in 1 .. Len(s) - m + 1 : SubSeq(s, m, Len(s))[k] = s[m + k - 1]
  BY <1>1, SubSeqProperties
<1>3. /\ Len(s) >= Len(t)
      /\ \A k \in 1 .. Len(t) : s[Len(s) - Len(t) + k] = t[k]
  BY EndsWithElements
<1>4. \/ Len(s) > TrailLen /\ m = Len(s) - TrailLen + 1
      \/ Len(s) <= TrailLen /\ m = 1
  BY <1>1
<1>5. u = SubSeq(s, m, Len(s))
  OBVIOUS
<1> HIDE DEF u, m
<1>6. Len(u) = Len(s) - m + 1 /\ Len(u) >= Len(t)
  BY <1>1, <1>2, <1>3, <1>4, <1>5
<1>7. u \in Trail
  BY <1>2, <1>5 DEF Trail
<1>8. ASSUME NEW k \in 1 .. Len(t)
      PROVE  u[Len(u) - Len(t) + k] = t[k]
  <2>1. /\ Len(u) - Len(t) + k \in 1 .. Len(s) - m + 1
        /\ m + (Len(u) - Len(t) + k) - 1 = Len(s) - Len(t) + k
    BY <1>1, <1>6
  <2>2. u[Len(u) - Len(t) + k] = s[m + (Len(u) - Len(t) + k) - 1]
    BY <1>2, <1>5, <2>1
  <2> QED
    BY <1>3, <2>1, <2>2
<1>9. EndsWith(u, t)
  BY <1>6, <1>7, <1>8, EndsWithElements
<1> QED
  BY <1>9 DEF Recent, u, m

LEMMA ConcatEnds ==
    ASSUME NEW s \in Trail, NEW t \in Trail, NEW acts \in Trail, EndsWith(s, t)
    PROVE  EndsWith(s \o acts, t \o acts)
<1>1. /\ Len(s) \in Nat /\ Len(t) \in Nat /\ Len(acts) \in Nat
      /\ Len(s) >= Len(t)
      /\ \A k \in 1 .. Len(t) : s[Len(s) - Len(t) + k] = t[k]
  BY EndsWithElements DEF Trail
<1> DEFINE u == s \o acts
           v == t \o acts
<1>2. /\ u \in Trail /\ Len(u) = Len(s) + Len(acts)
      /\ \A k \in 1 .. Len(s) + Len(acts) :
            u[k] = IF k <= Len(s) THEN s[k] ELSE acts[k - Len(s)]
  BY ConcatProperties DEF Trail
<1>3. /\ v \in Trail /\ Len(v) = Len(t) + Len(acts)
      /\ \A k \in 1 .. Len(t) + Len(acts) :
            v[k] = IF k <= Len(t) THEN t[k] ELSE acts[k - Len(t)]
  BY ConcatProperties DEF Trail
<1> HIDE DEF u, v
<1>4. ASSUME NEW k \in 1 .. Len(v)
      PROVE  u[Len(u) - Len(v) + k] = v[k]
  <2>1. CASE k <= Len(t)
    <3>1. /\ Len(u) - Len(v) + k = Len(s) - Len(t) + k
          /\ Len(s) - Len(t) + k \in 1 .. Len(s) + Len(acts)
          /\ Len(s) - Len(t) + k <= Len(s)
          /\ k \in 1 .. Len(t)
      BY <1>1, <1>2, <1>3, <2>1
    <3>2. u[Len(s) - Len(t) + k] = s[Len(s) - Len(t) + k]
      BY <1>2, <3>1
    <3>3. v[k] = t[k]
      BY <1>3, <2>1
    <3> QED
      BY <1>1, <3>1, <3>2, <3>3
  <2>2. CASE ~(k <= Len(t))
    <3>1. /\ Len(u) - Len(v) + k \in 1 .. Len(s) + Len(acts)
          /\ ~(Len(u) - Len(v) + k <= Len(s))
          /\ (Len(u) - Len(v) + k) - Len(s) = k - Len(t)
      BY <1>1, <1>2, <1>3, <2>2
    <3>2. u[Len(u) - Len(v) + k] = acts[(Len(u) - Len(v) + k) - Len(s)]
      BY <1>2, <3>1
    <3>3. v[k] = acts[k - Len(t)]
      BY <1>3, <2>2
    <3> QED
      BY <3>1, <3>2, <3>3
  <2> QED
    BY <2>1, <2>2
<1>5. Len(u) >= Len(v)
  BY <1>1, <1>2, <1>3
<1>6. EndsWith(u, v)
  BY <1>2, <1>3, <1>4, <1>5, EndsWithElements
<1> QED
  BY <1>6 DEF u, v

\* What is logged is what the trail ends with, after what it ended with.
LEMMA LogEnds ==
    ASSUME TypeOK, NEW r \in RunIds, NEW t \in Trail, NEW acts \in Trail,
           EndsWith(trail[r], t), Len(t) + Len(acts) <= TrailLen, Log(r, acts)
    PROVE  EndsWith(trail'[r], t \o acts)
<1>1. trail[r] \in Trail /\ TrailLen \in Nat
  BY InputAssumption DEF TypeOK, Trail
<1>2. /\ trail[r] \o acts \in Trail /\ t \o acts \in Trail
      /\ Len(t \o acts) = Len(t) + Len(acts)
  BY <1>1, ConcatProperties DEF Trail
<1>3. EndsWith(trail[r] \o acts, t \o acts)
  BY <1>1, ConcatEnds
<1>4. EndsWith(Recent(trail[r] \o acts), t \o acts)
  BY <1>2, <1>3, RecentEnds
<1>5. trail'[r] = Recent(trail[r] \o acts)
  BY DEF Log, TypeOK
<1> QED
  BY <1>4, <1>5

LEMMA LogAloneEnds ==
    ASSUME TypeOK, NEW r \in RunIds, NEW acts \in Trail, Len(acts) <= TrailLen,
           Log(r, acts)
    PROVE  EndsWith(trail'[r], acts)
<1>1. <<>> \in Trail /\ Len(<<>>) = 0 /\ trail[r] \in Trail
  BY DEF TypeOK, Trail
<1>2. EndsWith(trail[r], <<>>)
  <2>1. EndsWith(trail[r], <<>>) <=>
           /\ Len(trail[r]) >= Len(<<>>)
           /\ \A k \in 1 .. Len(<<>>) :
                 trail[r][Len(trail[r]) - Len(<<>>) + k] = <<>>[k]
    BY <1>1, EndsWithElements
  <2>2. Len(trail[r]) >= 0 /\ 1 .. 0 = {}
    BY <1>1 DEF Trail
  <2> QED
    BY <1>1, <2>1, <2>2
<1>3. Len(<<>>) + Len(acts) <= TrailLen
  BY <1>1, InputAssumption DEF Trail
<1>4. EndsWith(trail'[r], <<>> \o acts)
  BY <1>1, <1>2, <1>3, LogEnds
<1>5. <<>> \o acts = acts
  BY ConcatEmptySeq DEF Trail
<1> QED
  BY <1>4, <1>5

LEMMA LastEvent ==
    ASSUME NEW s \in Trail, NEW t \in Trail, t # <<>>, EndsWith(s, t)
    PROVE  s # <<>> /\ s[Len(s)] = t[Len(t)]
<1>1. /\ Len(s) \in Nat /\ Len(t) \in Nat /\ Len(t) > 0 /\ Len(s) >= Len(t)
      /\ \A k \in 1 .. Len(t) : s[Len(s) - Len(t) + k] = t[k]
  BY EndsWithElements DEF Trail
<1>2. s[Len(s) - Len(t) + Len(t)] = t[Len(t)]
  BY <1>1
<1> QED
  BY <1>1, <1>2

-----------------------------------------------------------------------------
(* Every handler logs events that leave the run in the status it gives it. *)

LEMMA StatusTable ==
    /\ StatusAfter["registered"] = "registered"
    /\ StatusAfter["claimed"] = "claimed"
    /\ StatusAfter["verify"] = "verified"
    /\ StatusAfter["verify_failed"] = "failed"
    /\ StatusAfter["approved"] = "approved"
    /\ StatusAfter["submitted"] = "submitted"
    /\ \A act \in {"gate", "artifact", "result", "outcome", "measurement",
                   "residual_risk"} : StatusAfter[act] = "running"
BY DEF StatusAfter, EventActions, RunStatus

\* What AuditTrail says of one run.
TrailTrue(r) ==
    /\ trail[r] # <<>>
    /\ runs[r].status = StatusAfter[trail[r][Len(trail[r])]]
    /\ runs[r].status = "approved" => EndsWith(trail[r], <<"verify", "approved">>)
    /\ runs[r].status = "submitted" =>
          EndsWith(trail[r], <<"verify", "approved", "submit_verify", "submitted">>)

LEMMA OneRunLogs ==
    ASSUME AuditTrail, TypeOK, NEW r \in RunIds, TrailTrue(r)',
           NEW acts, Log(r, acts),
           \A x \in RunIds \ {r} : runs'[x] = runs[x]
    PROVE  AuditTrail'
<1>1. ASSUME NEW x \in Registered', x # r
      PROVE  TrailTrue(x)'
  <2>1. x \in Registered /\ runs'[x] = runs[x] /\ trail'[x] = trail[x]
    BY <1>1 DEF Registered, Log, TypeOK
  <2>2. TrailTrue(x)
    BY <2>1 DEF AuditTrail, TrailTrue
  <2> QED
    BY <2>1, <2>2 DEF TrailTrue
<1> QED
  BY <1>1 DEF AuditTrail, TrailTrue

Opens == EventActions \ {"approved", "submit_verify", "submitted"}

\* One event that leaves the run open.
LEMMA OpenLogs ==
    ASSUME AuditTrail, TypeOK, TypeOK', TrailLen >= 4, NEW r \in RunIds,
           NEW act \in Opens, Log(r, <<act>>), runs'[r].status = StatusAfter[act],
           \A x \in RunIds \ {r} : runs'[x] = runs[x]
    PROVE  AuditTrail'
<1>1. <<act>> \in Trail /\ <<act>> # <<>> /\ Len(<<act>>) = 1 /\ <<act>>[1] = act
  BY DEF Opens, Trail
<1>2. EndsWith(trail'[r], <<act>>)
  <2>1. Len(<<act>>) <= TrailLen
    BY <1>1, InputAssumption
  <2> QED
    BY <1>1, <2>1, LogAloneEnds
<1>3. trail'[r] # <<>> /\ trail'[r][Len(trail'[r])] = act
  BY <1>1, <1>2, LastEvent DEF TypeOK, Trail
<1>4. StatusAfter[act] \notin {"approved", "submitted"}
  BY StatusTable DEF Opens, EventActions
<1>5. TrailTrue(r)'
  BY <1>3, <1>4 DEF TrailTrue
<1> QED
  BY <1>5, OneRunLogs

LEMMA VerdictLogs ==
    ASSUME AuditTrail, TypeOK, TypeOK', TrailLen >= 4, NEW r \in Registered, Verdict(r)
    PROVE  AuditTrail'
<1>1. r \in RunIds /\ runs[r] \in RunRecord
  BY RegisteredType
<1>2. CASE Passes(r)
  <2>1. Log(r, <<"verify">>) /\ runs'[r].status = "verified"
    BY <1>1, <1>2 DEF Verdict, TypeOK, RunRecord
  <2>2. \A x \in RunIds \ {r} : runs'[x] = runs[x]
    BY <1>2 DEF Verdict, TypeOK
  <2> QED
    BY <1>1, <2>1, <2>2, OpenLogs, StatusTable DEF Opens, EventActions
<1>3. CASE ~Passes(r)
  <2>1. Log(r, <<"verify_failed">>) /\ runs'[r].status = "failed"
    BY <1>1, <1>3 DEF Verdict, TypeOK, RunRecord
  <2>2. \A x \in RunIds \ {r} : runs'[x] = runs[x]
    BY <1>3 DEF Verdict, TypeOK
  <2> QED
    BY <1>1, <2>1, <2>2, OpenLogs, StatusTable DEF Opens, EventActions
<1> QED
  BY <1>2, <1>3

EvidenceEvents ==
    {"gate", "artifact", "result", "outcome", "measurement", "residual_risk"}

LEMMA AmendLogs ==
    ASSUME AuditTrail, TypeOK, TypeOK', TrailLen >= 4, NEW r \in RunIds, NEW e,
           NEW act \in EvidenceEvents, Amend(r, e, act)
    PROVE  AuditTrail'
<1>1. runs[r] \in RunRecord
  BY RegisteredType DEF Amend, Mutable
<1>2. Log(r, <<act>>) /\ runs'[r].status = "running"
  BY <1>1 DEF Amend, TypeOK, RunRecord
<1>3. \A x \in RunIds \ {r} : runs'[x] = runs[x]
  BY DEF Amend, TypeOK
<1> QED
  BY <1>2, <1>3, OpenLogs, StatusTable DEF Opens, EventActions, EvidenceEvents

\* The approval is logged right after the verification it rests on.
LEMMA ApproveLogs ==
    ASSUME AuditTrail, TypeOK, TypeOK', TrailLen >= 4, NEW r \in RunIds,
           NEW o \in Owners, Approve(r, o)
    PROVE  AuditTrail'
<1>1. r \in Registered /\ runs[r] \in RunRecord
  BY RegisteredType DEF Approve, Mutable
<1>2. CASE Passes(r)
  <2> DEFINE acts == <<"verify", "approved">>
  <2>1. /\ Log(r, acts)
        /\ runs'[r].status = "approved"
        /\ \A x \in RunIds \ {r} : runs'[x] = runs[x]
    BY <1>1, <1>2 DEF Approve, TypeOK, RunRecord
  <2>2. acts \in Trail /\ acts # <<>> /\ Len(acts) = 2 /\ acts[2] = "approved"
    BY DEF Trail, EventActions
  <2> HIDE DEF acts
  <2>3. EndsWith(trail'[r], acts)
    <3>1. Len(acts) <= TrailLen
      BY <2>2, InputAssumption
    <3> QED
      BY <2>1, <2>2, <3>1, LogAloneEnds
  <2>4. trail'[r] # <<>> /\ trail'[r][Len(trail'[r])] = "approved"
    BY <2>2, <2>3, LastEvent DEF TypeOK, Trail
  <2>5. TrailTrue(r)'
    BY <2>1, <2>3, <2>4, StatusTable DEF TrailTrue, acts
  <2> QED
    BY <2>1, <2>5, OneRunLogs
<1>3. CASE ~Passes(r)
  BY <1>1, <1>3, VerdictLogs DEF Approve
<1> QED
  BY <1>2, <1>3

\* The submission is logged right after the approval: nothing is logged of an
\* approved run in between.
LEMMA SubmitLogs ==
    ASSUME AuditTrail, TypeOK, TypeOK', TrailLen >= 4, NEW r \in RunIds, Submit(r)
    PROVE  AuditTrail'
<1>1. r \in Registered /\ runs[r] \in RunRecord /\ runs[r].status = "approved"
  BY RegisteredType DEF Submit
<1>2. CASE Passes(r)
  <2> DEFINE acts == <<"submit_verify", "submitted">>
             t == <<"verify", "approved">>
             all == <<"verify", "approved", "submit_verify", "submitted">>
  <2>1. /\ Log(r, acts)
        /\ runs'[r].status = "submitted"
        /\ \A x \in RunIds \ {r} : runs'[x] = runs[x]
    BY <1>1, <1>2 DEF Submit, TypeOK, RunRecord
  <2>2. /\ acts \in Trail /\ Len(acts) = 2
        /\ t \in Trail /\ Len(t) = 2
        /\ all \in Trail /\ all # <<>> /\ Len(all) = 4 /\ all[4] = "submitted"
    BY DEF Trail, EventActions
  <2>3. EndsWith(trail[r], t)
    BY <1>1 DEF AuditTrail
  <2>4. EndsWith(trail'[r], all)
    <3>1. t \o acts = all
      <4>1. /\ t \o acts \in Seq(EventActions)
            /\ Len(t \o acts) = 4
            /\ \A k \in 1 .. 4 : (t \o acts)[k] = IF k <= 2 THEN t[k] ELSE acts[k - 2]
        BY <2>2, ConcatProperties DEF Trail
      <4>2. \A k \in 1 .. 4 : all[k] = IF k <= 2 THEN t[k] ELSE acts[k - 2]
        OBVIOUS
      <4> HIDE DEF acts, t, all
      <4> QED
        BY <2>2, <4>1, <4>2, SeqEqual DEF Trail
    <3>2. Len(t) + Len(acts) <= TrailLen
      BY <2>2, InputAssumption
    <3> HIDE DEF acts, t, all
    <3> QED
      BY <2>1, <2>2, <2>3, <3>1, <3>2, LogEnds
  <2> HIDE DEF acts, t, all
  <2>5. trail'[r] # <<>> /\ trail'[r][Len(trail'[r])] = "submitted"
    BY <2>2, <2>4, LastEvent DEF TypeOK, Trail
  <2>6. TrailTrue(r)'
    BY <2>1, <2>4, <2>5, StatusTable DEF TrailTrue, all
  <2> QED
    BY <2>1, <2>6, OneRunLogs
<1>3. CASE ~Passes(r)
  BY <1>1, <1>3, VerdictLogs DEF Submit
<1> QED
  BY <1>2, <1>3

LEMMA NextLogs ==
    ASSUME AuditTrail, TypeOK, TypeOK', TrailLen >= 4, [Next]_vars
    PROVE  AuditTrail'
<1>1. CASE UNCHANGED <<runs, trail>>
  BY <1>1 DEF AuditTrail, Registered
<1>2. ASSUME NEW r \in RunIds, NEW c \in Contracts, NEW parent \in RunIds \cup {None},
             NEW note \in BOOLEAN, Register(r, c, parent, note)
      PROVE  AuditTrail'
  <2>1. /\ Log(r, <<"registered">>)
        /\ runs'[r].status = "registered"
        /\ \A x \in RunIds \ {r} : runs'[x] = runs[x]
    BY <1>2 DEF Register, TypeOK
  <2> QED
    BY <2>1, OpenLogs, StatusTable DEF Opens, EventActions
<1>3. ASSUME NEW r \in RunIds, NEW o \in Owners, Claim(r, o)
      PROVE  AuditTrail'
  <2>1. runs[r] \in RunRecord
    BY <1>3, RegisteredType DEF Claim, Mutable
  <2>2. /\ Log(r, <<"claimed">>)
        /\ runs'[r].status = "claimed"
        /\ \A x \in RunIds \ {r} : runs'[x] = runs[x]
    BY <1>3, <2>1 DEF Claim, TypeOK, RunRecord
  <2> QED
    BY <2>2, OpenLogs, StatusTable DEF Opens, EventActions
<1>4. ASSUME NEW r \in RunIds, Records(r)
      PROVE  AuditTrail'
  <2>1. ASSUME NEW g \in GateNames, NEW s \in GateInputs, RecordGate(r, g, s)
        PROVE  AuditTrail'
    BY <2>1, AmendLogs DEF RecordGate, EvidenceEvents
  <2>2. ASSUME NEW h \in ResultHashes, SetResultHash(r, h)
        PROVE  AuditTrail'
    BY <2>2, AmendLogs DEF SetResultHash, EvidenceEvents
  <2>3. ASSUME NEW x \in OutcomeInputs, RecordOutcome(r, x)
        PROVE  AuditTrail'
    BY <2>3, AmendLogs DEF RecordOutcome, EvidenceEvents
  <2>4. ASSUME NEW m \in MeasurementNames, RecordMeasurement(r, m)
        PROVE  AuditTrail'
    BY <2>4, AmendLogs DEF RecordMeasurement, EvidenceEvents
  <2>5. ASSUME NEW k \in RiskNames, RecordResidualRisk(r, k)
        PROVE  AuditTrail'
    BY <2>5, AmendLogs DEF RecordResidualRisk, EvidenceEvents
  <2> QED
    BY <1>4, <2>1, <2>2, <2>3, <2>4, <2>5 DEF Records
<1>5. ASSUME NEW r \in RunIds, Verify(r)
      PROVE  AuditTrail'
  BY <1>5, VerdictLogs DEF Verify
<1>6. ASSUME NEW w \in Recorders, StoreReceipt(w), ~UNCHANGED <<runs, trail>>
      PROVE  AuditTrail'
  <2> DEFINE r == pending[w].run
             e == [runs[r].evidence EXCEPT !.artifacts[pending[w].name] =
                      pending[w].receipt]
  <2>1. r \in RunIds
    BY <1>6 DEF StoreReceipt, TypeOK, PendingReceipt
  <2>2. Amend(r, e, "artifact")
    BY <1>6 DEF StoreReceipt
  <2> HIDE DEF r, e
  <2> QED
    BY <2>1, <2>2, AmendLogs DEF EvidenceEvents
<1>7. ASSUME \/ \E w \in Recorders, r \in RunIds, n \in ArtifactNames, p \in Paths :
                   HashArtifact(w, r, n, p)
             \/ \E p \in Paths, c \in Contents \cup {None} : EditFile(p, c)
             \/ UNCHANGED vars
      PROVE  UNCHANGED <<runs, trail>>
  BY <1>7 DEF HashArtifact, EditFile, vars
<1> QED
  BY <1>1, <1>2, <1>3, <1>4, <1>5, <1>6, <1>7, ApproveLogs, SubmitLogs
     DEF Next, Records

\* The last events explain the status of every run, and an approval and a
\* submission follow the verification they rest on without a gap.
THEOREM TrailIsTrue == ASSUME TrailLen >= 4 PROVE Spec => []AuditTrail
<1>1. Init => AuditTrail
  BY DEF Init, AuditTrail, Registered
<1>2. AuditTrail /\ TypeOK /\ TypeOK' /\ [Next]_vars => AuditTrail'
  BY NextLogs
<1> QED
  BY <1>1, <1>2, TypeCorrect, PTL DEF Spec
=============================================================================
