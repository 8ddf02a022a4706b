-------------------------- MODULE BenchmarkProofs ---------------------------
(***************************************************************************)
(* Proofs about Benchmark for every value of its constants.  The driver is *)
(* a client of ControlPlane: what ControlPlaneProofs proves of every step  *)
(* of the ledger is instantiated for its ledger (L below is Ledger with    *)
(* the lemmas) and holds between any two of its calls.                     *)
(***************************************************************************)
EXTENDS Benchmark, SequenceTheorems, TLAPS

L == INSTANCE ControlPlaneProofs WITH
    RunIds           <- Attempts,
    Contracts        <- {Contract(a, h) : a \in Attempts, h \in Heads},
    Owners           <- {Worker[a] : a \in Attempts} \cup {Reviewer},
    BaselineGates    <- {"clean_checkout", "unit_tests"},
    GateNames        <- REQUIRED_GATES,
    GateInputs       <- {"pass", "fail", "not_applicable"},
    ArtifactNames    <- Artifacts,
    Paths            <- Attempts \X Artifacts,
    Contents         <- Results \cup {"log"},
    ResultHashes     <- Results,
    OutcomeInputs    <- {"solved"},
    MeasurementNames <- Measurements,
    RiskNames        <- {},
    Recorders        <- {"driver"},
    TrailLen         <- 0

-----------------------------------------------------------------------------
(* The ledger.                                                             *)

LEMMA ContractFieldsKept ==
    \A a \in Attempts, h \in Heads :
        /\ Contract(a, h) = [f \in L!ContractFields |-> Contract(a, h)[f]]
        /\ Contract(a, h).attempt = a
        /\ Contract(a, h).candidate = "practice-pipeline"
        /\ Contract(a, h).gates = REQUIRED_GATES
        /\ Contract(a, h).artifacts = Artifacts
BY DEF Contract, L!ContractFields

LEMMA LedgerAssumptions ==
    L!ContractAssumption /\ L!InputAssumption /\ L!NoneAssumption
<1>1. L!ContractAssumption
  BY ContractFieldsKept DEF L!ContractAssumption, Attempts
<1>2. L!InputAssumption
  BY DEF L!InputAssumption, L!GateStatus, L!OutcomeClass, REQUIRED_GATES
<1>3. L!NoneAssumption
  BY NoneAssumption
     DEF L!NoneAssumption, L!OutcomeClass, L!RETRYABLE_OUTCOMES, L!GateStatus,
         L!Receipt, L!RunRecord, L!Evidence, L!RunStatus, L!PendingReceipt,
         Ledger!OutcomeClass, Ledger!RETRYABLE_OUTCOMES, Ledger!GateStatus,
         Ledger!Receipt, Ledger!RunRecord, Ledger!Evidence, Ledger!RunStatus,
         Ledger!PendingReceipt
<1> QED
  BY <1>1, <1>2, <1>3

\* L is Ledger.
LEMMA SameTypes ==
    /\ Ledger!TypeOK <=> L!TypeOK
    /\ Ledger!Init <=> L!Init
BY DEF Ledger!TypeOK, Ledger!RunRecord, Ledger!Evidence, Ledger!GateStatus,
       Ledger!OutcomeClass, Ledger!RETRYABLE_OUTCOMES, Ledger!Receipt,
       Ledger!RunStatus, Ledger!EventActions, Ledger!PendingReceipt,
       L!TypeOK, L!RunRecord, L!Evidence, L!GateStatus, L!OutcomeClass,
       L!RETRYABLE_OUTCOMES, L!Receipt, L!RunStatus, L!EventActions,
       L!PendingReceipt, Ledger!Init, L!Init

LEMMA SameReads ==
    /\ Ledger!Registered = L!Registered
    /\ \A r : Ledger!Mutable(r) <=> L!Mutable(r)
    /\ \A r : Ledger!Passes(r) <=> L!Passes(r)
    /\ \A c, n : Ledger!MigrationAllowed(c, n) <=> L!MigrationAllowed(c, n)
    /\ \A r, acts : Ledger!Log(r, acts) <=> L!Log(r, acts)
    /\ Ledger!EmptyEvidence = L!EmptyEvidence
BY DEF Ledger!Registered, L!Registered, Ledger!Mutable, L!Mutable, Ledger!Sealed,
       L!Sealed, Ledger!Retried, L!Retried, Ledger!Passes, L!Passes,
       Ledger!Complete, L!Complete, Ledger!Fresh, L!Fresh,
       Ledger!MigrationAllowed, L!MigrationAllowed, Ledger!Log, L!Log,
       Ledger!Recent, L!Recent, Ledger!EmptyEvidence, L!EmptyEvidence

LEMMA SameHandlers ==
    /\ \A r, c : Ledger!Register(r, c, None, FALSE) => L!Register(r, c, None, FALSE)
    /\ \A r, o : Ledger!Claim(r, o) => L!Claim(r, o)
    /\ \A r, g, s : Ledger!RecordGate(r, g, s) => L!RecordGate(r, g, s)
    /\ \A r, h : Ledger!SetResultHash(r, h) => L!SetResultHash(r, h)
    /\ \A r, x : Ledger!RecordOutcome(r, x) => L!RecordOutcome(r, x)
    /\ \A r, m : Ledger!RecordMeasurement(r, m) => L!RecordMeasurement(r, m)
    /\ \A w, r, n, p : Ledger!HashArtifact(w, r, n, p) => L!HashArtifact(w, r, n, p)
    /\ \A w : Ledger!StoreReceipt(w) => L!StoreReceipt(w)
    /\ \A r : Ledger!Verify(r) => L!Verify(r)
    /\ \A r, o : Ledger!Approve(r, o) => L!Approve(r, o)
    /\ \A r : Ledger!Submit(r) => L!Submit(r)
    /\ \A p, c : Ledger!EditFile(p, c) => L!EditFile(p, c)
<1>1. \A r, e, act : Ledger!Amend(r, e, act) => L!Amend(r, e, act)
  BY SameReads DEF Ledger!Amend, L!Amend
<1>2. \A r : Ledger!Verdict(r) => L!Verdict(r)
  BY SameReads DEF Ledger!Verdict, L!Verdict
<1>3. \A r, c : Ledger!Register(r, c, None, FALSE) => L!Register(r, c, None, FALSE)
  BY SameReads DEF Ledger!Register, L!Register, Ledger!RetryAllowed, L!RetryAllowed,
                   Ledger!LEGACY_REQUIREMENTS_HASH, L!LEGACY_REQUIREMENTS_HASH
<1>4. /\ \A r, o : Ledger!Claim(r, o) => L!Claim(r, o)
      /\ \A p, c : Ledger!EditFile(p, c) => L!EditFile(p, c)
  BY SameReads DEF Ledger!Claim, L!Claim, Ledger!EditFile, L!EditFile
<1>5. /\ \A r, g, s : Ledger!RecordGate(r, g, s) => L!RecordGate(r, g, s)
      /\ \A r, h : Ledger!SetResultHash(r, h) => L!SetResultHash(r, h)
      /\ \A r, x : Ledger!RecordOutcome(r, x) => L!RecordOutcome(r, x)
      /\ \A r, m : Ledger!RecordMeasurement(r, m) => L!RecordMeasurement(r, m)
  BY <1>1 DEF Ledger!RecordGate, L!RecordGate, Ledger!SetResultHash, L!SetResultHash,
              Ledger!RecordOutcome, L!RecordOutcome, Ledger!RecordMeasurement,
              L!RecordMeasurement
<1>6. /\ \A w, r, n, p : Ledger!HashArtifact(w, r, n, p) => L!HashArtifact(w, r, n, p)
      /\ \A w : Ledger!StoreReceipt(w) => L!StoreReceipt(w)
  BY <1>1, SameReads DEF Ledger!HashArtifact, L!HashArtifact, Ledger!StoreReceipt,
                         L!StoreReceipt
<1>7. /\ \A r : Ledger!Verify(r) => L!Verify(r)
      /\ \A r, o : Ledger!Approve(r, o) => L!Approve(r, o)
      /\ \A r : Ledger!Submit(r) => L!Submit(r)
  BY <1>2, SameReads DEF Ledger!Verify, L!Verify, Ledger!Approve, L!Approve,
                         Ledger!Submit, L!Submit, Ledger!Sealed, L!Sealed
<1> QED
  BY <1>3, <1>4, <1>5, <1>6, <1>7

-----------------------------------------------------------------------------
(* The program: the driver writes its result before it declares its hash,  *)
(* and submits last.                                                       *)

Calls ==
    [op : {"register", "claim", "result_hash", "verify", "approve", "submit"},
     arg : {""}]
    \cup [op : {"gate"}, arg : REQUIRED_GATES]
    \cup [op : {"write", "hash", "store"}, arg : Artifacts]
    \cup [op : {"measure"}, arg : Measurements]
    \cup [op : {"outcome"}, arg : {"solved"}]

\* The call that writes the result.
ResultAt == Len(OtherGates) + 8

LEMMA SevenInSeq ==
    ASSUME NEW S, NEW x1 \in S, NEW x2 \in S, NEW x3 \in S, NEW x4 \in S,
           NEW x5 \in S, NEW x6 \in S, NEW x7 \in S
    PROVE  /\ <<x1, x2, x3, x4, x5, x6, x7>> \in Seq(S)
           /\ Len(<<x1, x2, x3, x4, x5, x6, x7>>) = 7
OBVIOUS

LEMMA FourteenInSeq ==
    ASSUME NEW S, NEW x1 \in S, NEW x2 \in S, NEW x3 \in S, NEW x4 \in S,
           NEW x5 \in S, NEW x6 \in S, NEW x7 \in S, NEW x8 \in S,
           NEW x9 \in S, NEW x10 \in S, NEW x11 \in S, NEW x12 \in S,
           NEW x13 \in S, NEW x14 \in S
    PROVE  /\ <<x1, x2, x3, x4, x5, x6, x7, x8, x9, x10, x11, x12, x13, x14>> \in Seq(S)
           /\ Len(<<x1, x2, x3, x4, x5, x6, x7, x8, x9, x10, x11, x12, x13, x14>>) = 14
OBVIOUS

\* The calls before it.
Early(call) ==
    /\ call.op \in {"register", "claim", "gate", "write"}
    /\ call # Call("write", "result")

\* The calls from it on.
Closing ==
    <<Call("write", "result"),
      Call("hash", "result"), Call("store", "result"),
      Call("hash", "pytest"), Call("store", "pytest"),
      Call("hash", "skill_cli"), Call("store", "skill_cli"),
      Call("result_hash", ""),
      Call("measure", "orders_current_rows"),
      Call("measure", "revenue_cents_checksum"),
      Call("outcome", "solved"),
      Call("verify", ""), Call("approve", ""), Call("submit", "")>>

\* A closing call tells where it stands.
LEMMA ClosingPlaces ==
    ASSUME NEW m \in 1 .. 14, NEW p, p = Closing[m]
    PROVE  /\ ~Early(p)
           /\ m = 1 <=> p = Call("write", "result")
           /\ m = 2 <=> p = Call("hash", "result")
           /\ m = 3 <=> p = Call("store", "result")
           /\ m = 4 <=> p = Call("hash", "pytest")
           /\ m = 5 <=> p = Call("store", "pytest")
           /\ m = 6 <=> p = Call("hash", "skill_cli")
           /\ m = 7 <=> p = Call("store", "skill_cli")
           /\ m = 8 <=> p.op = "result_hash"
           /\ m > 8 <=> p.op \in {"measure", "outcome", "verify", "approve", "submit"}
           /\ m = 14 <=> p.op = "submit"
<1> DEFINE ops == <<"write", "hash", "store", "hash", "store", "hash", "store",
                    "result_hash", "measure", "measure", "outcome", "verify",
                    "approve", "submit">>
           args == <<"result", "result", "result", "pytest", "pytest", "skill_cli",
                     "skill_cli", "", "orders_current_rows",
                     "revenue_cents_checksum", "solved", "", "", "">>
           op == ops[m]
           arg == args[m]
<1>1. p = Call(op, arg)
  <2>1. /\ Closing[1] = Call("write", "result")
        /\ Closing[2] = Call("hash", "result")
        /\ Closing[3] = Call("store", "result")
        /\ Closing[4] = Call("hash", "pytest")
        /\ Closing[5] = Call("store", "pytest")
        /\ Closing[6] = Call("hash", "skill_cli")
        /\ Closing[7] = Call("store", "skill_cli")
        /\ Closing[8] = Call("result_hash", "")
        /\ Closing[9] = Call("measure", "orders_current_rows")
        /\ Closing[10] = Call("measure", "revenue_cents_checksum")
        /\ Closing[11] = Call("outcome", "solved")
        /\ Closing[12] = Call("verify", "")
        /\ Closing[13] = Call("approve", "")
        /\ Closing[14] = Call("submit", "")
    BY DEF Closing
  <2>2. /\ ops[1] = "write" /\ args[1] = "result"
        /\ ops[2] = "hash" /\ args[2] = "result"
        /\ ops[3] = "store" /\ args[3] = "result"
        /\ ops[4] = "hash" /\ args[4] = "pytest"
        /\ ops[5] = "store" /\ args[5] = "pytest"
        /\ ops[6] = "hash" /\ args[6] = "skill_cli"
        /\ ops[7] = "store" /\ args[7] = "skill_cli"
        /\ ops[8] = "result_hash" /\ args[8] = ""
        /\ ops[9] = "measure" /\ args[9] = "orders_current_rows"
        /\ ops[10] = "measure" /\ args[10] = "revenue_cents_checksum"
        /\ ops[11] = "outcome" /\ args[11] = "solved"
        /\ ops[12] = "verify" /\ args[12] = ""
        /\ ops[13] = "approve" /\ args[13] = ""
        /\ ops[14] = "submit" /\ args[14] = ""
    OBVIOUS
  <2> HIDE DEF ops, args
  <2>3. \A i \in {1, 2, 3, 4} : Closing[i] = Call(ops[i], args[i])
    BY ZenonT(30), <2>1, <2>2
  <2>4. \A i \in {5, 6, 7, 8, 9} : Closing[i] = Call(ops[i], args[i])
    BY ZenonT(30), <2>1, <2>2
  <2>5. \A i \in {10, 11, 12, 13, 14} : Closing[i] = Call(ops[i], args[i])
    BY ZenonT(30), <2>1, <2>2
  <2>6. \/ m \in {1, 2, 3, 4}
        \/ m \in {5, 6, 7, 8, 9}
        \/ m \in {10, 11, 12, 13, 14}
    OBVIOUS
  <2> QED
    BY <2>3, <2>4, <2>5, <2>6
<1>2. p.op = op /\ \A x, y : p = Call(x, y) <=> op = x /\ arg = y
  <2> HIDE DEF op, arg
  <2>1. \A x, y, x1, y1 : Call(x, y) = Call(x1, y1) <=> x = x1 /\ y = y1
    BY DEF Call
  <2>2. \A x, y : Call(x, y).op = x
    BY DEF Call
  <2>3. p.op = op
    BY <1>1, <2>2
  <2>4. \A x, y : p = Call(x, y) <=> op = x /\ arg = y
    BY <1>1, <2>1
  <2> QED
    BY <2>3, <2>4
<1>3. /\ \A i \in 1 .. 14 : ops[i] = "write" <=> i = 1
      /\ \A i \in 1 .. 14 : ops[i] = "hash" <=> i \in {2, 4, 6}
      /\ \A i \in 1 .. 14 : ops[i] = "store" <=> i \in {3, 5, 7}
      /\ \A i \in 1 .. 14 : ops[i] = "result_hash" <=> i = 8
      /\ \A i \in 1 .. 14 :
            ops[i] \in {"measure", "outcome", "verify", "approve", "submit"} <=> i > 8
      /\ \A i \in 1 .. 14 : ops[i] = "submit" <=> i = 14
      /\ \A i \in 1 .. 14 : ops[i] \notin {"register", "claim", "gate"}
  OBVIOUS
<1>4. /\ \A i \in {1, 2, 3} : args[i] = "result"
      /\ \A i \in {4, 5} : args[i] = "pytest"
      /\ \A i \in {6, 7} : args[i] = "skill_cli"
  OBVIOUS
<1> HIDE DEF ops, args
<1>5. /\ op = "write" <=> m = 1
      /\ op = "hash" <=> m \in {2, 4, 6}
      /\ op = "store" <=> m \in {3, 5, 7}
      /\ op = "result_hash" <=> m = 8
      /\ op \in {"measure", "outcome", "verify", "approve", "submit"} <=> m > 8
      /\ op = "submit" <=> m = 14
      /\ op \notin {"register", "claim", "gate"}
      /\ m \in {1, 2, 3} => arg = "result"
      /\ m \in {4, 5} => arg = "pytest"
      /\ m \in {6, 7} => arg = "skill_cli"
  BY <1>3, <1>4
<1> HIDE DEF op, arg
<1>6. /\ m = 1 <=> p = Call("write", "result")
      /\ m = 2 <=> p = Call("hash", "result")
      /\ m = 3 <=> p = Call("store", "result")
      /\ m = 4 <=> p = Call("hash", "pytest")
      /\ m = 5 <=> p = Call("store", "pytest")
      /\ m = 6 <=> p = Call("hash", "skill_cli")
      /\ m = 7 <=> p = Call("store", "skill_cli")
  BY <1>2, <1>5
<1>7. ~Early(p)
  BY <1>2, <1>5, <1>6 DEF Early
<1> QED
  BY <1>2, <1>5, <1>6, <1>7

LEMMA ProgramShape ==
    /\ Len(OtherGates) \in Nat
    /\ Program \in Seq(Calls)
    /\ Len(Program) = Len(OtherGates) + 21
    /\ \A n \in 1 .. Len(Program) :
          /\ n < ResultAt => Early(Program[n])
          /\ n >= ResultAt => /\ n - Len(OtherGates) - 7 \in 1 .. 14
                             /\ Program[n] = Closing[n - Len(OtherGates) - 7]
<1> DEFINE k == Len(OtherGates)
           a == <<Call("register", ""), Call("claim", ""), Call("gate", "clean_checkout"),
                  Call("write", "pytest"), Call("gate", "unit_tests"),
                  Call("write", "skill_cli"), Call("gate", "skill_cli")>>
           b == [i \in DOMAIN OtherGates |-> Call("gate", OtherGates[i])]
           c == Closing
<1>1. /\ k \in Nat /\ DOMAIN OtherGates = 1 .. k
      /\ \A i \in 1 .. k : OtherGates[i] \in REQUIRED_GATES
  BY BenchmarkAssumption
<1>2. a \in Seq(Calls) /\ Len(a) = 7 /\ \A n \in 1 .. 7 : Early(a[n])
  <2>1. /\ Call("register", "") \in Calls /\ Call("claim", "") \in Calls
        /\ Call("gate", "clean_checkout") \in Calls
        /\ Call("gate", "unit_tests") \in Calls /\ Call("gate", "skill_cli") \in Calls
        /\ Call("write", "pytest") \in Calls /\ Call("write", "skill_cli") \in Calls
    BY DEF Calls, Call, Artifacts, REQUIRED_GATES
  <2>2. a \in Seq(Calls) /\ Len(a) = 7
    BY <2>1, SevenInSeq
  <2>3. /\ Early(a[1]) /\ Early(a[2]) /\ Early(a[3]) /\ Early(a[4])
        /\ Early(a[5]) /\ Early(a[6]) /\ Early(a[7])
    BY DEF Early, Call
  <2> HIDE DEF a
  <2>4. \A n \in 1 .. 7 : n \in {1, 2, 3, 4, 5, 6, 7}
    OBVIOUS
  <2> QED
    BY <2>2, <2>3, <2>4
<1>3. b \in Seq(Calls) /\ Len(b) = k /\ \A n \in 1 .. k : b[n] = Call("gate", OtherGates[n])
  <2>1. b \in [1 .. k -> Calls]
    BY <1>1 DEF Calls, Call
  <2> QED
    BY <1>1, <2>1
<1>4. c \in Seq(Calls) /\ Len(c) = 14
  <2>1. /\ \A op \in {"result_hash", "verify", "approve", "submit"} :
              Call(op, "") \in Calls
        /\ \A op \in {"write", "hash", "store"}, n \in Artifacts : Call(op, n) \in Calls
        /\ \A m \in Measurements : Call("measure", m) \in Calls
        /\ Call("outcome", "solved") \in Calls
    BY DEF Calls, Call
  <2>2. /\ Call("write", "result") \in Calls
        /\ Call("hash", "result") \in Calls /\ Call("store", "result") \in Calls
        /\ Call("hash", "pytest") \in Calls /\ Call("store", "pytest") \in Calls
        /\ Call("hash", "skill_cli") \in Calls /\ Call("store", "skill_cli") \in Calls
        /\ Call("result_hash", "") \in Calls
        /\ Call("measure", "orders_current_rows") \in Calls
        /\ Call("measure", "revenue_cents_checksum") \in Calls
        /\ Call("verify", "") \in Calls /\ Call("approve", "") \in Calls
        /\ Call("submit", "") \in Calls
    BY <2>1 DEF Artifacts, Measurements
  <2> QED
    BY <2>1, <2>2, FourteenInSeq DEF Closing
<1> DEFINE ab == a \o b
<1>6. Program = ab \o c
  BY DEF Program, Closing
<1> HIDE DEF k, a, b, c
<1>7. /\ ab \in Seq(Calls) /\ Len(ab) = 7 + k
      /\ \A n \in 1 .. 7 + k : ab[n] = IF n <= 7 THEN a[n] ELSE b[n - 7]
  <2>1. /\ ab \in Seq(Calls) /\ Len(ab) = Len(a) + Len(b)
        /\ \A n \in 1 .. Len(a) + Len(b) :
              ab[n] = IF n <= Len(a) THEN a[n] ELSE b[n - Len(a)]
    BY <1>2, <1>3, ConcatProperties
  <2> QED
    BY <1>1, <1>2, <1>3, <2>1
<1> HIDE DEF ab
<1>8. /\ Program \in Seq(Calls) /\ Len(Program) = 7 + k + 14
      /\ \A n \in 1 .. 7 + k + 14 :
            Program[n] = IF n <= 7 + k THEN ab[n] ELSE c[n - (7 + k)]
  <2>1. /\ ab \o c \in Seq(Calls) /\ Len(ab \o c) = Len(ab) + Len(c)
        /\ \A n \in 1 .. Len(ab) + Len(c) :
              (ab \o c)[n] = IF n <= Len(ab) THEN ab[n] ELSE c[n - Len(ab)]
    BY <1>4, <1>7, ConcatProperties
  <2> QED
    BY <1>4, <1>6, <1>7, <2>1
<1>9. ASSUME NEW n \in 1 .. 7 + k
      PROVE  Early(Program[n])
  <2>1. n \in 1 .. 7 + k + 14 /\ n <= 7 + k
    BY <1>1
  <2>2. Program[n] = IF n <= 7 THEN a[n] ELSE b[n - 7]
    BY <1>7, <1>8, <2>1
  <2>3. CASE n <= 7
    <3>1. n \in 1 .. 7 /\ Program[n] = a[n]
      BY <2>2, <2>3
    <3> QED
      BY <1>2, <3>1
  <2>4. CASE ~(n <= 7)
    <3>1. n - 7 \in 1 .. k /\ Program[n] = b[n - 7]
      BY <1>1, <2>2, <2>4
    <3> QED
      BY <1>3, <3>1 DEF Early, Call
  <2> QED
    BY <2>3, <2>4
<1>10. ASSUME NEW n \in 7 + k + 1 .. 7 + k + 14
       PROVE  n - k - 7 \in 1 .. 14 /\ Program[n] = c[n - k - 7]
  <2>1. /\ n \in 1 .. 7 + k + 14 /\ ~(n <= 7 + k)
        /\ n - k - 7 \in 1 .. 14 /\ n - (7 + k) = n - k - 7
    BY <1>1
  <2> QED
    BY <1>8, <2>1
<1>11. ResultAt = 7 + k + 1
  BY <1>1 DEF ResultAt, k
<1>12. ASSUME NEW n \in 1 .. Len(Program)
       PROVE  /\ n < ResultAt => Early(Program[n])
              /\ n >= ResultAt => n - k - 7 \in 1 .. 14 /\ Program[n] = c[n - k - 7]
  <2>1. CASE n <= 7 + k
    BY <1>1, <1>8, <1>9, <1>11, <2>1
  <2>2. CASE ~(n <= 7 + k)
    BY <1>1, <1>8, <1>10, <1>11, <2>2
  <2> QED
    BY <2>1, <2>2
<1>13. /\ Len(OtherGates) \in Nat /\ Program \in Seq(Calls)
       /\ Len(Program) = Len(OtherGates) + 21
  BY <1>1, <1>8 DEF k
<1> QED
  BY <1>12, <1>13, Zenon DEF k, c

\* Where the driver is when it makes a call.
LEMMA ProgramPlaces ==
    ASSUME NEW n \in 1 .. Len(Program)
    PROVE  /\ n \in Int /\ ResultAt \in Nat /\ Len(Program) = ResultAt + 13
           /\ n < ResultAt <=> Early(Program[n])
           /\ n = ResultAt <=> Program[n] = Call("write", "result")
           /\ n = ResultAt + 1 <=> Program[n] = Call("hash", "result")
           /\ n = ResultAt + 2 <=> Program[n] = Call("store", "result")
           /\ n = ResultAt + 3 <=> Program[n] = Call("hash", "pytest")
           /\ n = ResultAt + 4 <=> Program[n] = Call("store", "pytest")
           /\ n = ResultAt + 5 <=> Program[n] = Call("hash", "skill_cli")
           /\ n = ResultAt + 6 <=> Program[n] = Call("store", "skill_cli")
           /\ n = ResultAt + 7 <=> Program[n].op = "result_hash"
           /\ n > ResultAt + 7 <=>
                 Program[n].op \in {"measure", "outcome", "verify", "approve", "submit"}
           /\ n = Len(Program) <=> Program[n].op = "submit"
<1>1. /\ n \in Int /\ ResultAt \in Nat /\ Len(Program) = ResultAt + 13
      /\ ResultAt = Len(OtherGates) + 8 /\ Len(OtherGates) \in Nat
  BY ProgramShape DEF ResultAt
<1> DEFINE p == Program[n]
<1>2. CASE n < ResultAt
  <2>1. Early(p)
    BY <1>2, ProgramShape
  <2>2. p.op \in {"register", "claim", "gate", "write"} /\ p # Call("write", "result")
    BY <2>1 DEF Early
  <2> HIDE DEF p
  <2>3. \A arg : p # Call("hash", arg) /\ p # Call("store", arg)
    BY <2>2 DEF Call
  <2>4. /\ ~(n >= ResultAt) /\ ~(n > ResultAt + 7) /\ n # Len(Program)
        /\ \A i \in 0 .. 7 : n # ResultAt + i
    BY <1>1, <1>2
  <2> QED
    BY <1>1, <1>2, <2>1, <2>2, <2>3, <2>4 DEF p
<1>3. CASE ~(n < ResultAt)
  <2> DEFINE m == n - Len(OtherGates) - 7
  <2>1. m \in 1 .. 14 /\ p = Closing[m] /\ n = m + ResultAt - 1
    BY <1>1, <1>3, ProgramShape
  <2> HIDE DEF m, p
  <2>2. /\ n = ResultAt <=> m = 1
        /\ n = ResultAt + 1 <=> m = 2
        /\ n = ResultAt + 2 <=> m = 3
        /\ n = ResultAt + 3 <=> m = 4
        /\ n = ResultAt + 4 <=> m = 5
        /\ n = ResultAt + 5 <=> m = 6
        /\ n = ResultAt + 6 <=> m = 7
        /\ n = ResultAt + 7 <=> m = 8
        /\ n > ResultAt + 7 <=> m > 8
        /\ n = Len(Program) <=> m = 14
    BY <1>1, <2>1
  <2>3. /\ ~Early(p)
        /\ m = 1 <=> p = Call("write", "result")
        /\ m = 2 <=> p = Call("hash", "result")
        /\ m = 3 <=> p = Call("store", "result")
        /\ m = 4 <=> p = Call("hash", "pytest")
        /\ m = 5 <=> p = Call("store", "pytest")
        /\ m = 6 <=> p = Call("hash", "skill_cli")
        /\ m = 7 <=> p = Call("store", "skill_cli")
        /\ m = 8 <=> p.op = "result_hash"
        /\ m > 8 <=> p.op \in {"measure", "outcome", "verify", "approve", "submit"}
        /\ m = 14 <=> p.op = "submit"
    BY <2>1, ClosingPlaces
  <2> QED
    BY <1>1, <1>3, <2>2, <2>3, Zenon DEF p
<1> QED
  BY <1>2, <1>3

LEMMA ProgramCalls ==
    ASSUME NEW n \in 1 .. Len(Program)
    PROVE  /\ Program[n].op = "gate" => Program[n].arg \in REQUIRED_GATES
           /\ Program[n].op \in {"write", "hash", "store"} =>
                 Program[n].arg \in Artifacts
           /\ Program[n].op = "measure" => Program[n].arg \in Measurements
           /\ Program[n].op = "outcome" => Program[n].arg = "solved"
<1>1. Program[n] \in Calls
  BY ProgramShape
<1> QED
  BY <1>1 DEF Calls

-----------------------------------------------------------------------------
(* The invariant.  While the driver works the old comparison is gone; an   *)
(* attempt begins only after the one before it was submitted, and nothing  *)
(* the driver does later can change a submitted run.  The snapshot goes    *)
(* from memory into the file, from the file into a receipt, and from memory*)
(* into the declaration; ResultInv follows it through these calls.         *)

Submitted(r) == runs[r] # None /\ runs[r].status = "submitted"

\* The digest in the receipt of a run's result is the result it declares.
Tied(r) == runs[r].evidence.artifacts["result"].sha256 = runs[r].evidence.result_hash

Agree ==
    /\ Ledger!SameContract(runs[1].contract, runs[2].contract)
    /\ runs[1].evidence.result_hash = runs[2].evidence.result_hash
    /\ \A r \in Attempts \ swapped : Tied(r)

Working == phase \in {"checkout", "attempt"}

DriverInv ==
    /\ phase = "remove_comparison" => LedgerEmpty
    /\ Working \/ phase = "compare" => comparison = "absent"
    /\ Working => attempt \in Attempts /\ (attempt = 2 => Submitted(1))
    /\ phase = "attempt" =>
          /\ pc \in 1 .. Len(Program)
          /\ checkout \in Heads
          /\ pc > ResultAt => result \in Results
    /\ phase \in {"compare", "write"} => Submitted(1) /\ Submitted(2)
    /\ phase = "write" =>
          /\ verdict \in Verdicts
          /\ verdict = "passed" => Agree

DriverType ==
    /\ phase \in {"off", "prune", "remove_ledger", "remove_comparison", "checkout",
                  "attempt", "compare", "write"}
    /\ attempt \in {0} \cup Attempts
    /\ pc \in 0 .. Len(Program)
    /\ result \in Results \cup {None}
    /\ verdict \in Verdicts \cup {None}
    /\ comparison \in {"absent", "torn"} \cup Verdicts
    /\ head \in Heads
    /\ checkout \in Heads \cup {None}
    /\ faults \in 0 .. MaxFaults

\* The receipt under way is of this artifact of the attempt.
Holding(name) == pending["driver"].run = attempt /\ pending["driver"].name = name

\* How far the result of an attempt is: in its file, in the receipt under way,
\* in the run's receipt and declared.
ResultProgress ==
    /\ pc = ResultAt + 2 => Holding("result")
    /\ pc = ResultAt + 4 => Holding("pytest")
    /\ pc = ResultAt + 6 => Holding("skill_cli")
    /\ attempt \notin swapped =>
          /\ pc = ResultAt + 1 => files[<<attempt, "result">>] = result
          /\ pc = ResultAt + 2 => pending["driver"].receipt.sha256 = result
          /\ pc \in ResultAt + 3 .. ResultAt + 7 /\ L!Mutable(attempt) =>
                runs[attempt].evidence.artifacts["result"].sha256 = result
          /\ pc > ResultAt + 7 => Tied(attempt)

SubmittedTied == \A r \in Attempts \ swapped : Submitted(r) => Tied(r)

ResultInv ==
    /\ swapped \subseteq Attempts
    /\ phase = "attempt" => ResultProgress
    /\ SubmittedTied

WorktreeType == worktrees \in [Attempts -> WorktreeStates]

Inv == L!Inv /\ DriverType /\ WorktreeType /\ DriverInv /\ ResultInv /\ ComparisonStandsOnLedger

\* What every step owes beside the ledger.
DriverKept == DriverType' /\ DriverInv' /\ ComparisonStandsOnLedger'

LEMMA LedgerTyped == L!Inv => L!TypeOK
BY DEF L!Inv

LEMMA Founded ==
    ASSUME Submitted(1), Submitted(2), comparison = "passed" => Agree
    PROVE  ComparisonStandsOnLedger
BY DEF Submitted, Agree, Tied, ComparisonStandsOnLedger, Attempts

LEMMA AbsentIsFounded ==
    ASSUME comparison = "absent"
    PROVE  ComparisonStandsOnLedger
BY DEF ComparisonStandsOnLedger, Verdicts

-----------------------------------------------------------------------------
(* Every step of the driver that touches the ledger is a step of           *)
(* ControlPlane, but for the two that are not calls: rm and a crash.       *)

Position ==
    /\ attempt \in Attempts
    /\ pc \in 1 .. Len(Program)
    /\ checkout \in Heads
    /\ pc > ResultAt => result \in Results

LEMMA AtPosition ==
    ASSUME DriverInv, phase = "attempt"
    PROVE  Position
BY DEF DriverInv, Position, Working

\* The calls with an argument of the program.
LEMMA RecordingIsLedgerStep ==
    ASSUME Position,
           GateHolds \/ GateFails \/ SetResultHash \/ Measure \/ RecordOutcome
    PROVE  L!Next
<1>1. CASE GateHolds \/ GateFails
  <2>1. PICK s \in {"pass", "fail", "not_applicable"} :
           Ledger!RecordGate(attempt, Arg, s) /\ Program[pc].op = "gate"
    BY <1>1 DEF GateHolds, GateFails, At
  <2>2. Arg \in REQUIRED_GATES
    BY <2>1, ProgramCalls DEF Arg, Position
  <2>3. L!RecordGate(attempt, Arg, s)
    BY <2>1, SameHandlers
  <2> QED
    BY <2>2, <2>3 DEF L!Next, Position
<1>2. CASE SetResultHash
  <2>1. Ledger!SetResultHash(attempt, result) /\ Program[pc].op = "result_hash"
    BY <1>2 DEF SetResultHash, At
  <2>2. result \in Results
    <3>1. pc = ResultAt + 7 /\ ResultAt \in Nat
      BY <2>1, ProgramPlaces DEF Position
    <3> QED
      BY <3>1 DEF Position
  <2>3. L!SetResultHash(attempt, result)
    BY <2>1, SameHandlers
  <2> QED
    BY <2>2, <2>3 DEF L!Next, Position
<1>3. CASE Measure
  <2>1. Ledger!RecordMeasurement(attempt, Arg) /\ Program[pc].op = "measure"
    BY <1>3 DEF Measure, At
  <2>2. Arg \in Measurements
    BY <2>1, ProgramCalls DEF Arg, Position
  <2>3. L!RecordMeasurement(attempt, Arg)
    BY <2>1, SameHandlers
  <2> QED
    BY <2>2, <2>3 DEF L!Next, Position
<1>4. CASE RecordOutcome
  <2>1. Ledger!RecordOutcome(attempt, Arg) /\ Program[pc].op = "outcome"
    BY <1>4 DEF RecordOutcome, At
  <2>2. Arg \in {"solved"}
    BY <2>1, ProgramCalls DEF Arg, Position
  <2>3. L!RecordOutcome(attempt, Arg)
    BY <2>1, SameHandlers
  <2> QED
    BY <2>2, <2>3 DEF L!Next, Position
<1> QED
  BY <1>1, <1>2, <1>3, <1>4

\* The calls about the run itself.
LEMMA LifecycleIsLedgerStep ==
    ASSUME Position, Register \/ Claim \/ Verify \/ Approve \/ Submit
    PROVE  L!Next \/ UNCHANGED L!vars
<1>1. CASE Register
  <2>1. CASE Ledger!Register(attempt, Contract(attempt, checkout), None, FALSE)
    <3>1. L!Register(attempt, Contract(attempt, checkout), None, FALSE)
      BY <2>1, SameHandlers
    <3> DEFINE contracts == {Contract(a, h) : a \in Attempts, h \in Heads}
    <3>2. Contract(attempt, checkout) \in contracts
      BY DEF Position
    <3> HIDE DEF contracts
    <3>3. \E c \in contracts, parent \in Attempts \cup {None}, note \in BOOLEAN :
             L!Register(attempt, c, parent, note)
      BY <3>1, <3>2
    <3> QED
      BY <3>3 DEF L!Next, Position, contracts
  <2>2. CASE UNCHANGED ledger_vars
    BY <2>2 DEF ledger_vars, L!vars
  <2> QED
    BY <1>1, <2>1, <2>2 DEF Register
<1>2. CASE Claim
  <2>1. L!Claim(attempt, Worker[attempt])
    BY <1>2, SameHandlers DEF Claim
  <2>2. Worker[attempt] \in {Worker[a] : a \in Attempts} \cup {Reviewer}
    BY DEF Position
  <2> QED
    BY <2>1, <2>2 DEF L!Next, Position
<1>3. CASE Verify
  <2>1. L!Verify(attempt)
    BY <1>3, SameHandlers DEF Verify
  <2> QED
    BY <2>1 DEF L!Next, Position
<1>4. CASE Approve
  <2>1. L!Approve(attempt, Reviewer)
    BY <1>4, SameHandlers DEF Approve
  <2> QED
    BY <2>1 DEF L!Next, Position
<1>5. CASE Submit
  <2>1. L!Submit(attempt)
    BY <1>5, SameHandlers DEF Submit
  <2> QED
    BY <2>1 DEF L!Next, Position
<1> QED
  BY <1>1, <1>2, <1>3, <1>4, <1>5

\* The calls about files.
LEMMA FileIsLedgerStep ==
    ASSUME Position, WriteLog \/ WriteResult \/ HashArtifact \/ StoreReceipt
    PROVE  L!Next
<1>1. CASE WriteLog \/ WriteResult
  <2>1. PICK c \in Results \cup {"log"} :
           Ledger!EditFile(File(Arg), c) /\ Program[pc].op = "write"
    BY <1>1 DEF WriteLog, WriteResult, At
  <2>2. File(Arg) \in Attempts \X Artifacts
    BY <2>1, ProgramCalls DEF Arg, File, Position
  <2>3. L!EditFile(File(Arg), c)
    BY <2>1, SameHandlers
  <2> QED
    BY <2>2, <2>3 DEF L!Next
<1>2. CASE HashArtifact
  <2>1. Ledger!HashArtifact("driver", attempt, Arg, File(Arg)) /\ Program[pc].op = "hash"
    BY <1>2 DEF HashArtifact, At
  <2>2. Arg \in Artifacts /\ File(Arg) \in Attempts \X Artifacts
    BY <2>1, ProgramCalls DEF Arg, File, Position
  <2>3. L!HashArtifact("driver", attempt, Arg, File(Arg))
    BY <2>1, SameHandlers
  <2> QED
    BY <2>2, <2>3 DEF L!Next, Position
<1>3. CASE StoreReceipt
  <2>1. L!StoreReceipt("driver")
    BY <1>3, SameHandlers DEF StoreReceipt
  <2> QED
    BY <2>1 DEF L!Next
<1> QED
  BY <1>1, <1>2, <1>3

LEMMA LedgerStep ==
    ASSUME DriverInv, [Next]_vars
    PROVE  \/ [L!Next]_(L!vars)
           \/ RemoveLedger
           \/ Crash
<1>1. CASE \/ GateHolds \/ GateFails \/ SetResultHash \/ Measure \/ RecordOutcome
           \/ Register \/ Claim \/ Verify \/ Approve \/ Submit
           \/ WriteLog \/ WriteResult \/ HashArtifact \/ StoreReceipt
  <2>1. Position
    BY <1>1, AtPosition
       DEF At, GateHolds, GateFails, SetResultHash, Measure, RecordOutcome, Register,
           Claim, Verify, Approve, Submit, WriteLog, WriteResult, HashArtifact,
           StoreReceipt
  <2> QED
    BY <1>1, <2>1, RecordingIsLedgerStep, LifecycleIsLedgerStep, FileIsLedgerStep
<1>2. CASE TouchFile
  <2>1. PICK p \in Attempts \X Artifacts, c \in Results \cup {None} : L!EditFile(p, c)
    BY <1>2, SameHandlers DEF TouchFile
  <2> QED
    BY <2>1 DEF L!Next
<1>3. CASE \/ Start \/ Prune \/ RemoveComparison \/ RemoveWorktree \/ AddWorktree
           \/ GitRefuses \/ Compare \/ Write \/ Raise \/ MoveHead \/ UNCHANGED vars
  BY <1>3 DEF Start, Prune, RemoveComparison, RemoveWorktree, AddWorktree, GitRefuses,
              Compare, Write, Raise, MoveHead, vars, ledger_vars, L!vars
<1> QED
  BY <1>1, <1>2, <1>3 DEF Next, Step

\* What ControlPlane keeps, its ledger keeps here, whatever the script does.
LEMMA LedgerKept ==
    ASSUME L!Inv, DriverInv, [Next]_vars
    PROVE  L!Inv'
<1>1. CASE [L!Next]_(L!vars)
  BY <1>1, LedgerAssumptions, L!NextPreserves
<1>2. CASE RemoveLedger
  <2>1. /\ L!TypeOK'
        /\ \A r \in Attempts : runs'[r] = None
    <3>1. <<>> \in Seq(L!EventActions)
      OBVIOUS
    <3> QED
      BY <1>2, <3>1, LedgerTyped DEF RemoveLedger, L!TypeOK
  <2> QED
    BY <2>1 DEF L!Inv, L!EvidenceComplete, L!RetryLineage, L!RetriedNotAccepted,
                L!MigrationsNoted, L!Registered
<1>3. CASE Crash
  <2>1. L!TypeOK' /\ UNCHANGED runs
    BY <1>3, LedgerTyped DEF Crash, L!TypeOK
  <2> QED
    BY <2>1, LedgerAssumptions, L!RunsKept
<1> QED
  BY <1>1, <1>2, <1>3, LedgerStep

\* No call changes a submitted run.
LEMMA SubmittedStays ==
    ASSUME L!Inv, [L!Next]_(L!vars), NEW r \in Attempts, Submitted(r)
    PROVE  runs'[r] = runs[r] /\ Submitted(r)'
<1>1. L!FrozenStep
  BY LedgerAssumptions, L!NextFreezes
<1> QED
  BY <1>1 DEF L!FrozenStep, L!Registered, Submitted

-----------------------------------------------------------------------------
(* The driver.                                                             *)

\* A call returns and the script goes on with the next.  The last call of an
\* attempt returns only when its run is submitted.
LEMMA CallReturns ==
    ASSUME Inv, phase = "attempt", [L!Next]_(L!vars), Continue,
           result' \in Results \cup {None}, faults' \in 0 .. MaxFaults,
           pc >= ResultAt => result' \in Results,
           pc = Len(Program) =>
              runs'[attempt] # None /\ runs'[attempt].status = "submitted"
    PROVE  DriverKept
<1>1. Position /\ comparison = "absent" /\ (attempt = 2 => Submitted(1))
  BY AtPosition DEF Inv, DriverInv, Working
<1>2. /\ comparison' = "absent" /\ verdict' \in Verdicts \cup {None}
      /\ head' \in Heads /\ checkout' = checkout
  BY <1>1 DEF Continue, Inv, DriverType
<1>3. attempt = 2 => Submitted(1)'
  BY <1>1, SubmittedStays DEF Inv, Attempts
<1>4. pc \in Int /\ Len(Program) \in Int /\ ResultAt \in Int /\ Len(Program) >= 21
  BY <1>1, ProgramShape DEF Position, ResultAt
<1>5. CASE pc < Len(Program)
  <2>1. pc' = pc + 1 /\ phase' = "attempt" /\ attempt' = attempt
    BY <1>5 DEF Continue
  <2>2. pc' \in 1 .. Len(Program) /\ (pc' > ResultAt => result' \in Results)
    BY <1>1, <1>4, <1>5, <2>1 DEF Position
  <2>3. DriverInv'
    BY <1>1, <1>2, <1>3, <2>1, <2>2 DEF DriverInv, Working, Position
  <2>4. DriverType'
    BY <1>1, <1>2, <1>4, <2>1, <2>2 DEF DriverType, Position
  <2> QED
    BY <1>2, <2>3, <2>4 DEF DriverKept, ComparisonStandsOnLedger, Verdicts
<1>6. CASE ~(pc < Len(Program))
  <2>1. /\ pc = Len(Program) /\ pc' = 0
        /\ runs'[attempt] # None /\ runs'[attempt].status = "submitted"
    BY <1>1, <1>4, <1>6 DEF Continue, Position
  <2>2. CASE attempt = 1
    <3>1. phase' = "checkout" /\ attempt' = 2
      BY <1>6, <2>2 DEF Continue
    <3>2. DriverInv'
      BY <1>2, <2>1, <2>2, <3>1 DEF DriverInv, Working, Attempts, Submitted
    <3>3. DriverType'
      BY <1>1, <1>2, <1>4, <2>1, <3>1 DEF DriverType, Position, Attempts
    <3> QED
      BY <1>2, <3>2, <3>3 DEF DriverKept, ComparisonStandsOnLedger, Verdicts
  <2>3. CASE attempt = 2
    <3>1. phase' = "compare" /\ attempt' = attempt
      BY <1>6, <2>3 DEF Continue
    <3>2. DriverInv'
      BY <1>2, <1>3, <2>1, <2>3, <3>1 DEF DriverInv, Working, Submitted
    <3>3. DriverType'
      BY <1>1, <1>2, <1>4, <2>1, <3>1 DEF DriverType, Position
    <3> QED
      BY <1>2, <3>2, <3>3 DEF DriverKept, ComparisonStandsOnLedger, Verdicts
  <2> QED
    BY <1>1, <2>2, <2>3 DEF Position, Attempts
<1> QED
  BY <1>5, <1>6

\* The script ends, without having touched the comparison.
LEMMA ScriptEnds ==
    ASSUME Inv, Stop, UNCHANGED <<comparison, head, swapped>>, faults' \in 0 .. MaxFaults,
           comparison = "absent" \/ UNCHANGED runs
    PROVE  DriverKept
<1>1. DriverInv'
  BY DEF Stop, DriverInv, Working
<1>2. DriverType'
  BY DEF Stop, DriverType, Inv
<1>3. ComparisonStandsOnLedger'
  BY DEF Inv, ComparisonStandsOnLedger, LedgerEmpty, Verdicts
<1> QED
  BY <1>1, <1>2, <1>3 DEF DriverKept

\* The calls that only return.
LEMMA CallsKeep ==
    ASSUME Inv,
           \/ Register \/ Claim \/ GateHolds \/ GateFails \/ WriteLog \/ WriteResult
           \/ HashArtifact \/ StoreReceipt \/ SetResultHash \/ Measure
           \/ RecordOutcome
    PROVE  DriverKept
<1> DEFINE Goal == /\ phase = "attempt" /\ Continue /\ Program[pc].op # "submit"
                   /\ result' = result \/ WriteResult
                   /\ WriteResult \/ Program[pc] # Call("write", "result")
                   /\ \/ faults' = faults
                      \/ faults < MaxFaults /\ faults' = faults + 1
<1>1. Goal
  <2>1. /\ Call("write", "result").op = "write" /\ Call("write", "result").arg = "result"
    BY DEF Call
  <2>2. CASE Register \/ Claim \/ GateHolds \/ GateFails
    BY <2>1, <2>2 DEF Register, Claim, GateHolds, GateFails, At
  <2>3. CASE WriteLog \/ WriteResult
    BY <2>1, <2>3 DEF WriteLog, WriteResult, At, Arg
  <2>4. CASE HashArtifact \/ StoreReceipt
    BY <2>1, <2>4 DEF HashArtifact, StoreReceipt, At
  <2>5. CASE SetResultHash \/ Measure \/ RecordOutcome
    BY <2>1, <2>5 DEF SetResultHash, Measure, RecordOutcome, At
  <2> QED
    BY <2>2, <2>3, <2>4, <2>5
<1>2. Position
  BY <1>1, AtPosition DEF Inv
<1>3. [L!Next]_(L!vars)
  BY <1>2, RecordingIsLedgerStep, LifecycleIsLedgerStep, FileIsLedgerStep
<1>4. faults' \in 0 .. MaxFaults
  BY <1>1, BenchmarkAssumption DEF Inv, DriverType
<1>5. WriteResult => result' \in Results
  BY DEF WriteResult
<1>6. result' \in Results \cup {None}
  BY <1>1, <1>5 DEF Inv, DriverType
<1>7. pc >= ResultAt => result' \in Results
  <2>1. /\ pc \in Int /\ ResultAt \in Int
        /\ pc = ResultAt => Program[pc] = Call("write", "result")
    BY <1>2, ProgramPlaces DEF Position
  <2> QED
    BY <1>1, <1>2, <1>5, <2>1 DEF Position
<1>8. pc # Len(Program)
  BY <1>1, <1>2, ProgramPlaces DEF Position
<1> QED
  BY <1>1, <1>3, <1>4, <1>6, <1>7, <1>8, CallReturns

\* The calls that judge the run: the script ends there unless it passes.
LEMMA JudgementsKeep ==
    ASSUME Inv, Verify \/ Approve \/ Submit
    PROVE  DriverKept
<1>1. phase = "attempt" /\ Judged /\ Program[pc].op \in {"verify", "approve", "submit"}
  BY DEF Verify, Approve, Submit, At
<1>2. Position /\ comparison = "absent"
  BY <1>1, AtPosition DEF Inv, DriverInv, Working
<1>3. [L!Next]_(L!vars)
  BY <1>2, LifecycleIsLedgerStep
<1>4. faults' \in 0 .. MaxFaults
  BY <1>1 DEF Judged, Inv, DriverType
<1>5. CASE Ledger!Passes(attempt)
  <2>1. Continue /\ result' = result
    BY <1>1, <1>5 DEF Judged
  <2>2. pc >= ResultAt => result' \in Results
    <3>1. pc \in Int /\ ResultAt \in Int /\ pc > ResultAt
      BY <1>1, <1>2, ProgramPlaces DEF Position
    <3> QED
      BY <1>1, <1>2, <2>1, <3>1 DEF Position
  <2>3. ASSUME pc = Len(Program)
        PROVE  runs'[attempt] # None /\ runs'[attempt].status = "submitted"
    <3>1. L!Submit(attempt) /\ L!Passes(attempt)
      BY <1>2, <1>5, <2>3, ProgramPlaces, SameHandlers, SameReads
         DEF Verify, Approve, Submit, At, Position
    <3>2. attempt \in Attempts /\ runs[attempt] \in L!RunRecord
      BY <1>2, <3>1, LedgerTyped
         DEF Position, L!Submit, L!Registered, L!TypeOK, Inv
    <3>3. runs' = [runs EXCEPT ![attempt].status = "submitted"]
      BY <3>1 DEF L!Submit
    <3>4. runs \in [Attempts -> L!RunRecord \cup {None}] /\ None \notin L!RunRecord
      BY LedgerTyped, LedgerAssumptions DEF L!TypeOK, L!NoneAssumption, Inv
    <3>5. runs'[attempt] = [runs[attempt] EXCEPT !.status = "submitted"]
      BY <3>2, <3>3, <3>4
    <3>6. [runs[attempt] EXCEPT !.status = "submitted"] \in L!RunRecord
      BY <3>2 DEF L!RunRecord, L!RunStatus
    <3> QED
      BY <3>2, <3>4, <3>5, <3>6 DEF L!RunRecord
  <2>4. result' \in Results \cup {None}
    BY <2>1 DEF Inv, DriverType
  <2> QED
    BY <1>1, <1>3, <1>4, <2>1, <2>2, <2>3, <2>4, CallReturns
<1>6. CASE ~Ledger!Passes(attempt)
  <2>1. Stop /\ UNCHANGED <<comparison, head, swapped>>
    BY <1>1, <1>6 DEF Judged
  <2> QED
    BY <1>2, <1>4, <2>1, ScriptEnds
<1> QED
  BY <1>5, <1>6

\* Compared records agree in all but what runs may differ in, and the two
\* attempts of this driver name one candidate.
LEMMA PassedAgree ==
    ASSUME L!TypeOK, Submitted(1), Submitted(2), SubmittedTied,
           Ledger!ComparisonPasses(Ledger!Loaded(Attempts))
    PROVE  Agree
<1> DEFINE records == Ledger!Loaded(Attempts)
<1>1. /\ DOMAIN records = Attempts /\ 1 \in Attempts /\ 2 \in Attempts
      /\ \A r \in Attempts : /\ records[r].contract = runs[r].contract
                            /\ records[r].evidence = runs[r].evidence
  BY DEF Ledger!Loaded, Attempts
<1>2. Ledger!Comparable(records) /\ Ledger!HashesMatch(records)
  BY DEF Ledger!ComparisonPasses
<1> HIDE DEF records
<1>3. runs[1].evidence.result_hash = runs[2].evidence.result_hash
  BY <1>1, <1>2 DEF Ledger!HashesMatch
<1>4. \A r \in Attempts : runs[r] # None => runs[r].contract.candidate = "practice-pipeline"
  <2>1. \A r \in Attempts :
           runs[r] # None =>
              runs[r].contract \in {Contract(a, h) : a \in Attempts, h \in Heads}
    BY DEF L!TypeOK, L!RunRecord
  <2> QED
    BY <2>1, ContractFieldsKept
<1>5. runs[1].contract.candidate = runs[2].contract.candidate
  BY <1>1, <1>4 DEF Submitted
<1>6. \A f \in Ledger!ContractFields \ {"candidate", "attempt"} :
         runs[1].contract[f] = runs[2].contract[f]
  BY <1>1, <1>2 DEF Ledger!Comparable, Ledger!PerRunFields
<1>7. Ledger!SameContract(runs[1].contract, runs[2].contract)
  BY <1>5, <1>6 DEF Ledger!SameContract
<1>8. \A r \in Attempts \ swapped : Tied(r)
  BY DEF SubmittedTied, Attempts
<1> QED
  BY <1>3, <1>7, <1>8 DEF Agree

\* The steps of the script around the attempts.
LEMMA ScriptKeeps ==
    ASSUME Inv,
           \/ Start \/ Prune \/ RemoveLedger \/ RemoveComparison \/ RemoveWorktree
           \/ AddWorktree \/ GitRefuses \/ Compare \/ Write \/ Raise
    PROVE  DriverKept
<1>1. CASE Start \/ Prune
  BY <1>1 DEF Start, Prune, ledger_vars, driver_vars, Inv, DriverKept, DriverType,
              DriverInv, Working, ComparisonStandsOnLedger, LedgerEmpty
<1>2. CASE RemoveLedger
  <2>1. LedgerEmpty'
    BY <1>2 DEF RemoveLedger, LedgerEmpty, Attempts
  <2> QED
    BY <1>2, <2>1
       DEF RemoveLedger, driver_vars, Inv, DriverKept, DriverType, DriverInv, Working,
           ComparisonStandsOnLedger
<1>3. CASE RemoveComparison
  <2>1. /\ phase' = "checkout" /\ attempt' = 1 /\ comparison' = "absent"
        /\ UNCHANGED <<pc, result, verdict, head, checkout, faults>>
    BY <1>3 DEF RemoveComparison
  <2>2. DriverInv'
    BY <2>1 DEF DriverInv, Working, Attempts
  <2>3. DriverType'
    BY <2>1 DEF DriverType, Inv, Attempts
  <2> QED
    BY <2>1, <2>2, <2>3 DEF DriverKept, ComparisonStandsOnLedger
<1>4. CASE AddWorktree
  <2>1. /\ phase = "checkout" /\ phase' = "attempt" /\ checkout' = head /\ pc' = 1
        /\ UNCHANGED <<runs, attempt, result, verdict, comparison, head, faults>>
    BY <1>4 DEF AddWorktree, ledger_vars
  <2>2. 1 \in 1 .. Len(Program) /\ 1 \in 0 .. Len(Program) /\ ~(1 > ResultAt)
    BY ProgramShape DEF ResultAt
  <2>3. DriverInv'
    BY <2>1, <2>2 DEF DriverInv, DriverType, Working, Inv, Submitted
  <2>4. DriverType'
    BY <2>1, <2>2 DEF DriverType, Inv
  <2> QED
    BY <2>1, <2>3, <2>4 DEF DriverKept, ComparisonStandsOnLedger, DriverInv, Working, Inv
<1>5. CASE Compare
  <2>1. /\ phase = "compare" /\ phase' = "write" /\ comparison' = "torn"
        /\ UNCHANGED <<runs, attempt, pc, result, head, checkout, faults, swapped>>
        /\ verdict' \in Verdicts
        /\ verdict' = "passed" => Ledger!ComparisonPasses(Ledger!Loaded(Attempts))
    BY <1>5 DEF Compare, ledger_vars, Verdicts
  <2>2. Submitted(1) /\ Submitted(2)
    BY <2>1 DEF Inv, DriverInv
  <2>3. verdict' = "passed" => Agree
    BY <2>1, <2>2, PassedAgree, LedgerTyped DEF Inv, ResultInv
  <2>4. DriverInv'
    BY <2>1, <2>2, <2>3
       DEF DriverInv, Working, Submitted, Agree, Tied, Ledger!SameContract
  <2>5. DriverType'
    BY <2>1 DEF DriverType, Inv
  <2>6. ComparisonStandsOnLedger'
    BY <2>1, <2>2 DEF ComparisonStandsOnLedger, Submitted, Attempts
  <2> QED
    BY <2>4, <2>5, <2>6 DEF DriverKept
<1>6. CASE Write
  <2>1. /\ phase = "write" /\ comparison' = verdict /\ Stop
        /\ UNCHANGED <<runs, head, faults, swapped>>
    BY <1>6 DEF Write, ledger_vars
  <2>2. /\ Submitted(1) /\ Submitted(2) /\ verdict \in Verdicts
        /\ verdict = "passed" => Agree
    BY <2>1 DEF Inv, DriverInv
  <2>3. DriverInv'
    BY <2>1 DEF Stop, DriverInv, Working
  <2>4. DriverType'
    BY <2>1, <2>2 DEF Stop, DriverType, Inv
  <2>5. ComparisonStandsOnLedger'
    BY <2>1, <2>2
       DEF ComparisonStandsOnLedger, Submitted, Agree, Tied, Attempts,
           Ledger!SameContract
  <2> QED
    BY <2>3, <2>4, <2>5 DEF DriverKept
<1>7. CASE Raise \/ GitRefuses
  <2>1. /\ Stop /\ UNCHANGED <<comparison, head, faults, swapped>>
        /\ comparison = "absent"
    BY <1>7 DEF Raise, GitRefuses, Inv, DriverInv, Working
  <2> QED
    BY <2>1, ScriptEnds DEF Inv, DriverType
<1>8. CASE RemoveWorktree
  <2>1. /\ phase = "checkout"
        /\ UNCHANGED <<runs, phase, attempt, pc, result, verdict, comparison, head, checkout,
                       faults>>
    BY <1>8 DEF RemoveWorktree, ledger_vars, driver_vars
  <2>2. DriverInv'
    BY <2>1 DEF Inv, DriverInv, Working, Submitted
  <2>3. DriverType'
    BY <2>1 DEF Inv, DriverType
  <2>4. ComparisonStandsOnLedger'
    BY <2>1 DEF ComparisonStandsOnLedger, DriverInv, Working, Inv
  <2> QED
    BY <2>2, <2>3, <2>4 DEF DriverKept
<1> QED
  BY <1>1, <1>2, <1>3, <1>4, <1>5, <1>6, <1>7, <1>8

\* What goes wrong from outside.
LEMMA FaultsKeep ==
    ASSUME Inv, Crash \/ MoveHead \/ TouchFile
    PROVE  DriverKept
<1>1. faults' \in 0 .. MaxFaults
  BY BenchmarkAssumption DEF Crash, MoveHead, TouchFile, Fault, Inv, DriverType
<1>2. CASE Crash
  BY <1>1, <1>2, ScriptEnds DEF Crash
<1>3. CASE MoveHead \/ TouchFile
  <2>1. /\ UNCHANGED <<runs, phase, attempt, pc, result, verdict, comparison, checkout>>
        /\ head' \in Heads /\ swapped \subseteq swapped'
    BY <1>3 DEF MoveHead, TouchFile, ledger_vars, driver_vars, Ledger!EditFile, Inv,
                DriverType
  <2>2. DriverInv'
    BY <2>1 DEF Inv, DriverInv, Working, LedgerEmpty, Submitted, Agree, Tied,
                Ledger!SameContract
  <2>3. DriverType'
    BY <1>1, <2>1 DEF Inv, DriverType
  <2>4. ComparisonStandsOnLedger'
    BY <2>1 DEF Inv, ComparisonStandsOnLedger, LedgerEmpty, Ledger!SameContract
  <2> QED
    BY <2>2, <2>3, <2>4 DEF DriverKept
<1> QED
  BY <1>2, <1>3

-----------------------------------------------------------------------------
(* The result on its way from the file to the declaration.                 *)

\* No run is newly submitted.
NoneSubmitted == \A r \in Attempts : Submitted(r)' => runs'[r] = runs[r]

LEMMA SubmittedTiedStays ==
    ASSUME SubmittedTied, NoneSubmitted, swapped \subseteq swapped'
    PROVE  SubmittedTied'
BY DEF SubmittedTied, NoneSubmitted, Submitted, Tied

LEMMA AmendWrites ==
    ASSUME L!TypeOK, NEW r \in Attempts, NEW e, NEW act, L!Amend(r, e, act)
    PROVE  L!Mutable(r) /\ runs'[r].evidence = e /\ NoneSubmitted
<1>1. runs[r] \in L!RunRecord /\ L!Mutable(r)
  BY DEF L!Amend, L!Mutable, L!Registered, L!TypeOK
<1>2. runs' = [runs EXCEPT ![r] = [runs[r] EXCEPT !.evidence = e, !.status = "running"]]
  BY DEF L!Amend, L!TypeOK
<1>3. /\ runs'[r] = [runs[r] EXCEPT !.evidence = e, !.status = "running"]
      /\ \A x \in Attempts \ {r} : runs'[x] = runs[x]
  BY <1>2 DEF L!TypeOK
<1>4. runs'[r].evidence = e /\ runs'[r].status = "running"
  BY <1>1, <1>3 DEF L!RunRecord
<1> QED
  BY <1>1, <1>3, <1>4 DEF NoneSubmitted, Submitted

LEMMA VerdictWrites ==
    ASSUME L!TypeOK, NEW r \in L!Registered, L!Verdict(r)
    PROVE  runs'[r].evidence = runs[r].evidence /\ NoneSubmitted
<1>1. r \in Attempts /\ runs[r] \in L!RunRecord
  BY DEF L!Registered, L!TypeOK
<1>2. PICK s \in {"verified", "failed"} : runs' = [runs EXCEPT ![r].status = s]
  BY DEF L!Verdict
<1>3. runs' = [runs EXCEPT ![r] = [runs[r] EXCEPT !.status = s]]
  BY <1>1, <1>2 DEF L!TypeOK
<1>4. /\ runs'[r] = [runs[r] EXCEPT !.status = s]
      /\ \A x \in Attempts \ {r} : runs'[x] = runs[x]
  BY <1>1, <1>3 DEF L!TypeOK
<1>5. runs'[r].evidence = runs[r].evidence /\ runs'[r].status = s
  BY <1>1, <1>4 DEF L!RunRecord
<1> QED
  BY <1>1, <1>4, <1>5 DEF NoneSubmitted, Submitted

\* The call returns within its attempt.
LEMMA NextCall ==
    ASSUME Position, phase = "attempt", Continue, pc # Len(Program)
    PROVE  /\ pc' = pc + 1 /\ phase' = "attempt" /\ attempt' = attempt
           /\ swapped' = swapped
BY ProgramPlaces DEF Position, Continue

\* Up to the writing of the result there is nothing to keep.
LEMMA EarlyKeepResult ==
    ASSUME Inv, Register \/ Claim \/ GateHolds \/ GateFails \/ WriteLog
    PROVE  ResultInv'
<1>1. phase = "attempt" /\ Continue
  BY DEF Register, Claim, GateHolds, GateFails, WriteLog, At
<1>2. Position
  BY <1>1, AtPosition DEF Inv
<1>3. Early(Program[pc])
  <2>1. CASE Register \/ Claim \/ GateHolds \/ GateFails
    <3>1. Program[pc].op \in {"register", "claim", "gate"}
      BY <2>1 DEF Register, Claim, GateHolds, GateFails, At
    <3> QED
      BY <3>1 DEF Early, Call
  <2>2. CASE WriteLog
    <3>1. Program[pc].op = "write" /\ Program[pc].arg # "result"
      BY <2>2 DEF WriteLog, At, Arg
    <3> QED
      BY <3>1 DEF Early, Call
  <2> QED
    BY <2>1, <2>2
<1>4. /\ pc \in Int /\ ResultAt \in Nat /\ pc < ResultAt /\ pc # Len(Program)
  BY <1>2, <1>3, ProgramPlaces DEF Position
<1>5. /\ pc' = pc + 1 /\ phase' = "attempt" /\ attempt' = attempt /\ swapped' = swapped
  BY <1>1, <1>2, <1>4, NextCall
<1>6. ResultProgress'
  BY <1>4, <1>5 DEF ResultProgress
<1>7. NoneSubmitted
  <2>1. L!TypeOK /\ attempt \in Attempts
    BY <1>2, LedgerTyped DEF Inv, Position
  <2>2. CASE Register
    <3>1. CASE UNCHANGED runs
      BY <3>1 DEF NoneSubmitted
    <3>2. CASE Ledger!Register(attempt, Contract(attempt, checkout), None, FALSE)
      <4> DEFINE rec == [contract       |-> Contract(attempt, checkout),
                         retry_of       |-> None,
                         migration_note |-> FALSE,
                         status         |-> "registered",
                         approved_by    |-> None,
                         evidence       |-> L!EmptyEvidence]
      <4>1. runs' = [runs EXCEPT ![attempt] = rec]
        BY <3>2, SameHandlers DEF L!Register
      <4>2. rec.status = "registered"
        OBVIOUS
      <4> HIDE DEF rec
      <4> QED
        BY <2>1, <4>1, <4>2 DEF NoneSubmitted, Submitted, L!TypeOK
    <3> QED
      BY <2>2, <3>1, <3>2 DEF Register, ledger_vars
  <2>3. CASE Claim
    <3>1. L!Claim(attempt, Worker[attempt])
      BY <2>3, SameHandlers DEF Claim
    <3> DEFINE rec == [runs[attempt] EXCEPT !.evidence.owner = Worker[attempt],
                                            !.status = "claimed"]
    <3>2. runs[attempt] \in L!RunRecord
      BY <2>1, <3>1 DEF L!Claim, L!Mutable, L!Registered, L!TypeOK
    <3>3. runs' = [runs EXCEPT ![attempt] = rec]
      BY <2>1, <3>1 DEF L!Claim, L!TypeOK
    <3>4. rec.status = "claimed"
      BY <3>2 DEF L!RunRecord
    <3> HIDE DEF rec
    <3> QED
      BY <2>1, <3>3, <3>4 DEF NoneSubmitted, Submitted, L!TypeOK
  <2>4. CASE GateHolds \/ GateFails
    <3>1. PICK s : Ledger!RecordGate(attempt, Arg, s)
      BY <2>4 DEF GateHolds, GateFails
    <3>2. L!RecordGate(attempt, Arg, s)
      BY <3>1, SameHandlers
    <3> QED
      BY <2>1, <3>2, AmendWrites DEF L!RecordGate
  <2>5. CASE WriteLog
    BY <2>5 DEF WriteLog, Ledger!EditFile, NoneSubmitted
  <2> QED
    BY <2>2, <2>3, <2>4, <2>5
<1>8. SubmittedTied'
  BY <1>5, <1>7, SubmittedTiedStays DEF Inv, ResultInv
<1> QED
  BY <1>5, <1>6, <1>8 DEF Inv, ResultInv

LEMMA WriteResultKeepsResult ==
    ASSUME Inv, WriteResult
    PROVE  ResultInv'
<1>1. /\ phase = "attempt" /\ Continue
      /\ Program[pc].op = "write" /\ Program[pc].arg = "result"
  BY DEF WriteResult, At, Arg
<1>2. Position /\ L!TypeOK
  BY <1>1, AtPosition, LedgerTyped DEF Inv
<1>3. pc \in Int /\ ResultAt \in Nat /\ pc = ResultAt /\ pc # Len(Program)
  <2>1. /\ Program[pc] \in Calls
    BY <1>2, ProgramShape DEF Position
  <2>2. Program[pc] = Call("write", "result")
    BY <1>1, <2>1 DEF Calls, Call
  <2> QED
    BY <1>1, <1>2, <2>2, ProgramPlaces DEF Position
<1>4. /\ pc' = pc + 1 /\ phase' = "attempt" /\ attempt' = attempt /\ swapped' = swapped
  BY <1>1, <1>2, <1>3, NextCall
<1>5. files'[<<attempt, "result">>] = result'
  <2>1. PICK s \in Results : result' = s /\ Ledger!EditFile(File(Arg), s)
    BY DEF WriteResult
  <2>2. files' = [files EXCEPT ![<<attempt, "result">>] = s]
    BY <1>1, <2>1 DEF Ledger!EditFile, File, Arg
  <2>3. <<attempt, "result">> \in Attempts \X Artifacts
    BY <1>2 DEF Position, Artifacts
  <2> QED
    BY <1>2, <2>1, <2>2, <2>3 DEF L!TypeOK
<1>6. ResultProgress'
  BY <1>3, <1>4, <1>5 DEF ResultProgress
<1>7. UNCHANGED runs
  BY DEF WriteResult, Ledger!EditFile
<1>8. SubmittedTied'
  BY <1>4, <1>7, SubmittedTiedStays DEF Inv, ResultInv, NoneSubmitted
<1> QED
  BY <1>4, <1>6, <1>8 DEF Inv, ResultInv

LEMMA HashKeepsResult ==
    ASSUME Inv, HashArtifact
    PROVE  ResultInv'
<1>1. phase = "attempt" /\ Continue /\ Program[pc].op = "hash" /\ result' = result
  BY DEF HashArtifact, At
<1>2. Position /\ L!TypeOK
  BY <1>1, AtPosition, LedgerTyped DEF Inv
<1>3. /\ pc \in Int /\ ResultAt \in Nat /\ pc # Len(Program)
      /\ \/ pc = ResultAt + 1 /\ Arg = "result"
         \/ pc = ResultAt + 3 /\ Arg = "pytest"
         \/ pc = ResultAt + 5 /\ Arg = "skill_cli"
  <2>1. /\ Program[pc] \in Calls
    BY <1>2, ProgramShape DEF Position
  <2>2. PICK n \in Artifacts : Program[pc] = Call("hash", n)
    BY <1>1, <2>1 DEF Calls, Call
  <2>3. Arg = n
    BY <2>2 DEF Arg, Call
  <2>4. n \in {"result", "pytest", "skill_cli"}
    BY DEF Artifacts
  <2> QED
    BY <1>1, <1>2, <2>2, <2>3, <2>4, ProgramPlaces DEF Position
<1>4. /\ pc' = pc + 1 /\ phase' = "attempt" /\ attempt' = attempt /\ swapped' = swapped
  BY <1>1, <1>2, <1>3, NextCall
<1>5. /\ UNCHANGED runs
      /\ pending'["driver"].run = attempt
      /\ pending'["driver"].name = Arg
      /\ pending'["driver"].receipt.sha256 = files[<<attempt, Arg>>]
  <2> DEFINE rec == [run |-> attempt, name |-> Arg,
                     receipt |-> [path |-> File(Arg), sha256 |-> files[File(Arg)]]]
  <2>1. /\ pending' = [pending EXCEPT !["driver"] = rec] /\ UNCHANGED runs
    BY SameHandlers DEF HashArtifact, L!HashArtifact
  <2>2. /\ rec.run = attempt /\ rec.name = Arg
        /\ rec.receipt.sha256 = files[<<attempt, Arg>>]
    BY DEF File
  <2> HIDE DEF rec
  <2>3. pending'["driver"] = rec
    BY <1>2, <2>1 DEF L!TypeOK
  <2> QED
    BY <2>1, <2>2, <2>3
<1>6. ResultProgress'
  <2>1. ResultProgress
    BY <1>1 DEF Inv, ResultInv
  <2>2. L!Mutable(attempt)' => L!Mutable(attempt)
    BY <1>4, <1>5 DEF L!Mutable, L!Registered, L!Retried
  <2>3. CASE pc = ResultAt + 1 /\ Arg = "result"
    BY <1>1, <1>3, <1>4, <1>5, <2>1, <2>3 DEF ResultProgress, Holding
  <2>4. CASE pc = ResultAt + 3 /\ Arg = "pytest"
    BY <1>1, <1>3, <1>4, <1>5, <2>1, <2>2, <2>4 DEF ResultProgress, Holding
  <2>5. CASE pc = ResultAt + 5 /\ Arg = "skill_cli"
    BY <1>1, <1>3, <1>4, <1>5, <2>1, <2>2, <2>5 DEF ResultProgress, Holding
  <2> QED
    BY <1>3, <2>3, <2>4, <2>5
<1>7. SubmittedTied'
  BY <1>4, <1>5, SubmittedTiedStays DEF Inv, ResultInv, NoneSubmitted
<1> QED
  BY <1>4, <1>6, <1>7 DEF Inv, ResultInv

\* A receipt is stored only in the run it was computed for, under its name.
LEMMA StoreKeepsResult ==
    ASSUME Inv, StoreReceipt
    PROVE  ResultInv'
<1>1. phase = "attempt" /\ Continue /\ Program[pc].op = "store" /\ result' = result
  BY DEF StoreReceipt, At
<1>2. Position /\ L!TypeOK /\ ResultProgress
  BY <1>1, AtPosition, LedgerTyped DEF Inv, ResultInv
<1> DEFINE name == pending["driver"].name
           receipt == pending["driver"].receipt
<1>3. /\ pc \in Int /\ ResultAt \in Nat /\ pc # Len(Program)
      /\ pc \in {ResultAt + 2, ResultAt + 4, ResultAt + 6}
  <2>1. /\ Program[pc] \in Calls
    BY <1>2, ProgramShape DEF Position
  <2>2. PICK n \in Artifacts : Program[pc] = Call("store", n)
    BY <1>1, <2>1 DEF Calls, Call
  <2>3. n \in {"result", "pytest", "skill_cli"}
    BY DEF Artifacts
  <2> QED
    BY <1>1, <1>2, <2>2, <2>3, ProgramPlaces DEF Position
<1>4. /\ pc' = pc + 1 /\ phase' = "attempt" /\ attempt' = attempt /\ swapped' = swapped
  BY <1>1, <1>2, <1>3, NextCall
<1>5. /\ pending["driver"].run = attempt
      /\ pc = ResultAt + 2 => name = "result"
      /\ pc # ResultAt + 2 => name \in Artifacts \ {"result"}
  BY <1>2, <1>3 DEF ResultProgress, Holding, Artifacts
<1>6. \/ UNCHANGED runs /\ ~L!Mutable(attempt)
      \/ L!Amend(attempt, [runs[attempt].evidence EXCEPT !.artifacts[name] = receipt],
                 "artifact")
  BY <1>5, SameHandlers DEF StoreReceipt, L!StoreReceipt
<1>7. ResultProgress' /\ NoneSubmitted
  <2>1. CASE UNCHANGED runs /\ ~L!Mutable(attempt)
    <3>1. ~L!Mutable(attempt)'
      BY <1>4, <2>1 DEF L!Mutable, L!Registered, L!Retried
    <3> QED
      BY <1>3, <1>4, <2>1, <3>1 DEF ResultProgress, NoneSubmitted
  <2>2. CASE L!Amend(attempt, [runs[attempt].evidence EXCEPT !.artifacts[name] = receipt],
                     "artifact")
    <3> DEFINE old == runs[attempt].evidence
               new == [old EXCEPT !.artifacts[name] = receipt]
    <3>1. L!Mutable(attempt) /\ runs'[attempt].evidence = new /\ NoneSubmitted
      BY <1>2, <2>2, AmendWrites DEF Position
    <3>2. old \in L!Evidence
      BY <1>2, <3>1 DEF L!Mutable, L!Registered, L!TypeOK, L!RunRecord
    <3>3. new.artifacts = [old.artifacts EXCEPT ![name] = receipt]
      BY <3>2 DEF L!Evidence
    <3>4. "result" \in Artifacts /\ DOMAIN old.artifacts = Artifacts
      BY <3>2 DEF L!Evidence, Artifacts
    <3> HIDE DEF new, old
    <3>5. /\ pc = ResultAt + 2 => new.artifacts["result"] = receipt
          /\ pc # ResultAt + 2 => new.artifacts["result"] = old.artifacts["result"]
      BY <1>5, <3>2, <3>3, <3>4 DEF L!Evidence
    <3>6. attempt \notin swapped =>
             runs'[attempt].evidence.artifacts["result"].sha256 = result
      BY <1>2, <1>3, <3>1, <3>5 DEF ResultProgress, old
    <3>7. ResultProgress'
      BY <1>1, <1>3, <1>4, <3>6 DEF ResultProgress
    <3> QED
      BY <3>1, <3>7
  <2> QED
    BY <1>6, <2>1, <2>2
<1>8. SubmittedTied'
  BY <1>4, <1>7, SubmittedTiedStays DEF Inv, ResultInv
<1> QED
  BY <1>4, <1>7, <1>8 DEF Inv, ResultInv

\* What is declared is in memory since it was written to the file.
LEMMA DeclarationKeepsResult ==
    ASSUME Inv, SetResultHash
    PROVE  ResultInv'
<1>1. phase = "attempt" /\ Continue /\ Program[pc].op = "result_hash" /\ result' = result
  BY DEF SetResultHash, At
<1>2. Position /\ L!TypeOK /\ ResultProgress
  BY <1>1, AtPosition, LedgerTyped DEF Inv, ResultInv
<1>3. pc \in Int /\ ResultAt \in Nat /\ pc = ResultAt + 7 /\ pc # Len(Program)
  BY <1>1, <1>2, ProgramPlaces DEF Position
<1>4. /\ pc' = pc + 1 /\ phase' = "attempt" /\ attempt' = attempt /\ swapped' = swapped
  BY <1>1, <1>2, <1>3, NextCall
<1> DEFINE old == runs[attempt].evidence
           new == [old EXCEPT !.result_hash = result]
<1>5. L!Mutable(attempt) /\ runs'[attempt].evidence = new /\ NoneSubmitted
  <2>1. L!SetResultHash(attempt, result)
    BY SameHandlers DEF SetResultHash
  <2> QED
    BY <1>2, <2>1, AmendWrites DEF L!SetResultHash, Position
<1>6. old \in L!Evidence
  BY <1>2, <1>5 DEF L!Mutable, L!Registered, L!TypeOK, L!RunRecord
<1>7. new.result_hash = result /\ new.artifacts = old.artifacts
  BY <1>6 DEF L!Evidence
<1>8. attempt \notin swapped => Tied(attempt)'
  <2>1. attempt \notin swapped => old.artifacts["result"].sha256 = result
    BY <1>2, <1>3, <1>5 DEF ResultProgress
  <2> HIDE DEF old, new
  <2> QED
    BY <1>4, <1>5, <1>7, <2>1 DEF Tied
<1>9. ResultProgress'
  BY <1>3, <1>4, <1>8 DEF ResultProgress
<1>10. SubmittedTied'
  BY <1>4, <1>5, SubmittedTiedStays DEF Inv, ResultInv
<1> QED
  BY <1>4, <1>9, <1>10 DEF Inv, ResultInv

LEMMA LateKeepResult ==
    ASSUME Inv, Measure \/ RecordOutcome
    PROVE  ResultInv'
<1>1. /\ phase = "attempt" /\ Continue /\ Program[pc].op \in {"measure", "outcome"}
  BY DEF Measure, RecordOutcome, At
<1>2. Position /\ L!TypeOK /\ ResultProgress
  BY <1>1, AtPosition, LedgerTyped DEF Inv, ResultInv
<1>3. pc \in Int /\ ResultAt \in Nat /\ pc > ResultAt + 7 /\ pc # Len(Program)
  BY <1>1, <1>2, ProgramPlaces DEF Position
<1>4. /\ pc' = pc + 1 /\ phase' = "attempt" /\ attempt' = attempt /\ swapped' = swapped
  BY <1>1, <1>2, <1>3, NextCall
<1> DEFINE old == runs[attempt].evidence
<1>5. /\ runs'[attempt].evidence.artifacts = old.artifacts
      /\ runs'[attempt].evidence.result_hash = old.result_hash
      /\ NoneSubmitted
  <2>1. CASE Measure
    <3> DEFINE new == [old EXCEPT !.measurements = @ \cup {Arg}]
    <3>1. L!Mutable(attempt) /\ runs'[attempt].evidence = new /\ NoneSubmitted
      <4>1. L!RecordMeasurement(attempt, Arg)
        BY <2>1, SameHandlers DEF Measure
      <4> QED
        BY <1>2, <4>1, AmendWrites DEF L!RecordMeasurement, Position
    <3>2. old \in L!Evidence
      BY <1>2, <3>1 DEF L!Mutable, L!Registered, L!TypeOK, L!RunRecord
    <3> QED
      BY <3>1, <3>2 DEF L!Evidence
  <2>2. CASE RecordOutcome
    <3> DEFINE new == [old EXCEPT !.outcome = Arg]
    <3>1. L!Mutable(attempt) /\ runs'[attempt].evidence = new /\ NoneSubmitted
      <4>1. L!RecordOutcome(attempt, Arg)
        BY <2>2, SameHandlers DEF RecordOutcome
      <4> QED
        BY <1>2, <4>1, AmendWrites DEF L!RecordOutcome, Position
    <3>2. old \in L!Evidence
      BY <1>2, <3>1 DEF L!Mutable, L!Registered, L!TypeOK, L!RunRecord
    <3> QED
      BY <3>1, <3>2 DEF L!Evidence
  <2> QED
    BY <2>1, <2>2
<1>6. attempt \notin swapped => Tied(attempt)'
  BY <1>2, <1>3, <1>4, <1>5 DEF ResultProgress, Tied
<1>7. ResultProgress'
  BY <1>3, <1>4, <1>6 DEF ResultProgress
<1>8. SubmittedTied'
  BY <1>4, <1>5, SubmittedTiedStays DEF Inv, ResultInv
<1> QED
  BY <1>4, <1>7, <1>8 DEF Inv, ResultInv

\* Judging a run does not touch its evidence.
LEMMA JudgementKeepsEvidence ==
    ASSUME L!TypeOK, attempt \in Attempts,
           \/ L!Verify(attempt) \/ L!Approve(attempt, Reviewer) \/ L!Submit(attempt)
    PROVE  /\ runs'[attempt].evidence = runs[attempt].evidence
           /\ \A x \in Attempts \ {attempt} : Submitted(x)' => runs'[x] = runs[x]
           /\ L!Submit(attempt) \/ NoneSubmitted
<1>1. attempt \in L!Registered /\ runs[attempt] \in L!RunRecord
  BY DEF L!Verify, L!Approve, L!Submit, L!Mutable, L!Registered, L!TypeOK
<1>2. CASE L!Verdict(attempt)
  BY <1>1, <1>2, VerdictWrites DEF NoneSubmitted
<1>3. CASE L!Approve(attempt, Reviewer) /\ L!Passes(attempt)
  <2> DEFINE rec == [runs[attempt] EXCEPT !.status = "approved", !.approved_by = Reviewer]
  <2>1. runs' = [runs EXCEPT ![attempt] = rec]
    BY <1>3 DEF L!Approve, L!TypeOK
  <2>2. rec.evidence = runs[attempt].evidence /\ rec.status = "approved"
    BY <1>1 DEF L!RunRecord
  <2> HIDE DEF rec
  <2> QED
    BY <2>1, <2>2 DEF NoneSubmitted, Submitted, L!TypeOK
<1>4. CASE L!Submit(attempt) /\ L!Passes(attempt)
  <2> DEFINE rec == [runs[attempt] EXCEPT !.status = "submitted"]
  <2>1. runs' = [runs EXCEPT ![attempt] = rec]
    BY <1>4 DEF L!Submit, L!TypeOK
  <2>2. rec.evidence = runs[attempt].evidence
    BY <1>1 DEF L!RunRecord
  <2> HIDE DEF rec
  <2> QED
    BY <1>4, <2>1, <2>2 DEF L!TypeOK
<1> QED
  BY <1>2, <1>3, <1>4 DEF L!Verify, L!Approve, L!Submit

LEMMA JudgementsKeepResult ==
    ASSUME Inv, Verify \/ Approve \/ Submit
    PROVE  ResultInv'
<1>1. phase = "attempt" /\ Judged /\ Program[pc].op \in {"verify", "approve", "submit"}
  BY DEF Verify, Approve, Submit, At
<1>2. Position /\ L!TypeOK /\ ResultProgress
  BY <1>1, AtPosition, LedgerTyped DEF Inv, ResultInv
<1>3. pc \in Int /\ ResultAt \in Nat /\ pc > ResultAt + 7
  BY <1>1, <1>2, ProgramPlaces DEF Position
<1>4. swapped' = swapped
  BY <1>1 DEF Judged, Continue
<1>5. /\ runs'[attempt].evidence = runs[attempt].evidence
      /\ \A x \in Attempts \ {attempt} : Submitted(x)' => runs'[x] = runs[x]
  BY <1>2, SameHandlers, JudgementKeepsEvidence DEF Verify, Approve, Submit, Position
<1>6. attempt \notin swapped =>
         runs'[attempt].evidence.artifacts["result"].sha256
             = runs'[attempt].evidence.result_hash
  BY <1>2, <1>3, <1>5 DEF ResultProgress, Tied
<1>7. SubmittedTied'
  <2> SUFFICES ASSUME NEW r \in Attempts \ swapped, Submitted(r)'
               PROVE  Tied(r)'
    BY <1>4 DEF SubmittedTied
  <2>1. CASE r = attempt
    BY <1>6, <2>1 DEF Tied
  <2>2. CASE r # attempt
    BY <1>5, <2>2 DEF Tied, Submitted, SubmittedTied, Inv, ResultInv
  <2> QED
    BY <2>1, <2>2
<1>8. ASSUME phase' = "attempt"
      PROVE  ResultProgress'
  <2>1. pc' = pc + 1 /\ attempt' = attempt
    <3>1. Len(Program) \in Int /\ pc < Len(Program)
      BY <1>1, <1>2, <1>8, ProgramShape DEF Judged, Continue, Stop, Position
    <3> QED
      BY <1>1, <1>8, <3>1 DEF Judged, Continue, Stop
  <2> QED
    BY <1>3, <1>4, <1>6, <2>1 DEF ResultProgress, Tied
<1> QED
  BY <1>4, <1>7, <1>8 DEF Inv, ResultInv

LEMMA UnchangedKeepsResult ==
    ASSUME ResultInv,
           UNCHANGED <<runs, files, pending, phase, attempt, pc, result, swapped>>
    PROVE  ResultInv'
<1>1. L!Mutable(attempt)' => L!Mutable(attempt)
  BY DEF L!Mutable, L!Registered, L!Retried
<1> QED
  BY <1>1 DEF ResultInv, ResultProgress, SubmittedTied, Submitted, Tied, Holding

LEMMA ScriptKeepsResult ==
    ASSUME Inv,
           \/ Start \/ Prune \/ RemoveLedger \/ RemoveComparison \/ RemoveWorktree
           \/ AddWorktree \/ GitRefuses \/ Compare \/ Write \/ Raise \/ Crash \/ MoveHead
    PROVE  ResultInv'
<1>1. CASE RemoveLedger
  <2>1. swapped' = {} /\ phase' # "attempt" /\ \A r \in Attempts : runs'[r] = None
    BY <1>1 DEF RemoveLedger
  <2> QED
    BY <2>1 DEF ResultInv, SubmittedTied, Submitted
<1>2. CASE AddWorktree
  <2>1. /\ pc' = 1 /\ swapped' = swapped /\ UNCHANGED runs
    BY <1>2 DEF AddWorktree, ledger_vars
  <2>2. ResultAt \in Nat /\ ResultAt >= 8
    BY ProgramShape DEF ResultAt
  <2>3. ResultProgress'
    BY <2>1, <2>2 DEF ResultProgress
  <2>4. SubmittedTied'
    BY <2>1, SubmittedTiedStays DEF Inv, ResultInv, NoneSubmitted
  <2> QED
    BY <2>1, <2>3, <2>4 DEF Inv, ResultInv
<1>3. CASE \/ Start \/ Prune \/ RemoveComparison \/ RemoveWorktree \/ GitRefuses
           \/ Compare \/ Write \/ Raise \/ Crash
  <2>1. UNCHANGED <<runs, swapped>> /\ phase' # "attempt"
    BY <1>3 DEF Start, Prune, RemoveComparison, RemoveWorktree, GitRefuses, Compare, Write,
                Raise, Crash, Stop, ledger_vars
  <2>2. SubmittedTied'
    BY <2>1, SubmittedTiedStays DEF Inv, ResultInv, NoneSubmitted
  <2> QED
    BY <2>1, <2>2 DEF Inv, ResultInv
<1>4. CASE MoveHead
  <2>1. UNCHANGED <<runs, files, pending, phase, attempt, pc, result, swapped>>
    BY <1>4 DEF MoveHead, ledger_vars, driver_vars
  <2> QED
    BY <2>1, UnchangedKeepsResult DEF Inv
<1> QED
  BY <1>1, <1>2, <1>3, <1>4

LEMMA TouchKeepsResult ==
    ASSUME Inv, TouchFile
    PROVE  ResultInv'
<1>1. PICK p \in Attempts \X Artifacts, c \in Results \cup {None} :
         /\ Ledger!EditFile(p, c)
         /\ swapped' = IF Waiting(p) THEN swapped \cup {attempt} ELSE swapped
  BY DEF TouchFile
<1>2. /\ UNCHANGED <<runs, pending, phase, attempt, pc, result>>
      /\ files' = [files EXCEPT ![p] = c]
      /\ swapped \subseteq swapped'
  BY <1>1 DEF TouchFile, Ledger!EditFile, driver_vars
<1>3. SubmittedTied'
  BY <1>2, SubmittedTiedStays DEF Inv, ResultInv, NoneSubmitted
<1>4. ASSUME phase = "attempt"
      PROVE  ResultProgress' /\ swapped' \subseteq Attempts
  <2>1. Position /\ L!TypeOK /\ ResultProgress
    BY <1>4, AtPosition, LedgerTyped DEF Inv, ResultInv
  <2>2. L!Mutable(attempt)' => L!Mutable(attempt)
    BY <1>2 DEF L!Mutable, L!Registered, L!Retried
  <2>3. ASSUME pc = ResultAt + 1, attempt \notin swapped'
        PROVE  files'[<<attempt, "result">>] = files[<<attempt, "result">>]
    <3>1. Program[pc] = Call("hash", "result")
      BY <2>1, <2>3, ProgramPlaces DEF Position
    <3>2. At("hash") /\ Arg = "result"
      BY <1>4, <3>1 DEF At, Arg, Call
    <3>3. p # <<attempt, "result">>
      BY <1>1, <2>3, <3>2 DEF Waiting, File
    <3> QED
      BY <1>2, <2>1, <3>3 DEF L!TypeOK, Position, Artifacts
  <2>4. ResultProgress'
    BY <1>2, <2>1, <2>2, <2>3 DEF ResultProgress, Holding, Tied
  <2> QED
    BY <1>1, <2>1, <2>4 DEF Position, Inv, ResultInv
<1>5. phase # "attempt" => swapped' = swapped
  BY <1>1 DEF Waiting, At
<1> QED
  BY <1>2, <1>3, <1>4, <1>5 DEF Inv, ResultInv

LEMMA ResultKept ==
    ASSUME Inv, [Next]_vars
    PROVE  ResultInv'
<1>1. CASE UNCHANGED vars
  <2>1. UNCHANGED <<runs, files, pending, phase, attempt, pc, result, swapped>>
    BY <1>1 DEF vars, ledger_vars, driver_vars, script_vars
  <2> QED
    BY <2>1, UnchangedKeepsResult DEF Inv
<1> QED
  BY <1>1, EarlyKeepResult, WriteResultKeepsResult, HashKeepsResult, StoreKeepsResult,
     DeclarationKeepsResult, LateKeepResult, JudgementsKeepResult, ScriptKeepsResult,
     TouchKeepsResult
     DEF Next, Step

\* What git makes of the worktrees stays in range.
LEMMA WorktreesKept ==
    ASSUME Inv, [Next]_vars
    PROVE  WorktreeType'
<1>1. CASE Prune
  BY <1>1 DEF Prune, Inv, WorktreeType, WorktreeStates
<1>2. CASE RemoveWorktree \/ AddWorktree
  BY <1>2 DEF RemoveWorktree, AddWorktree, Inv, WorktreeType, WorktreeStates
<1>3. CASE Crash
  BY <1>3 DEF Crash, Inv, WorktreeType
<1>4. CASE ~(Prune \/ RemoveWorktree \/ AddWorktree \/ Crash)
  <2>1. worktrees' = worktrees
    BY <1>4 DEF Next, Step, Start, RemoveLedger, RemoveComparison, GitRefuses, Compare, Write,
           Raise, Register, Claim, GateHolds, GateFails, WriteLog, WriteResult, HashArtifact,
           StoreReceipt, SetResultHash, Measure, RecordOutcome, Verify, Approve, Submit,
           Judged, Continue, MoveHead, TouchFile, vars, script_vars
  <2> QED
    BY <2>1 DEF Inv, WorktreeType
<1> QED
  BY <1>1, <1>2, <1>3, <1>4

LEMMA InvInductive == Spec => []Inv
<1>1. Init => Inv
  <2> SUFFICES ASSUME Init
               PROVE  Inv
    OBVIOUS
  <2>1. L!Inv
    <3>1. L!TypeOK /\ \A r \in Attempts : runs[r] = None
      <4>1. L!Init
        BY SameTypes DEF Init
      <4>2. <<>> \in Seq(L!EventActions)
        OBVIOUS
      <4> QED
        BY <4>1, <4>2 DEF L!Init, L!TypeOK
    <3> QED
      BY <3>1, LedgerAssumptions, L!EmptyLedger
  <2>2. DriverType
    BY BenchmarkAssumption, ProgramShape DEF Init, DriverType
  <2>3. DriverInv /\ ComparisonStandsOnLedger /\ WorktreeType
    BY DEF Init, DriverInv, Working, ComparisonStandsOnLedger, WorktreeType, WorktreeStates
  <2>4. ResultInv
    <3>1. \A r \in Attempts : ~Submitted(r)
      BY DEF Init, Ledger!Init, Submitted
    <3> QED
      BY <3>1 DEF Init, ResultInv, SubmittedTied
  <2> QED
    BY <2>1, <2>2, <2>3, <2>4 DEF Inv
<1>2. Inv /\ [Next]_vars => Inv'
  <2> SUFFICES ASSUME Inv, [Next]_vars
               PROVE  Inv'
    OBVIOUS
  <2>1. L!Inv'
    BY LedgerKept DEF Inv
  <2>2. ASSUME UNCHANGED vars
        PROVE  DriverKept
    <3>1. UNCHANGED <<runs, phase, attempt, pc, result, verdict, comparison, head,
                      checkout, faults, swapped>>
      BY <2>2 DEF vars, ledger_vars, driver_vars, script_vars
    <3>2. DriverType'
      BY <3>1 DEF Inv, DriverType
    <3>3. DriverInv'
      BY <3>1 DEF Inv, DriverInv, Working, LedgerEmpty, Submitted, Agree, Tied,
                  Ledger!SameContract
    <3>4. ComparisonStandsOnLedger'
      BY <3>1 DEF Inv, ComparisonStandsOnLedger, LedgerEmpty, Ledger!SameContract
    <3> QED
      BY <3>2, <3>3, <3>4 DEF DriverKept
  <2>3. ASSUME Next
        PROVE  DriverKept
    BY <2>3, CallsKeep, JudgementsKeep, ScriptKeeps, FaultsKeep DEF Next, Step
  <2> QED
    BY <2>1, <2>2, <2>3, ResultKept, WorktreesKept DEF Inv, DriverKept
<1> QED
  BY <1>1, <1>2, PTL DEF Spec

\* The driver keeps the ledger well-formed through crashes and restarts: it
\* asks nothing of the control plane but legal calls, and what it records is
\* in range whichever call it was stopped at.
THEOREM BenchmarkTypeCorrect == Spec => []TypeOK
<1>1. Inv => TypeOK
  BY LedgerTyped, SameTypes DEF Inv, DriverType, WorktreeType, ResultInv, TypeOK
<1> QED
  BY <1>1, InvInductive, PTL

\* comparison.json never stands beside a ledger it was not made from, and
\* "passed" in it means two submitted attempts at one contract with one result,
\* of which both receipts are unless a file was changed before it was hashed; for
\* any number of gates, commits and faults.
THEOREM ComparisonIsFounded == Spec => []ComparisonStandsOnLedger
<1>1. Inv => ComparisonStandsOnLedger
  BY DEF Inv
<1> QED
  BY <1>1, InvInductive, PTL
=============================================================================
