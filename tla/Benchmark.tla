----------------------------- MODULE Benchmark ------------------------------
(***************************************************************************)
(* The clean benchmark: run_clean_benchmark.sh removes the ledger and the  *)
(* comparison of the last experiment, has practice_pipeline.benchmark make *)
(* two attempts, each in a worktree of HEAD, and compares them.  The       *)
(* worktrees stay until the next experiment removes them.  The driver is a *)
(* client of ControlPlane that may be killed between any two of its calls  *)
(* and started again; what it asks of git, pytest and the pipeline is an   *)
(* outcome of the gate it records.                                         *)
(***************************************************************************)
EXTENDS Naturals, Sequences

CONSTANTS
    Heads,           \* the commits HEAD may be at: base and requirements
    OtherGates,      \* the gates after skill_cli, in the order recorded
    NotApplicable,   \* those recorded as not applicable
    Results,         \* the final snapshots the pipeline may produce
    MaxFaults,       \* how much may go wrong from outside, all in all
    None

Attempts == 1 .. 2

Worker == <<"clean-worker-1", "clean-worker-2">>

Reviewer == "automated-gate-review"

Artifacts == {"result", "pytest", "skill_cli"}

REQUIRED_GATES ==
    {"clean_checkout", "unit_tests", "skill_cli"}
        \cup {OtherGates[i] : i \in DOMAIN OtherGates}

Measurements == {"orders_current_rows", "revenue_cents_checksum"}

ASSUME BenchmarkAssumption ==
    /\ \A h \in Heads : DOMAIN h = {"base", "requirements"}
    /\ OtherGates \in Seq(REQUIRED_GATES)
    /\ NotApplicable \subseteq REQUIRED_GATES
    /\ MaxFaults \in Nat
    /\ "log" \notin Results

\* The identity and the requirements an attempt is registered with.
Contract(a, h) ==
    [task |-> "incremental-order-etl", candidate |-> "practice-pipeline",
     base |-> h.base, requirements |-> h.requirements, attempt |-> a,
     gates |-> REQUIRED_GATES, artifacts |-> Artifacts]

Call(op, arg) == [op |-> op, arg |-> arg]

\* run_benchmark: the calls that write files or the ledger, in order.
Program ==
    <<Call("register", ""), Call("claim", ""), Call("gate", "clean_checkout"),
      Call("write", "pytest"), Call("gate", "unit_tests"),
      Call("write", "skill_cli"), Call("gate", "skill_cli")>>
    \o [i \in DOMAIN OtherGates |-> Call("gate", OtherGates[i])]
    \o <<Call("write", "result"),
         Call("hash", "result"), Call("store", "result"),
         Call("hash", "pytest"), Call("store", "pytest"),
         Call("hash", "skill_cli"), Call("store", "skill_cli"),
         Call("result_hash", ""),
         Call("measure", "orders_current_rows"),
         Call("measure", "revenue_cents_checksum"),
         Call("outcome", "solved"),
         Call("verify", ""), Call("approve", ""), Call("submit", "")>>

VARIABLES
    runs, trail, files, pending,   \* the state of the control plane
    phase,        \* where the script is
    attempt,      \* the attempt it is at, or 0
    pc,           \* the call of Program that is next
    result,       \* the final snapshot in the driver's memory, or None
    verdict,      \* compare's verdict in memory, or None
    comparison,   \* comparison.json: absent, cut short, or a verdict
    head,         \* the commit at HEAD
    checkout,     \* the commit of the attempt's worktree, or None
    worktrees,    \* what each attempt's worktree is to git
    faults,       \* how much has gone wrong
    swapped       \* history: the attempts of this experiment whose result file
                  \* was changed after it was written and before it was hashed

ledger_vars == <<runs, trail, files, pending>>
driver_vars == <<attempt, pc, result, verdict>>
script_vars == <<phase, comparison, head, checkout, worktrees, faults,
                 swapped>>
vars == <<ledger_vars, driver_vars, script_vars>>

Ledger == INSTANCE Comparison WITH
    RunIds           <- Attempts,
    Contracts        <- {Contract(a, h) : a \in Attempts, h \in Heads},
    Owners           <- {Worker[a] : a \in Attempts} \cup {Reviewer},
    BaselineGates    <- {"clean_checkout", "unit_tests"},
    GateNames        <- REQUIRED_GATES,
    GateInputs       <- {"pass", "fail", "not_applicable"},
    ArtifactNames    <- Artifacts,
    Paths            <- Attempts \X Artifacts,
    Contents         <- Results \cup {"log"},
    ResultHashes     <- Results,
    OutcomeInputs    <- {"solved"},
    MeasurementNames <- Measurements,
    RiskNames        <- {},
    Recorders        <- {"driver"},
    TrailLen         <- 0

\* Nothing the control plane stores where it may store None is None.
ASSUME NoneAssumption ==
    /\ None \notin Attempts
    /\ None \notin {Worker[a] : a \in Attempts} \cup {Reviewer}
    /\ None \notin Results \cup {"log"}
    /\ None \notin Ledger!OutcomeClass
    /\ None \notin Ledger!GateStatus
    /\ None \notin Ledger!Receipt
    /\ None \notin Ledger!RunRecord
    /\ None \notin Ledger!PendingReceipt

Verdicts == {"passed", "not passed"}

\* "missing" is registered without a directory; "broken" is what a git that was
\* killed half way may leave (a directory without registration, a lock), of
\* which the next git may or may not make anything.
WorktreeStates == {"absent", "present", "missing", "broken"}

TypeOK ==
    /\ Ledger!TypeOK
    /\ phase \in {"off", "prune", "remove_ledger", "remove_comparison", "checkout",
                  "attempt", "compare", "write"}
    /\ attempt \in {0} \cup Attempts
    /\ pc \in 0 .. Len(Program)
    /\ result \in Results \cup {None}
    /\ verdict \in Verdicts \cup {None}
    /\ comparison \in {"absent", "torn"} \cup Verdicts
    /\ head \in Heads
    /\ checkout \in Heads \cup {None}
    /\ worktrees \in [Attempts -> WorktreeStates]
    /\ faults \in 0 .. MaxFaults
    /\ swapped \subseteq Attempts

Init ==
    /\ Ledger!Init
    /\ files = [p \in Attempts \X Artifacts |-> None]
    /\ phase = "off"
    /\ attempt = 0 /\ pc = 0 /\ result = None /\ verdict = None
    /\ comparison = "absent"
    /\ head \in Heads
    /\ checkout = None
    /\ worktrees = [a \in Attempts |-> "absent"]
    /\ faults = 0
    /\ swapped = {}

-----------------------------------------------------------------------------
(* The script around the attempts.                                         *)

\* The script ends, whoever ends it; what the processes held is gone.
Stop ==
    /\ phase' = "off"
    /\ attempt' = 0 /\ pc' = 0 /\ result' = None /\ verdict' = None
    /\ checkout' = None

Start ==
    /\ phase = "off"
    /\ phase' = "prune"
    /\ UNCHANGED <<ledger_vars, driver_vars, comparison, head, checkout, worktrees,
                    faults,
                    swapped>>

\* Mutation: what git has registered is left as it is.
PruneNothing ==
    /\ phase = "prune"
    /\ phase' = "remove_ledger"
    /\ UNCHANGED <<ledger_vars, driver_vars, comparison, head, checkout, worktrees,
                    faults,
                    swapped>>

\* git worktree prune
Prune ==
    /\ phase = "prune"
    /\ phase' = "remove_ledger"
    /\ worktrees' = [a \in Attempts |->
                       IF worktrees[a] = "missing" THEN "absent" ELSE worktrees[a]]
    /\ UNCHANGED <<ledger_vars, driver_vars, comparison, head, checkout, faults,
                    swapped>>

\* Mutation: the ledger of the last experiment is kept.
RemoveNoLedger ==
    /\ phase = "remove_ledger"
    /\ phase' = "remove_comparison"
    /\ UNCHANGED <<ledger_vars, driver_vars, comparison, head, checkout, worktrees,
                    faults,
                    swapped>>

\* rm unlinks its arguments one after the other: the ledger first.
RemoveLedger ==
    /\ phase = "remove_ledger"
    /\ phase' = "remove_comparison"
    /\ runs' = [r \in Attempts |-> None]
    /\ trail' = [r \in Attempts |-> <<>>]
    /\ swapped' = {}
    /\ UNCHANGED <<files, pending, driver_vars, comparison, head, checkout,
                    worktrees, faults>>

\* Mutation: the comparison of the last experiment is kept until it is written over.
RemoveNoComparison ==
    /\ phase = "remove_comparison"
    /\ phase' = "checkout"
    /\ attempt' = 1
    /\ UNCHANGED <<ledger_vars, pc, result, verdict, comparison, head, checkout,
                    worktrees,
                    faults, swapped>>

RemoveComparison ==
    /\ phase = "remove_comparison"
    /\ phase' = "checkout"
    /\ comparison' = "absent"
    /\ attempt' = 1
    /\ UNCHANGED <<ledger_vars, pc, result, verdict, head, checkout, worktrees,
                    faults, swapped>>

\* Mutation: the directory an earlier run left is not removed, and git adds no
\* worktree where there is one.
AddOverLeftover ==
    /\ phase = "checkout"
    /\ worktrees[attempt] \in {"present", "broken"}
    /\ Stop
    /\ UNCHANGED <<ledger_vars, comparison, head, worktrees, faults, swapped>>

\* git worktree remove --force, where an earlier run left the directory
RemoveWorktree ==
    /\ phase = "checkout"
    /\ worktrees[attempt] \in {"present", "broken"}
    /\ worktrees' = [worktrees EXCEPT ![attempt] = "absent"]
    /\ UNCHANGED <<ledger_vars, driver_vars, phase, comparison, head, checkout,
                    faults, swapped>>

\* git worktree add --detach ... HEAD, once for each attempt
AddWorktree ==
    /\ phase = "checkout"
    /\ worktrees[attempt] = "absent"
    /\ worktrees' = [worktrees EXCEPT ![attempt] = "present"]
    /\ phase' = "attempt"
    /\ checkout' = head
    /\ pc' = 1
    /\ UNCHANGED <<ledger_vars, attempt, result, verdict, comparison, head, faults,
                    swapped>>

\* git exits with an error, which ends the script (set -e).
GitRefuses ==
    /\ phase = "checkout"
    /\ worktrees[attempt] \in {"missing", "broken"}
    /\ Stop
    /\ UNCHANGED <<ledger_vars, comparison, head, worktrees, faults, swapped>>

\* practice_pipeline.compare, up to the opening of its output
Compare ==
    /\ phase = "compare"
    /\ phase' = "write"
    /\ verdict' = IF Ledger!ComparisonPasses(Ledger!Loaded(Attempts))
                THEN "passed" ELSE "not passed"
    /\ comparison' = "torn"
    /\ UNCHANGED <<ledger_vars, attempt, pc, result, head, checkout, worktrees,
                    faults, swapped>>

Write ==
    /\ phase = "write"
    /\ comparison' = verdict
    /\ Stop
    /\ UNCHANGED <<ledger_vars, head, worktrees, faults, swapped>>

-----------------------------------------------------------------------------
(* An attempt, call by call.                                               *)

At(op) == phase = "attempt" /\ Program[pc].op = op

Arg == Program[pc].arg

File(name) == <<attempt, name>>

\* The next call, the next attempt, or the comparison.
Continue ==
    /\ IF pc < Len(Program)
       THEN pc' = pc + 1 /\ UNCHANGED <<phase, attempt>>
       ELSE /\ pc' = 0
            /\ IF attempt = 1 THEN phase' = "checkout" /\ attempt' = 2
               ELSE phase' = "compare" /\ UNCHANGED attempt
    /\ UNCHANGED <<verdict, comparison, head, checkout, worktrees, swapped>>

\* Registering the same run again returns its record.  No migration note.
Register ==
    /\ At("register")
    /\ IF runs[attempt] = None
       THEN Ledger!Register(attempt, Contract(attempt, checkout), None, FALSE)
       ELSE /\ runs[attempt].contract = Contract(attempt, checkout)
            /\ UNCHANGED ledger_vars
    /\ Continue
    /\ UNCHANGED <<result, faults>>

Claim ==
    /\ At("claim")
    /\ Ledger!Claim(attempt, Worker[attempt])
    /\ Continue
    /\ UNCHANGED <<result, faults>>

GateHolds ==
    /\ At("gate")
    /\ Ledger!RecordGate(attempt, Arg,
           IF Arg \in NotApplicable THEN "not_applicable" ELSE "pass")
    /\ Continue
    /\ UNCHANGED <<result, faults>>

\* A failing gate is recorded and the attempt goes on.
GateFails ==
    /\ At("gate") /\ Arg \notin NotApplicable
    /\ faults < MaxFaults /\ faults' = faults + 1
    /\ Ledger!RecordGate(attempt, Arg, "fail")
    /\ Continue
    /\ UNCHANGED result

WriteLog ==
    /\ At("write") /\ Arg # "result"
    /\ Ledger!EditFile(File(Arg), "log")
    /\ Continue
    /\ UNCHANGED <<result, faults>>

\* Mutation: the pipeline is read once for the file and again for the hash.
WriteResultOfAnotherRead ==
    /\ At("write") /\ Arg = "result"
    /\ \E s \in Results : Ledger!EditFile(File(Arg), s)
    /\ result' \in Results
    /\ Continue
    /\ UNCHANGED faults

WriteResult ==
    /\ At("write") /\ Arg = "result"
    /\ \E s \in Results : result' = s /\ Ledger!EditFile(File(Arg), s)
    /\ Continue
    /\ UNCHANGED faults

HashArtifact ==
    /\ At("hash")
    /\ Ledger!HashArtifact("driver", attempt, Arg, File(Arg))
    /\ Continue
    /\ UNCHANGED <<result, faults>>

StoreReceipt ==
    /\ At("store")
    /\ Ledger!StoreReceipt("driver")
    /\ Continue
    /\ UNCHANGED <<result, faults>>

\* The digest of the snapshot in memory, not of the file.
SetResultHash ==
    /\ At("result_hash")
    /\ Ledger!SetResultHash(attempt, result)
    /\ Continue
    /\ UNCHANGED <<result, faults>>

Measure ==
    /\ At("measure")
    /\ Ledger!RecordMeasurement(attempt, Arg)
    /\ Continue
    /\ UNCHANGED <<result, faults>>

RecordOutcome ==
    /\ At("outcome")
    /\ Ledger!RecordOutcome(attempt, Arg)
    /\ Continue
    /\ UNCHANGED <<result, faults>>

\* What a call raises for: a collision or a change of requirements, a missing
\* file, a run that takes no more changes or, in claim, has another owner.
Refused ==
    \/ /\ At("register")
       /\ IF runs[attempt] = None
          THEN ~Ledger!MigrationAllowed(Contract(attempt, checkout), FALSE)
          ELSE runs[attempt].contract # Contract(attempt, checkout)
    \/ At("hash") /\ files[File(Arg)] = None
    \/ /\ Program[pc].op \in {"claim", "gate", "result_hash", "measure", "outcome"}
       /\ ~Ledger!Mutable(attempt)
    \/ At("claim") /\ runs[attempt].evidence.owner \notin {None, Worker[attempt]}

Raise ==
    /\ phase = "attempt" /\ Refused
    /\ Stop
    /\ UNCHANGED <<ledger_vars, comparison, head, worktrees, faults, swapped>>

\* The three calls that judge the run end the script if it does not pass.
Judged ==
    /\ IF Ledger!Passes(attempt)
       THEN Continue /\ UNCHANGED result
       ELSE Stop /\ UNCHANGED <<comparison, head, worktrees, swapped>>
    /\ UNCHANGED faults

Verify == At("verify") /\ Ledger!Verify(attempt) /\ Judged

Approve == At("approve") /\ Ledger!Approve(attempt, Reviewer) /\ Judged

Submit == At("submit") /\ Ledger!Submit(attempt) /\ Judged

-----------------------------------------------------------------------------
(* What goes wrong from outside.                                           *)

Fault == faults < MaxFaults /\ faults' = faults + 1

\* The script is killed, or a call raises for a reason of its own.  A git that is
\* killed may leave anything of the worktree it was removing or adding.
Crash ==
    /\ phase # "off"
    /\ Fault
    /\ Stop
    /\ pending' = [w \in {"driver"} |-> None]
    /\ \/ UNCHANGED worktrees
       \/ /\ phase = "checkout"
          /\ \E w \in WorktreeStates : worktrees' = [worktrees EXCEPT ![attempt] = w]
    /\ UNCHANGED <<runs, trail, files, comparison, head, swapped>>

MoveHead ==
    /\ Fault
    /\ head' \in Heads \ {head}
    /\ UNCHANGED <<ledger_vars, driver_vars, phase, comparison, checkout, worktrees,
                    swapped>>

\* The result of the attempt stands written and waits to be hashed.
Waiting(p) == At("hash") /\ Arg = "result" /\ p = File("result")

TouchFile ==
    /\ Fault
    /\ \E p \in Attempts \X Artifacts, c \in Results \cup {None} :
          /\ Ledger!EditFile(p, c)
          /\ swapped' = IF Waiting(p) THEN swapped \cup {attempt} ELSE swapped
    /\ UNCHANGED <<driver_vars, phase, comparison, head, checkout, worktrees>>

\* What the script and its driver do on their own.
Step ==
    \/ Prune \/ RemoveLedger \/ RemoveComparison
    \/ RemoveWorktree \/ AddWorktree \/ GitRefuses \/ Compare \/ Write
    \/ Register \/ Claim \/ GateHolds \/ WriteLog \/ WriteResult
    \/ HashArtifact \/ StoreReceipt \/ SetResultHash \/ Measure \/ RecordOutcome
    \/ Verify \/ Approve \/ Submit \/ Raise

Next == Start \/ Step \/ GateFails \/ Crash \/ MoveHead \/ TouchFile

Spec == Init /\ [][Next]_vars

\* A script that runs goes on; nobody has to start it.
FairSpec == Spec /\ WF_vars(Step)

-----------------------------------------------------------------------------
(* Properties.                                                             *)

LedgerEmpty == \A r \in Attempts : runs[r] = None

\* Whatever comparison.json says or is about to say, it never stands beside a
\* ledger of another experiment: the ledger is gone, or both of its runs are
\* submitted; and if it says "passed" they are attempts at one contract that
\* declared one result, and the receipt of each one's result file is of that
\* result, unless somebody changed the file between its writing and its hashing.
ComparisonStandsOnLedger ==
    comparison # "absent" /\ ~LedgerEmpty =>
        /\ \A r \in Attempts : runs[r] # None /\ runs[r].status = "submitted"
        /\ comparison = "passed" =>
              /\ Ledger!SameContract(runs[1].contract, runs[2].contract)
              /\ runs[1].evidence.result_hash = runs[2].evidence.result_hash
              /\ \A r \in Attempts \ swapped :
                    runs[r].evidence.artifacts["result"].sha256
                        = runs[r].evidence.result_hash

\* Wherever the last experiment was broken off (between approve and submit, say,
\* after which its run takes no more calls, or with its worktrees left behind),
\* the next one runs to its end if nothing more goes wrong, unless a git that was
\* killed has left a worktree git may not be able to remove.
ExperimentEnds ==
    (/\ phase = "prune" /\ faults = MaxFaults
     /\ \A a \in Attempts : worktrees[a] # "broken")
        ~> (phase = "off" /\ comparison \in Verdicts)
=============================================================================
