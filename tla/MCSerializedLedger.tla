------------------------- MODULE MCSerializedLedger -------------------------
(***************************************************************************)
(* A small instance of SerializedLedger for TLC.                           *)
(***************************************************************************)
EXTENDS SerializedLedger, TLC

CONSTANTS r1, r2, r3

RunSymmetry == Permutations(RunIds)

Contract(task, base, requirements, attempt) ==
    [task |-> task, base |-> base, requirements |-> requirements,
     attempt |-> attempt, gates |-> {"unit_tests"}, candidate |-> "cand",
     artifacts |-> {"result"}]

\* Three attempts at one contract, so that nothing but the rule against it
\* refuses the retry of a retry, and a change of dataset and requirements.
MCContracts ==
    {Contract("t", "b", "q", n) : n \in 1..3} \cup {Contract("t", "other", "q2", 2)}

\* A run of an older version: everything but the gate may be in order.
LegacyRecord(gates, outcome) ==
    [identity       |-> [task |-> "t", candidate |-> "cand", base |-> "b", attempt |-> 1],
     required_gates |-> {"unit_tests"},
     status         |-> "running",
     owner          |-> "old worker",
     result_hash    |-> "h",
     gates          |-> gates,
     artifacts      |-> [result |-> [path |-> "out", sha256 |-> "x"]],
     outcome        |-> outcome]

MCLegacyRecords ==
    {LegacyRecord([unit_tests |-> [passed |-> TRUE]], "solved"),
     LegacyRecord([unit_tests |-> [passed |-> FALSE]], "solved"),
     LegacyRecord(<<>>, "timeout")}
=============================================================================
