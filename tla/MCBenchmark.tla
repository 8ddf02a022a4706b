---------------------------- MODULE MCBenchmark -----------------------------
(***************************************************************************)
(* A small instance of Benchmark for TLC.                                  *)
(***************************************************************************)
EXTENDS Benchmark

\* HEAD may move to a commit with other code, or with other requirements too.
MCHeads ==
    {[base |-> "b1", requirements |-> "q1"],
     [base |-> "b2", requirements |-> "q1"],
     [base |-> "b2", requirements |-> "q2"]}

MCOtherGates == <<"idempotency", "snapshot_isolation">>
=============================================================================
