---------------------------- MODULE MCComparing -----------------------------
(***************************************************************************)
(* A small instance of Comparing for TLC.                                  *)
(***************************************************************************)
EXTENDS Comparing

CONSTANTS r1, r2

RunSymmetry == Permutations(RunIds)

\* An original attempt and a second one, with no gate but the baseline.
RetryContracts ==
    {[task |-> "t", base |-> "b", requirements |-> "q", attempt |-> n,
      gates |-> BaselineGates, candidate |-> "cand", artifacts |-> {"result"}] : n \in 1..2}
=============================================================================
