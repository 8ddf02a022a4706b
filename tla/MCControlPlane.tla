--------------------------- MODULE MCControlPlane ---------------------------
(***************************************************************************)
(* A small instance of ControlPlane for TLC.                               *)
(***************************************************************************)
EXTENDS ControlPlane

LifecycleContracts ==
    {[task |-> "t", base |-> "b", requirements |-> "q", attempt |-> 1,
      gates |-> {"unit_tests"}, candidate |-> "cand", artifacts |-> {"result"}]}
=============================================================================
